-------------------------------- MODULE MCBlock --------------------------------
(***************************************************************************)
(* Block with the priorities of benchmark_testcases.h and the pool of four *)
(* dummies, of which every subset is a load.                               *)
(***************************************************************************)
EXTENDS Block

CONSTANTS sa1, sa2, sa3, sa4

MCDummies == {sa1, sa2, sa3, sa4}

MCprio == [t \in MainTasks \cup MCDummies |->
             CASE t = sa1 -> 2
               [] t = sa2 -> 3
               [] t = sa3 -> 4
               [] t = sa4 -> 5
               [] t = "H_Task_SA" -> 6
               [] t = "L_Task_SA" -> 7
               [] t = "H_Task_SB" -> 8
               [] t = "I_Task" -> 15]
=============================================================================
