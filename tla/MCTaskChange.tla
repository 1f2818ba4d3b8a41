---------------------------- MODULE MCTaskChange ----------------------------
(***************************************************************************)
(* TaskChange with the priorities of benchmark_testcases.h.                *)
(***************************************************************************)
EXTENDS TaskChange

CONSTANTS sa1, sa2, sa3, sa4

MCDummies == {sa1, sa2, sa3, sa4}

MCprio == [t \in MainTasks \cup MCDummies |->
             CASE t = "Task_SB" -> 2
               [] t = "I_Task" -> 15
               [] OTHER -> 3]
=============================================================================
