--------------------------- MODULE MCTaskPreempt ---------------------------
(***************************************************************************)
(* TaskPreempt with the priorities of benchmark_testcases.h.               *)
(***************************************************************************)
EXTENDS TaskPreempt

CONSTANTS sb1, sb2, sb3, sb4

MCDummies == {sb1, sb2, sb3, sb4}

MCprio == [t \in MainTasks \cup MCDummies |->
             CASE t = "Task_SB" -> 2
               [] t = sb1 -> 3
               [] t = sb2 -> 4
               [] t = sb3 -> 5
               [] t = sb4 -> 6
               [] t = "H_Task_SA" -> 8
               [] t = "L_Task_SA" -> 9
               [] t = "I_Task" -> 15]
=============================================================================
