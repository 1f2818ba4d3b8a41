--------------------------- MODULE MCEventPreempt ---------------------------
(***************************************************************************)
(* EventPreempt with the priorities of benchmark_testcases.h.              *)
(***************************************************************************)
EXTENDS EventPreempt

CONSTANTS sa1, sa2, sa3, sa4, sb1, sb2, sb3, sb4

MCSaDummies == {sa1, sa2, sa3, sa4}
MCSbDummies == {sb1, sb2, sb3, sb4}

MCprio == [t \in MainTasks \cup MCSaDummies \cup MCSbDummies |->
             CASE t = "H_Task_SA" -> 2
               [] t = sa1 -> 3
               [] t = sa2 -> 4
               [] t = sa3 -> 5
               [] t = sa4 -> 6
               [] t = "L_Task_SA" -> 7
               [] t = "H_Task_SB" -> 8
               [] t = sb1 -> 10
               [] t = sb2 -> 11
               [] t = sb3 -> 12
               [] t = sb4 -> 13
               [] t = "L_Task_SB" -> 14
               [] t = "I_Task" -> 15]
=============================================================================
