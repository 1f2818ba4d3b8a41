---------------------------- MODULE MCSemPreempt ----------------------------
(***************************************************************************)
(* SemPreempt with the priorities of benchmark_testcases.h.                *)
(***************************************************************************)
EXTENDS SemPreempt

CONSTANTS sa1, sa2, sa3, sb1, sb2, sb3

MCSaDummies == {sa1, sa2, sa3}
MCSbDummies == {sb1, sb2, sb3}

MCprio == [t \in MainTasks \cup MCSaDummies \cup MCSbDummies |->
             CASE t = "H_Task_SA" -> 2
               [] t = sa1 -> 3
               [] t = sa2 -> 4
               [] t = sa3 -> 5
               [] t = "L_Task_SA" -> 7
               [] t = "H_Task_SB" -> 8
               [] t = "L_Task_SB" -> 10
               [] t = sb1 -> 11
               [] t = sb2 -> 12
               [] t = sb3 -> 13
               [] t = "I_Task" -> 15]
=============================================================================
