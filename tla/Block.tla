-------------------------------- MODULE Block --------------------------------
(***************************************************************************)
(* src/task_switching/sem_block/time_task_switch_sem.c                     *)
(* src/task_switching/event_block/time_task_switch_event.c                 *)
(*                                                                         *)
(* One program for two primitives.  Scenario A measures the switch from    *)
(* H_Task_SA, which pends on a semaphore or an event bit, to L_Task_SA;    *)
(* scenario B measures the same call with K_NO_WAIT, which does not        *)
(* switch.  The loop of L_Task_SA begins with its stop marker, so its      *)
(* first iteration is recorded before H_Task_SA has opened a window.       *)
(* In the semaphore program no test case creates a dummy_task: none sets   *)
(* ADD_DUMMY_TASKS to 1.                                                   *)
(***************************************************************************)
EXTENDS Naturals

CONSTANTS
    Dummies,                \* the pool of dummy_task threads of scenario A
    prio,                   \* the priorities of benchmark_testcases.h
    MEASUREMENT_COUNT,      \* iterations of each scenario
    K_SEM_MAX_LIMIT         \* the limit of test_sem

VARIABLES
    thread, count, events,  \* the kernel's state, see module Kernel
    pc, i, window, samples, \* see module TestProgram
    primitive,              \* which of the two programs this is
    load                    \* the dummies that this build creates

MainTasks == {"I_Task", "L_Task_SA", "H_Task_SA", "H_Task_SB"}
Task == MainTasks \cup Dummies

START == "START_EVENT"
YIELD == "SIGNALIZE_YIELD_EVENT"
A == "SCENARIO_A_EVENT"
B == "SCENARIO_B_EVENT"
test_sem == "test_sem"

build == <<primitive, load>>

INSTANCE TestProgram WITH Sem <- {test_sem}, Event <- {START, YIELD, A, B}

vars == <<thread, count, events, pc, i, window, samples, primitive, load>>

\* What H_Task_SA and the dummies pend on.
measured == IF primitive = "sem" THEN test_sem ELSE A

ASSUME TaskAssumption == MainTasks \cap Dummies = {}

ASSUME CountAssumption ==
    /\ MEASUREMENT_COUNT \in Nat \ {0}
    /\ K_SEM_MAX_LIMIT \in Nat \ {0}

\* Dummies > H_SA > L_SA > I, and H_SB > I.
ASSUME PrioAssumption ==
    /\ prio \in [Task -> Nat]
    /\ \A t, u \in Task : prio[t] = prio[u] => t = u
    /\ \A t \in Task \ {"I_Task"} : prio[t] < prio["I_Task"]
    /\ \A d \in Dummies : prio[d] < prio["H_Task_SA"]
    /\ prio["H_Task_SA"] < prio["L_Task_SA"]

-----------------------------------------------------------------------------
\* main() has initialised the two series, created I_Task and returned.
Init ==
    /\ thread = [t \in Task |-> IF t = "I_Task" THEN "ready" ELSE "none"]
    /\ count = [s \in {test_sem} |-> 0]
    /\ events = {}
    /\ pc = [t \in Task |->
               CASE t = "I_Task" -> "create_high_sa"
                 [] t = "L_Task_SA" -> "stop"
                 [] t \in {"H_Task_SA", "H_Task_SB"} -> "wait_start"
                 [] t \in Dummies -> "wait"]
    /\ i = 0
    /\ window = "closed"
    /\ samples = [s \in {"scenario_a", "scenario_b"} |-> 0]
    /\ primitive \in {"sem", "event"}
    /\ load \in IF primitive = "sem" THEN {{}} ELSE SUBSET Dummies

-----------------------------------------------------------------------------
\* L_Task_SA

LowSA_Stop ==
    /\ Step("L_Task_SA", "stop", "suspend")
    /\ RecordSample("scenario_a")
    /\ EventPost(YIELD)
    /\ UNCHANGED i

LowSA_Suspend ==
    /\ Step("L_Task_SA", "suspend", "post")
    /\ Suspend("L_Task_SA")
    /\ Quiet

LowSA_Give ==
    /\ primitive = "sem"
    /\ Step("L_Task_SA", "post", "stop")
    /\ SemGive(test_sem)
    /\ Quiet

LowSA_Post ==
    /\ primitive = "event"
    /\ Step("L_Task_SA", "post", "stop")
    /\ EventPost(A)
    /\ Quiet

\* H_Task_SA

HighSA_WaitStart ==
    /\ Step("H_Task_SA", "wait_start", "wait")
    /\ EventWait("H_Task_SA", START)
    /\ Quiet

HighSA_Take ==
    /\ primitive = "sem"
    /\ Step("H_Task_SA", "wait", "wait")
    /\ OpenWindow("scenario_a")
    /\ SemTake("H_Task_SA", test_sem)
    /\ UNCHANGED i

HighSA_Wait ==
    /\ primitive = "event"
    /\ Step("H_Task_SA", "wait", "wait")
    /\ OpenWindow("scenario_a")
    /\ EventWait("H_Task_SA", A)
    /\ UNCHANGED i

\* H_Task_SB

HighSB_WaitStart ==
    /\ Step("H_Task_SB", "wait_start", "wait")
    /\ EventWait("H_Task_SB", START)
    /\ Quiet

HighSB_Take ==
    /\ primitive = "sem"
    /\ Step("H_Task_SB", "wait", "stop")
    /\ OpenWindow("scenario_b")
    /\ SemTry(test_sem)
    /\ UNCHANGED i

\* Mutant: K_FOREVER in the place of K_NO_WAIT.
HighSB_Wait_Forever ==
    /\ primitive = "event"
    /\ Step("H_Task_SB", "wait", "stop")
    /\ OpenWindow("scenario_b")
    /\ EventWait("H_Task_SB", B)
    /\ UNCHANGED i

HighSB_Wait ==
    /\ primitive = "event"
    /\ Step("H_Task_SB", "wait", "stop")
    /\ OpenWindow("scenario_b")
    /\ EventTry(B)
    /\ UNCHANGED i

HighSB_Stop ==
    /\ Step("H_Task_SB", "stop", "suspend")
    /\ RecordSample("scenario_b")
    /\ EventPost(YIELD)
    /\ UNCHANGED i

HighSB_Suspend ==
    /\ Step("H_Task_SB", "suspend", "wait")
    /\ Suspend("H_Task_SB")
    /\ Quiet

\* Mutant: the dummies wait for the bit that starts the test.
Dummy_Wait_Start(d) ==
    /\ Step(d, "wait", "wait")
    /\ window' = IF window = "scenario_a" THEN "closed" ELSE window
    /\ EventWait(d, START)
    /\ UNCHANGED <<samples, i>>

\* dummy_task closes the window of scenario A, open or not.
Dummy_Wait(d) ==
    /\ Step(d, "wait", "wait")
    /\ window' = IF window = "scenario_a" THEN "closed" ELSE window
    /\ EventWait(d, A)
    /\ UNCHANGED <<samples, i>>

-----------------------------------------------------------------------------
\* I_Task

I_CreateDummySA(d) ==
    d \in load /\ I_Create("create_high_sa", d, "create_high_sa")

I_CreateHighSA ==
    /\ \A d \in load : thread[d] # "none"
    /\ I_Create("create_high_sa", "H_Task_SA", "create_low_sa")

I_CreateLowSA == I_Create("create_low_sa", "L_Task_SA", "post_start_sa")

I_PostStart(l, m) ==
    /\ Step("I_Task", l, m)
    /\ EventPost(START)
    /\ Quiet

I_PostStartSA == I_PostStart("post_start_sa", "wait_sa")

I_WaitSA ==
    /\ Step("I_Task", "wait_sa", "resume_sa")
    /\ EventWait("I_Task", YIELD)
    /\ Quiet

I_ResumeSA == I_Resume("resume_sa", "L_Task_SA", "wait_sa", "abort_low_sa", MEASUREMENT_COUNT)

I_AbortLowSA == I_Abort("abort_low_sa", "L_Task_SA", "abort_high_sa")

\* Mutant: H_Task_SA is left in its wait queue.
I_AbortHighSA_Skipped ==
    /\ Step("I_Task", "abort_high_sa", "clear")
    /\ NoCall /\ Quiet

I_AbortHighSA == I_Abort("abort_high_sa", "H_Task_SA", "clear")

I_AbortDummySA(d) ==
    /\ d \in load
    /\ thread[d] # "dead"
    /\ I_Abort("clear", d, "clear")

\* "S_B takes on an empty semaphore: no count may carry over from S_A."
I_ResetSA ==
    /\ primitive = "sem"
    /\ Step("I_Task", "clear", "create_high_sb")
    /\ SemReset(test_sem)
    /\ Quiet

I_Clear ==
    /\ primitive = "event"
    /\ \A d \in load : thread[d] = "dead"
    /\ Step("I_Task", "clear", "create_high_sb")
    /\ EventClear(A)
    /\ Quiet

I_CreateHighSB == I_Create("create_high_sb", "H_Task_SB", "post_start_sb")

\* H_Task_SB opens its first window without a resume.
I_PostStartSB ==
    I_PostStart("post_start_sb", IF MEASUREMENT_COUNT > 1 THEN "wait_sb" ELSE "signalize")

I_WaitSB ==
    /\ Step("I_Task", "wait_sb", IF primitive = "sem" THEN "reset_sb" ELSE "resume_sb")
    /\ EventWait("I_Task", YIELD)
    /\ Quiet

I_ResetSB ==
    /\ Step("I_Task", "reset_sb", "resume_sb")
    /\ SemReset(test_sem)
    /\ Quiet

\* Mutant: the loop of scenario B has the bound of scenario A.
I_ResumeSB_OneMore ==
    I_Resume("resume_sb", "H_Task_SB", "wait_sb", "signalize", MEASUREMENT_COUNT)

I_ResumeSB == I_Resume("resume_sb", "H_Task_SB", "wait_sb", "signalize", MEASUREMENT_COUNT - 1)

ThreadStep ==
    \/ LowSA_Stop \/ LowSA_Suspend \/ LowSA_Give \/ LowSA_Post
    \/ HighSA_WaitStart \/ HighSA_Take \/ HighSA_Wait
    \/ HighSB_WaitStart \/ HighSB_Take \/ HighSB_Wait \/ HighSB_Stop \/ HighSB_Suspend
    \/ \E d \in Dummies : Dummy_Wait(d)

ControlStep ==
    \/ I_CreateHighSA \/ I_CreateLowSA \/ I_PostStartSA \/ I_WaitSA \/ I_ResumeSA
    \/ I_AbortLowSA \/ I_AbortHighSA \/ I_ResetSA \/ I_Clear
    \/ I_CreateHighSB \/ I_PostStartSB \/ I_WaitSB \/ I_ResetSB \/ I_ResumeSB
    \/ I_Signalize
    \/ \E d \in Dummies : I_CreateDummySA(d) \/ I_AbortDummySA(d)

Next == ThreadStep \/ ControlStep

\* The CPU never idles while a thread is ready.
Spec == Init /\ [][Next]_vars /\ WF_vars(Next)

-----------------------------------------------------------------------------
Labels == {"create_high_sa", "create_low_sa", "post_start_sa", "wait_sa", "resume_sa",
           "abort_low_sa", "abort_high_sa", "clear", "create_high_sb", "post_start_sb",
           "wait_sb", "reset_sb", "resume_sb", "signalize", "wait_start", "wait", "stop",
           "suspend", "post"}

\* Every variable has its type.
TypeOK ==
    /\ KernelTypeOK
    /\ pc \in [Task -> Labels]
    /\ i \in 0..(MEASUREMENT_COUNT - 1)
    /\ window \in {"scenario_a", "scenario_b", "closed"}
    /\ samples["scenario_a"] \in 0..(MEASUREMENT_COUNT + 1)
    /\ samples["scenario_b"] \in 0..MEASUREMENT_COUNT
    /\ primitive \in {"sem", "event"}
    /\ load \subseteq Dummies

\* From its second iteration on L_Task_SA takes the stop marker in an open
\* window, with H_Task_SA pending on the measured call and every dummy that
\* the post has woken back in the wait queue: the window holds the switch and
\* nothing else.  In a window of scenario B only H_Task_SB runs.
WindowIsolation ==
    /\ Runs("L_Task_SA") /\ pc["L_Task_SA"] = "stop" /\ samples["scenario_a"] > 0 =>
          window = "scenario_a" /\ Waiters(measured) = {"H_Task_SA"} \cup load
    /\ window = "scenario_b" => Runs("H_Task_SB") /\ pc["H_Task_SB"] = "stop"

\* H_Task_SA always opens its window with the dummies in the wait queue and
\* neither a count nor its bit to find, so that its own call pends.  The call of
\* scenario B never finds what it asks for, and no thread of scenario A is left
\* alive or in a wait queue ("no count may carry over from S_A").
SameConditions ==
    LET nothing == count[test_sem] = 0 /\ events \cap {A, B} = {}
    IN  /\ Runs("H_Task_SA") /\ pc["H_Task_SA"] = "wait" => Waiters(measured) = load /\ nothing
        /\ Runs("H_Task_SB") /\ pc["H_Task_SB"] = "wait" =>
              /\ nothing
              /\ \A c \in {START, YIELD, A, B, test_sem} : Waiters(c) = {}
              /\ \A t \in load \cup {"L_Task_SA", "H_Task_SA"} : thread[t] = "dead"

\* No k_thread_resume() comes before the suspend that it answers, although
\* YIELD has been posted once more than it has been waited for.
NoLostResume ==
    /\ Runs("I_Task") /\ pc["I_Task"] = "resume_sa" => thread["L_Task_SA"] = "suspended"
    /\ Runs("I_Task") /\ pc["I_Task"] = "resume_sb" => thread["H_Task_SB"] = "suspended"

\* The test ends with MEASUREMENT_COUNT iterations of both scenarios, and with
\* the call for scenario A that comes before its first window.  (What BMTH does
\* with a call outside a window is not known from the repository.)
Finishes ==
    <>[](/\ pc["I_Task"] = "signalize"
         /\ samples["scenario_a"] = MEASUREMENT_COUNT + 1
         /\ samples["scenario_b"] = MEASUREMENT_COUNT)

\* What README.md:199 says of an iteration: it is "one measurement inside an
\* open window".  L_Task_SA feeds scenario A once before a window is open.
OneIterationPerWindow ==
    [][\A s \in {"scenario_a", "scenario_b"} : samples'[s] # samples[s] => window = s]_vars
=============================================================================
