---------------------------- MODULE EventPreempt ----------------------------
(***************************************************************************)
(* src/task_switching/event_preempt/time_task_switch_event.c               *)
(*                                                                         *)
(* As SemPreempt, with a bit of test_event as the measured object.  A post *)
(* wakes the waiter and every dummy at once, the dummies learn the bit     *)
(* they wait for from a variable of I_Task, and without a waiter H_Task_SB *)
(* resumes L_Task_SB before it opens the window.                           *)
(***************************************************************************)
EXTENDS Naturals, FiniteSets

CONSTANTS
    SaDummies, SbDummies,   \* the pools of dummy_task threads
    prio,                   \* the priorities of benchmark_testcases.h
    MEASUREMENT_COUNT       \* iterations of each scenario

VARIABLES
    thread, events,         \* the kernel's state, see module Kernel
    pc, i, window, samples, \* see module TestProgram
    hasWaiter, load,        \* the build: whether L_Task_SB waits, which dummies exist
    mask                    \* dummy_task_event_mask, on the stack of I_Task

MainTasks == {"I_Task", "L_Task_SA", "H_Task_SA", "L_Task_SB", "H_Task_SB"}
Dummies == SaDummies \cup SbDummies
Task == MainTasks \cup Dummies

START == "START_EVENT"
YIELD == "SIGNALIZE_YIELD_EVENT"
A == "SCENARIO_A_EVENT"
B == "SCENARIO_B_EVENT"

build == <<hasWaiter, load>>

INSTANCE TestProgram WITH
    Sem <- {}, count <- <<>>, K_SEM_MAX_LIMIT <- 0, Event <- {START, YIELD, A, B}

SaLoad == load \cap SaDummies
SbLoad == load \cap SbDummies

vars == <<thread, events, pc, i, window, samples, hasWaiter, load, mask>>

\* The pools are disjoint from each other and from the named threads.
ASSUME TaskAssumption ==
    /\ SaDummies \cap SbDummies = {}
    /\ MainTasks \cap Dummies = {}

ASSUME CountAssumption == MEASUREMENT_COUNT \in Nat \ {0}

\* H_SA > sa dummies > L_SA > I and H_SB > sb dummies > L_SB > I.
ASSUME PrioAssumption ==
    /\ prio \in [Task -> Nat]
    /\ \A t, u \in Task : prio[t] = prio[u] => t = u
    /\ \A t \in Task \ {"I_Task"} : prio[t] < prio["I_Task"]
    /\ \A d \in SaDummies : prio["H_Task_SA"] < prio[d] /\ prio[d] < prio["L_Task_SA"]
    /\ prio["H_Task_SA"] < prio["L_Task_SA"]
    /\ \A d \in SbDummies : prio["H_Task_SB"] < prio[d] /\ prio[d] < prio["L_Task_SB"]
    /\ prio["H_Task_SB"] < prio["L_Task_SB"]

-----------------------------------------------------------------------------
\* main() has initialised the two series, created I_Task and returned.
Entry == [t \in Task |->
            CASE t = "I_Task" -> "create_high_sa"
              [] t = "L_Task_SA" -> "wait_start"
              [] t = "H_Task_SA" -> "post_start"
              [] t = "L_Task_SB" -> "post_start"
              [] t = "H_Task_SB" -> "wait_start"
              [] t \in Dummies -> "wait"]

Init ==
    /\ thread = [t \in Task |-> IF t = "I_Task" THEN "ready" ELSE "none"]
    /\ events = {}
    /\ pc = Entry
    /\ i = 0
    /\ window = "closed"
    /\ samples = [s \in {"scenario_a", "scenario_b"} |-> 0]
    /\ hasWaiter \in BOOLEAN
    /\ load \in SUBSET Dummies
    /\ Cardinality(SaLoad) = Cardinality(SbLoad)
    /\ mask = A

-----------------------------------------------------------------------------
\* L_Task_SA

LowSA_WaitStart ==
    /\ Step("L_Task_SA", "wait_start", "post")
    /\ EventWait("L_Task_SA", START)
    /\ Quiet

LowSA_Post ==
    /\ Step("L_Task_SA", "post", "suspend")
    /\ OpenWindow("scenario_a")
    /\ EventPost(A)
    /\ UNCHANGED i

LowSA_Suspend ==
    /\ Step("L_Task_SA", "suspend", "post")
    /\ Suspend("L_Task_SA")
    /\ Quiet

\* H_Task_SA

HighSA_PostStart ==
    /\ Step("H_Task_SA", "post_start", "wait")
    /\ EventPost(START)
    /\ Quiet

HighSA_Wait ==
    /\ Step("H_Task_SA", "wait", "stop")
    /\ EventWait("H_Task_SA", A)
    /\ Quiet

\* Mutant: I_Task is not told that the iteration is complete.
HighSA_Stop_NoYield ==
    /\ Step("H_Task_SA", "stop", "wait")
    /\ RecordSample("scenario_a")
    /\ NoCall
    /\ UNCHANGED i

\* Mutant: the window stays open.
HighSA_Stop_NoClose ==
    /\ Step("H_Task_SA", "stop", "wait")
    /\ samples' = [samples EXCEPT !["scenario_a"] = @ + 1]
    /\ EventPost(YIELD)
    /\ UNCHANGED <<window, i>>

HighSA_Stop ==
    /\ Step("H_Task_SA", "stop", "wait")
    /\ RecordSample("scenario_a")
    /\ EventPost(YIELD)
    /\ UNCHANGED i

\* H_Task_SB

HighSB_WaitStart ==
    /\ Step("H_Task_SB", "wait_start", "suspend")
    /\ EventWait("H_Task_SB", START)
    /\ Quiet

HighSB_Suspend ==
    /\ Step("H_Task_SB", "suspend", IF hasWaiter THEN "post" ELSE "resume")
    /\ Suspend("H_Task_SB")
    /\ Quiet

HighSB_Resume ==
    /\ Step("H_Task_SB", "resume", "post")
    /\ Resume("L_Task_SB")
    /\ Quiet

HighSB_Post ==
    /\ Step("H_Task_SB", "post", "stop")
    /\ OpenWindow("scenario_b")
    /\ EventPost(B)
    /\ UNCHANGED i

\* The sample is recorded and H_Task_SB suspends itself again.
HighSB_Stop ==
    /\ Step("H_Task_SB", "stop", IF hasWaiter THEN "post" ELSE "resume")
    /\ RecordSample("scenario_b")
    /\ Suspend("H_Task_SB")
    /\ UNCHANGED i

\* L_Task_SB

LowSB_PostStart ==
    /\ Step("L_Task_SB", "post_start", "post_yield")
    /\ EventPost(START)
    /\ Quiet

LowSB_PostYield ==
    /\ Step("L_Task_SB", "post_yield", "park")
    /\ EventPost(YIELD)
    /\ Quiet

\* Mutant: the condition on TEST_SB_HAS_WAITER is inverted.
LowSB_Park_Inverted ==
    /\ Step("L_Task_SB", "park", "post_yield")
    /\ IF hasWaiter THEN Suspend("L_Task_SB") ELSE EventWait("L_Task_SB", B)
    /\ Quiet

LowSB_Park ==
    /\ Step("L_Task_SB", "park", "post_yield")
    /\ IF hasWaiter THEN EventWait("L_Task_SB", B) ELSE Suspend("L_Task_SB")
    /\ Quiet

\* dummy_task reads the mask through its argument for every wait.
Dummy_Wait(d) ==
    /\ Step(d, "wait", "wait")
    /\ EventWait(d, mask)
    /\ Quiet

-----------------------------------------------------------------------------
\* I_Task

I_CreateHighSA == I_Create("create_high_sa", "H_Task_SA", "create_low_sa")

I_CreateDummySA(d) ==
    d \in SaLoad /\ I_Create("create_low_sa", d, "create_low_sa")

\* L_Task_SA opens its first window without I_Task.
AfterLowSA == IF MEASUREMENT_COUNT > 1 THEN "wait_sa" ELSE "abort_low_sa"

I_CreateLowSA ==
    /\ \A d \in SaLoad : thread[d] # "none"
    /\ I_Create("create_low_sa", "L_Task_SA", AfterLowSA)

I_WaitSA ==
    /\ Step("I_Task", "wait_sa", "resume_sa")
    /\ EventWait("I_Task", YIELD)
    /\ Quiet

I_ResumeSA == I_Resume("resume_sa", "L_Task_SA", "wait_sa", "abort_low_sa", MEASUREMENT_COUNT - 1)

I_AbortLowSA == I_Abort("abort_low_sa", "L_Task_SA", "abort_high_sa")
I_AbortHighSA == I_Abort("abort_high_sa", "H_Task_SA", "create_high_sb")

I_AbortDummySA(d) ==
    /\ d \in SaLoad
    /\ thread[d] # "dead"
    /\ I_Abort("create_high_sb", d, "create_high_sb")

\* Mutant: the dummies of scenario B still wait for the bit of scenario A.
I_CreateHighSB_OldMask ==
    /\ \A d \in SaLoad : thread[d] = "dead"
    /\ I_Create("create_high_sb", "H_Task_SB", "create_low_sb")
    /\ UNCHANGED mask

\* The bit is changed when nothing reads it: the dummies of scenario A are
\* gone, those of scenario B do not exist.
I_CreateHighSB ==
    /\ \A d \in SaLoad : thread[d] = "dead"
    /\ I_Create("create_high_sb", "H_Task_SB", "create_low_sb")
    /\ mask' = B

I_CreateDummySB(d) ==
    d \in SbLoad /\ I_Create("create_low_sb", d, "create_low_sb")

I_CreateLowSB ==
    /\ \A d \in SbLoad : thread[d] # "none"
    /\ I_Create("create_low_sb", "L_Task_SB", "wait_sb")

I_WaitSB ==
    /\ Step("I_Task", "wait_sb", "resume_sb")
    /\ EventWait("I_Task", YIELD)
    /\ Quiet

\* Bounded by i <= MEASUREMENT_COUNT - 1: once more than the first loop.
I_ResumeSB == I_Resume("resume_sb", "H_Task_SB", "wait_sb", "abort_low_sb", MEASUREMENT_COUNT)

I_AbortLowSB == I_Abort("abort_low_sb", "L_Task_SB", "abort_high_sb")
I_AbortHighSB == I_Abort("abort_high_sb", "H_Task_SB", "signalize")

ThreadStep ==
    \/ LowSA_WaitStart \/ LowSA_Post \/ LowSA_Suspend
    \/ HighSA_PostStart \/ HighSA_Wait \/ HighSA_Stop
    \/ HighSB_WaitStart \/ HighSB_Suspend \/ HighSB_Resume \/ HighSB_Post \/ HighSB_Stop
    \/ LowSB_PostStart \/ LowSB_PostYield \/ LowSB_Park
    \/ \E d \in Dummies : Dummy_Wait(d)

ControlStep ==
    \/ I_CreateHighSA \/ I_CreateLowSA \/ I_WaitSA \/ I_ResumeSA
    \/ I_AbortLowSA \/ I_AbortHighSA
    \/ I_CreateLowSB \/ I_WaitSB \/ I_ResumeSB
    \/ I_AbortLowSB \/ I_AbortHighSB \/ I_Signalize
    \/ \E d \in Dummies : I_CreateDummySA(d) \/ I_AbortDummySA(d) \/ I_CreateDummySB(d)

Next ==
    \/ (ThreadStep \/ ControlStep) /\ UNCHANGED mask
    \/ I_CreateHighSB

\* The CPU never idles while a thread is ready.
Spec == Init /\ [][Next]_vars /\ WF_vars(Next)

-----------------------------------------------------------------------------
\* Between the markers of scenario A nothing runs but H_Task_SA, although the
\* post has also woken all dummies; between those of scenario B nothing but
\* H_Task_SB, whomever it woke.
WindowIsolation ==
    /\ window = "scenario_a" => Runs("H_Task_SA") /\ pc["H_Task_SA"] = "stop"
    /\ window = "scenario_b" => Runs("H_Task_SB") /\ pc["H_Task_SB"] = "stop"

\* No k_thread_resume() comes before the suspend that it answers.
NoLostResume ==
    /\ Runs("I_Task") /\ pc["I_Task"] = "resume_sa" => thread["L_Task_SA"] = "suspended"
    /\ Runs("I_Task") /\ pc["I_Task"] = "resume_sb" => thread["H_Task_SB"] = "suspended"
    /\ Runs("H_Task_SB") /\ pc["H_Task_SB"] = "resume" => thread["L_Task_SB"] = "suspended"

\* Every window of a scenario opens with the same waiters: the thread that is
\* to be woken and all dummies of the load, and nothing else.  No signal of an
\* earlier iteration is pending; only where nobody waits for the bit of scenario
\* B, it stays posted from the first window on.
SameConditions ==
    /\ Runs("L_Task_SA") /\ pc["L_Task_SA"] = "post" =>
          /\ Waiters(A) = {"H_Task_SA"} \cup SaLoad
          /\ Waiters(B) \cup Waiters(START) \cup Waiters(YIELD) = {}
          /\ events = {}
    /\ Runs("H_Task_SB") /\ pc["H_Task_SB"] = "post" =>
          /\ Waiters(B) = (IF hasWaiter THEN {"L_Task_SB"} ELSE {}) \cup SbLoad
          /\ Waiters(A) \cup Waiters(START) \cup Waiters(YIELD) = {}
          /\ events = IF Waiters(B) = {} /\ samples["scenario_b"] > 0 THEN {B} ELSE {}

\* The windows and samples of the program are those of a correct measurement.
M == INSTANCE Measurement
Measures == M!Spec
=============================================================================
