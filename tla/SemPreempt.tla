----------------------------- MODULE SemPreempt -----------------------------
(***************************************************************************)
(* src/task_switching/sem_preempt/time_task_switch_sem.c                   *)
(*                                                                         *)
(* Scenario A measures the switch from L_Task_SA to H_Task_SA that a       *)
(* k_sem_give() causes; scenario B measures a k_sem_give() that causes     *)
(* none.  I_Task, the least urgent thread, paces both: it waits for the    *)
(* YIELD bit and resumes the thread that opens the next window.            *)
(***************************************************************************)
EXTENDS Naturals, FiniteSets

CONSTANTS
    SaDummies, SbDummies,   \* the pools of dummy_task threads
    prio,                   \* the priorities of benchmark_testcases.h
    MEASUREMENT_COUNT,      \* iterations of each scenario
    K_SEM_MAX_LIMIT         \* the limit of test_sem

VARIABLES
    thread, count, events,  \* the kernel's state, see module Kernel
    pc, i, window, samples, \* see module TestProgram
    hasWaiter, load         \* the build: whether L_Task_SB waits, which dummies exist

MainTasks == {"I_Task", "L_Task_SA", "H_Task_SA", "L_Task_SB", "H_Task_SB"}
Dummies == SaDummies \cup SbDummies
Task == MainTasks \cup Dummies

START == "START_EVENT"
YIELD == "SIGNALIZE_YIELD_EVENT"
test_sem == "test_sem"

build == <<hasWaiter, load>>

INSTANCE TestProgram WITH Sem <- {test_sem}, Event <- {START, YIELD}

SaLoad == load \cap SaDummies
SbLoad == load \cap SbDummies

vars == <<thread, count, events, pc, i, window, samples, hasWaiter, load>>

\* The pools are disjoint from each other and from the named threads.
ASSUME TaskAssumption ==
    /\ SaDummies \cap SbDummies = {}
    /\ MainTasks \cap Dummies = {}

ASSUME CountAssumption ==
    /\ MEASUREMENT_COUNT \in Nat \ {0}
    /\ K_SEM_MAX_LIMIT \in Nat \ {0}
    /\ MEASUREMENT_COUNT <= K_SEM_MAX_LIMIT

\* The order that the comments of benchmark_testcases.h and the README ask
\* of the priorities: H_SA > sa dummies > L_SA > I and
\* H_SB > L_SB > sb dummies > I.
ASSUME PrioAssumption ==
    /\ prio \in [Task -> Nat]
    /\ \A t, u \in Task : prio[t] = prio[u] => t = u
    /\ \A t \in Task \ {"I_Task"} : prio[t] < prio["I_Task"]
    /\ prio["H_Task_SA"] < prio["L_Task_SA"]
    /\ \A d \in SaDummies : prio["H_Task_SA"] < prio[d] /\ prio[d] < prio["L_Task_SA"]
    /\ prio["H_Task_SB"] < prio["L_Task_SB"]
    /\ \A d \in SbDummies : prio["L_Task_SB"] < prio[d]

-----------------------------------------------------------------------------
\* main() has initialised the two series, created I_Task and returned.
Entry == [t \in Task |->
            CASE t = "I_Task" -> "create_high_sa"
              [] t = "L_Task_SA" -> "wait_start"
              [] t = "H_Task_SA" -> "post_start"
              [] t = "L_Task_SB" -> "post_start"
              [] t = "H_Task_SB" -> "wait_start"
              [] t \in Dummies -> "take"]

Init ==
    /\ thread = [t \in Task |-> IF t = "I_Task" THEN "ready" ELSE "none"]
    /\ count = [s \in {test_sem} |-> 0]
    /\ events = {}
    /\ pc = Entry
    /\ i = 0
    /\ window = "closed"
    /\ samples = [s \in {"scenario_a", "scenario_b"} |-> 0]
    /\ hasWaiter \in BOOLEAN
    /\ load \in SUBSET Dummies
    /\ Cardinality(SaLoad) = Cardinality(SbLoad)

-----------------------------------------------------------------------------
\* L_Task_SA

LowSA_WaitStart ==
    /\ Step("L_Task_SA", "wait_start", "give")
    /\ EventWait("L_Task_SA", START)
    /\ Quiet

LowSA_Give ==
    /\ Step("L_Task_SA", "give", "suspend")
    /\ OpenWindow("scenario_a")
    /\ SemGive(test_sem)
    /\ UNCHANGED i

LowSA_Suspend ==
    /\ Step("L_Task_SA", "suspend", "give")
    /\ Suspend("L_Task_SA")
    /\ Quiet

\* H_Task_SA

HighSA_PostStart ==
    /\ Step("H_Task_SA", "post_start", "take")
    /\ EventPost(START)
    /\ Quiet

HighSA_Take ==
    /\ Step("H_Task_SA", "take", "stop")
    /\ SemTake("H_Task_SA", test_sem)
    /\ Quiet

\* Mutant: the window stays open.
HighSA_Stop_NoClose ==
    /\ Step("H_Task_SA", "stop", "take")
    /\ samples' = [samples EXCEPT !["scenario_a"] = @ + 1]
    /\ EventPost(YIELD)
    /\ UNCHANGED <<window, i>>

HighSA_Stop ==
    /\ Step("H_Task_SA", "stop", "take")
    /\ RecordSample("scenario_a")
    /\ EventPost(YIELD)
    /\ UNCHANGED i

\* H_Task_SB

HighSB_WaitStart ==
    /\ Step("H_Task_SB", "wait_start", "suspend")
    /\ EventWait("H_Task_SB", START)
    /\ Quiet

HighSB_Suspend ==
    /\ Step("H_Task_SB", "suspend", "give")
    /\ Suspend("H_Task_SB")
    /\ Quiet

HighSB_Give ==
    /\ Step("H_Task_SB", "give", "stop")
    /\ OpenWindow("scenario_b")
    /\ SemGive(test_sem)
    /\ UNCHANGED i

\* Without a waiter L_Task_SB has suspended itself and is resumed here.
HighSB_Stop ==
    /\ Step("H_Task_SB", "stop", "suspend")
    /\ RecordSample("scenario_b")
    /\ IF hasWaiter THEN NoCall ELSE Resume("L_Task_SB")
    /\ UNCHANGED i

\* L_Task_SB

LowSB_PostStart ==
    /\ Step("L_Task_SB", "post_start", "post_yield")
    /\ EventPost(START)
    /\ Quiet

LowSB_PostYield ==
    /\ Step("L_Task_SB", "post_yield", "park")
    /\ EventPost(YIELD)
    /\ Quiet

\* Mutant: the condition on TEST_SB_HAS_WAITER is inverted.
LowSB_Park_Inverted ==
    /\ Step("L_Task_SB", "park", "post_yield")
    /\ IF hasWaiter THEN Suspend("L_Task_SB") ELSE SemTake("L_Task_SB", test_sem)
    /\ Quiet

LowSB_Park ==
    /\ Step("L_Task_SB", "park", "post_yield")
    /\ IF hasWaiter THEN SemTake("L_Task_SB", test_sem) ELSE Suspend("L_Task_SB")
    /\ Quiet

\* dummy_task

Dummy_Take(d) ==
    /\ Step(d, "take", "take")
    /\ SemTake(d, test_sem)
    /\ Quiet

-----------------------------------------------------------------------------
\* I_Task

I_CreateHighSA == I_Create("create_high_sa", "H_Task_SA", "create_low_sa")

I_CreateDummySA(d) ==
    d \in SaLoad /\ I_Create("create_low_sa", d, "create_low_sa")

\* L_Task_SA opens its first window without I_Task, so the loop that follows
\* runs MEASUREMENT_COUNT - 1 times.
AfterLowSA == IF MEASUREMENT_COUNT > 1 THEN "wait_sa" ELSE "abort_low_sa"

\* Mutant: L_Task_SA is created before the load is complete.
I_CreateLowSA_Early == I_Create("create_low_sa", "L_Task_SA", AfterLowSA)

I_CreateLowSA ==
    /\ \A d \in SaLoad : thread[d] # "none"
    /\ I_Create("create_low_sa", "L_Task_SA", AfterLowSA)

I_WaitSA ==
    /\ Step("I_Task", "wait_sa", "resume_sa")
    /\ EventWait("I_Task", YIELD)
    /\ Quiet

I_ResumeSA == I_Resume("resume_sa", "L_Task_SA", "wait_sa", "abort_low_sa", MEASUREMENT_COUNT - 1)

I_AbortLowSA == I_Abort("abort_low_sa", "L_Task_SA", "abort_high_sa")
I_AbortHighSA == I_Abort("abort_high_sa", "H_Task_SA", "reset")

I_AbortDummySA(d) ==
    /\ d \in SaLoad
    /\ thread[d] # "dead"
    /\ I_Abort("reset", d, "reset")

\* Mutant: the dummies of scenario A are not aborted.
I_Reset_DummiesAlive ==
    /\ Step("I_Task", "reset", "create_high_sb")
    /\ SemReset(test_sem)
    /\ Quiet

I_Reset ==
    /\ \A d \in SaLoad : thread[d] = "dead"
    /\ Step("I_Task", "reset", "create_high_sb")
    /\ SemReset(test_sem)
    /\ Quiet

I_CreateHighSB == I_Create("create_high_sb", "H_Task_SB", "create_low_sb")
I_CreateLowSB == I_Create("create_low_sb", "L_Task_SB", "wait_sb")

\* The dummies of scenario B are created last, before the loop.
I_CreateDummySB(d) ==
    d \in SbLoad /\ I_Create("wait_sb", d, "wait_sb")

I_WaitSB ==
    /\ \A d \in SbLoad : thread[d] # "none"
    /\ Step("I_Task", "wait_sb", "resume_sb")
    /\ EventWait("I_Task", YIELD)
    /\ Quiet

\* Mutant: the bound i <= MEASUREMENT_COUNT.
I_ResumeSB_OneMore ==
    I_Resume("resume_sb", "H_Task_SB", "wait_sb", "abort_low_sb", MEASUREMENT_COUNT + 1)

\* Bounded by i <= MEASUREMENT_COUNT - 1: once more than the first loop.
I_ResumeSB == I_Resume("resume_sb", "H_Task_SB", "wait_sb", "abort_low_sb", MEASUREMENT_COUNT)

I_AbortLowSB == I_Abort("abort_low_sb", "L_Task_SB", "abort_high_sb")
I_AbortHighSB == I_Abort("abort_high_sb", "H_Task_SB", "signalize")

ThreadStep ==
    \/ LowSA_WaitStart \/ LowSA_Give \/ LowSA_Suspend
    \/ HighSA_PostStart \/ HighSA_Take \/ HighSA_Stop
    \/ HighSB_WaitStart \/ HighSB_Suspend \/ HighSB_Give \/ HighSB_Stop
    \/ LowSB_PostStart \/ LowSB_PostYield \/ LowSB_Park
    \/ \E d \in Dummies : Dummy_Take(d)

ControlStep ==
    \/ I_CreateHighSA \/ I_CreateLowSA \/ I_WaitSA \/ I_ResumeSA
    \/ I_AbortLowSA \/ I_AbortHighSA \/ I_Reset
    \/ I_CreateHighSB \/ I_CreateLowSB \/ I_WaitSB \/ I_ResumeSB
    \/ I_AbortLowSB \/ I_AbortHighSB \/ I_Signalize
    \/ \E d \in Dummies : I_CreateDummySA(d) \/ I_AbortDummySA(d) \/ I_CreateDummySB(d)

Next == ThreadStep \/ ControlStep

\* The CPU never idles while a thread is ready.
Spec == Init /\ [][Next]_vars /\ WF_vars(Next)

-----------------------------------------------------------------------------
Labels == {"create_high_sa", "create_low_sa", "wait_sa", "resume_sa", "abort_low_sa",
           "abort_high_sa", "reset", "create_high_sb", "create_low_sb", "wait_sb",
           "resume_sb", "abort_low_sb", "abort_high_sb", "signalize",
           "wait_start", "give", "suspend", "post_start", "take", "stop",
           "post_yield", "park"}

\* Every variable has its type.
TypeOK ==
    /\ KernelTypeOK
    /\ pc \in [Task -> Labels]
    /\ i \in 0..(MEASUREMENT_COUNT - 1)
    /\ window \in {"scenario_a", "scenario_b", "closed"}
    /\ samples \in [{"scenario_a", "scenario_b"} -> Nat]
    /\ hasWaiter \in BOOLEAN
    /\ load \subseteq Dummies

\* Between the markers nothing runs but what the scenario measures.  The give
\* of scenario A has found H_Task_SA at the head of the wait queue and has
\* switched to it, leaving no count behind; the give of scenario B has
\* switched to nobody, whatever it woke.
WindowIsolation ==
    /\ window = "scenario_a" =>
          Runs("H_Task_SA") /\ pc["H_Task_SA"] = "stop" /\ count[test_sem] = 0
    /\ window = "scenario_b" =>
          Runs("H_Task_SB") /\ pc["H_Task_SB"] = "stop"

\* k_thread_resume() is lost on a thread that has not suspended itself yet,
\* and the test would hang: whenever a resume is about to be called its
\* target is suspended and stands before its window.
NoLostResume ==
    /\ Runs("I_Task") /\ pc["I_Task"] = "resume_sa" =>
          thread["L_Task_SA"] = "suspended" /\ pc["L_Task_SA"] = "give"
    /\ Runs("I_Task") /\ pc["I_Task"] = "resume_sb" =>
          thread["H_Task_SB"] = "suspended" /\ pc["H_Task_SB"] = "give"
    /\ Runs("H_Task_SB") /\ pc["H_Task_SB"] = "stop" /\ ~hasWaiter =>
          thread["L_Task_SB"] = "suspended" /\ pc["L_Task_SB"] = "post_yield"

\* Every give is called in the same situation as in the other windows of its
\* scenario: the wait queue of test_sem holds the waiter and all dummies of the
\* load and nobody else, no event is posted or waited for, and the count is 0.
\* Only in scenario B without waiter and load does the count differ from window
\* to window.  It is then the number of samples taken, below the limit, so that
\* the give does the same there too: it increments the count.
SameConditions ==
    LET noEvent == events = {} /\ Waiters(START) \cup Waiters(YIELD) = {}
    IN  /\ Runs("L_Task_SA") /\ pc["L_Task_SA"] = "give" =>
              /\ Waiters(test_sem) = {"H_Task_SA"} \cup SaLoad
              /\ count[test_sem] = 0
              /\ noEvent
        /\ Runs("H_Task_SB") /\ pc["H_Task_SB"] = "give" =>
              /\ Waiters(test_sem) = (IF hasWaiter THEN {"L_Task_SB"} ELSE {}) \cup SbLoad
              /\ count[test_sem] = IF Waiters(test_sem) = {} THEN samples["scenario_b"] ELSE 0
              /\ count[test_sem] < K_SEM_MAX_LIMIT
              /\ noEvent

\* test_sem is handed to scenario B with an empty wait queue and a zero
\* count, and only the build without waiter and without load accumulates a
\* count: one for each iteration.
SemBalance ==
    /\ pc["I_Task"] = "create_high_sb" => Waiters(test_sem) = {}
    /\ Runs("I_Task") =>
          count[test_sem] = IF hasWaiter \/ SbLoad # {} THEN 0 ELSE samples["scenario_b"]

\* The windows and samples of the program are those of a correct measurement.
M == INSTANCE Measurement
Measures == M!Spec
=============================================================================
