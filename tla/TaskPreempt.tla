---------------------------- MODULE TaskPreempt ----------------------------
(***************************************************************************)
(* src/task_switching/task_preempt/time_task_switch.c                      *)
(*                                                                         *)
(* Scenario A measures the switch from L_Task_SA to H_Task_SA that a       *)
(* k_thread_resume() causes; scenario B measures the resume of the same    *)
(* H_Task_SA by the more urgent Task_SB, which does not switch.  I_Task    *)
(* paces nothing: it goes on when the scenario's threads have suspended    *)
(* each other and themselves.                                              *)
(***************************************************************************)
EXTENDS Naturals

CONSTANTS
    Dummies,                \* the pool of dummy_task_b threads of scenario B
    prio,                   \* the priorities of benchmark_testcases.h
    MEASUREMENT_COUNT       \* iterations of each scenario

VARIABLES
    thread, events,         \* the kernel's state, see module Kernel
    pc, window, samples,    \* see module TestProgram
    load                    \* the dummies that this build creates

MainTasks == {"I_Task", "L_Task_SA", "H_Task_SA", "Task_SB"}
Task == MainTasks \cup Dummies

START == "START_EVENT"

build == <<load>>

INSTANCE TestProgram WITH
    Sem <- {}, count <- <<>>, K_SEM_MAX_LIMIT <- 0, Event <- {START}, i <- <<>>

vars == <<thread, events, pc, window, samples, load>>

ASSUME TaskAssumption == MainTasks \cap Dummies = {}

ASSUME CountAssumption == MEASUREMENT_COUNT \in Nat \ {0}

\* SB > dummies > H_SA > L_SA > I.
ASSUME PrioAssumption ==
    /\ prio \in [Task -> Nat]
    /\ \A t, u \in Task : prio[t] = prio[u] => t = u
    /\ \A d \in Dummies : prio["Task_SB"] < prio[d] /\ prio[d] < prio["H_Task_SA"]
    /\ prio["Task_SB"] < prio["H_Task_SA"]
    /\ prio["H_Task_SA"] < prio["L_Task_SA"]
    /\ prio["L_Task_SA"] < prio["I_Task"]

-----------------------------------------------------------------------------
\* main() has initialised the two series, created I_Task and returned.
Init ==
    /\ thread = [t \in Task |-> IF t = "I_Task" THEN "ready" ELSE "none"]
    /\ events = {}
    /\ pc = [t \in Task |->
               CASE t = "I_Task" -> "create_high_sa"
                 [] t \in {"L_Task_SA", "H_Task_SA"} -> "wait_start"
                 [] t = "Task_SB" -> "resume_dummies"
                 [] t \in Dummies -> "suspend"]
    /\ window = "closed"
    /\ samples = [s \in {"scenario_a", "scenario_b"} |-> 0]
    /\ load \in SUBSET Dummies

-----------------------------------------------------------------------------
\* L_Task_SA

LowSA_WaitStart ==
    /\ Step("L_Task_SA", "wait_start", "suspend_high")
    /\ EventWait("L_Task_SA", START)
    /\ Quiet

LowSA_SuspendHigh ==
    /\ Step("L_Task_SA", "suspend_high", "resume_high")
    /\ Suspend("H_Task_SA")
    /\ Quiet

LowSA_ResumeHigh ==
    /\ Step("L_Task_SA", "resume_high", "suspend_high")
    /\ OpenWindow("scenario_a")
    /\ Resume("H_Task_SA")

\* H_Task_SA

HighSA_WaitStart ==
    /\ Step("H_Task_SA", "wait_start", "suspend")
    /\ EventWait("H_Task_SA", START)
    /\ Quiet

HighSA_Suspend ==
    /\ Step("H_Task_SA", "suspend", "stop")
    /\ Suspend("H_Task_SA")
    /\ Quiet

\* The iteration is recorded; H_Task_SA suspends itself for the next one, or
\* both threads when the series is complete.
HighSA_Stop ==
    /\ RecordSample("scenario_a")
    /\ \/ /\ samples'["scenario_a"] < MEASUREMENT_COUNT
          /\ Step("H_Task_SA", "stop", "stop")
          /\ Suspend("H_Task_SA")
       \/ /\ samples'["scenario_a"] >= MEASUREMENT_COUNT
          /\ Step("H_Task_SA", "stop", "end")
          /\ Suspend("L_Task_SA")

HighSA_End ==
    /\ Step("H_Task_SA", "end", "suspend")
    /\ Suspend("H_Task_SA")
    /\ Quiet

\* dummy_task_b

Dummy_Suspend(d) ==
    /\ Step(d, "suspend", "suspend")
    /\ Suspend(d)
    /\ Quiet

\* Task_SB.  Its loops over dummy_count resume and suspend one thread a step,
\* in any order; the calls that change nothing are left out.

SB_ResumeDummy(d) ==
    /\ d \in load /\ thread[d] = "suspended"
    /\ Step("Task_SB", "resume_dummies", "resume_dummies")
    /\ Resume(d)
    /\ Quiet

\* Mutant: H_Task_SA is still ready from the iteration before.
SB_SuspendHigh_Skipped ==
    /\ \A d \in load : thread[d] # "suspended"
    /\ Step("Task_SB", "resume_dummies", "resume_high")
    /\ NoCall /\ Quiet

\* Mutant: the window opens before every dummy is resumed.
SB_SuspendHigh_Early ==
    /\ Step("Task_SB", "resume_dummies", "resume_high")
    /\ Suspend("H_Task_SA")
    /\ Quiet

SB_SuspendHigh ==
    /\ \A d \in load : thread[d] # "suspended"
    /\ Step("Task_SB", "resume_dummies", "resume_high")
    /\ Suspend("H_Task_SA")
    /\ Quiet

SB_ResumeHigh ==
    /\ Step("Task_SB", "resume_high", "stop")
    /\ OpenWindow("scenario_b")
    /\ Resume("H_Task_SA")

\* Mutant: Task_SB always suspends itself, and nobody resumes it.
SB_Stop_Always ==
    /\ Step("Task_SB", "stop", "suspend_dummies")
    /\ RecordSample("scenario_b")
    /\ Suspend("Task_SB")

SB_Stop ==
    /\ Step("Task_SB", "stop", "suspend_dummies")
    /\ RecordSample("scenario_b")
    /\ IF samples'["scenario_b"] >= MEASUREMENT_COUNT THEN Suspend("Task_SB") ELSE NoCall

SB_SuspendDummy(d) ==
    /\ d \in load /\ thread[d] = "ready"
    /\ Step("Task_SB", "suspend_dummies", "suspend_dummies")
    /\ Suspend(d)
    /\ Quiet

SB_Loop ==
    /\ \A d \in load : thread[d] # "ready"
    /\ Step("Task_SB", "suspend_dummies", "resume_dummies")
    /\ NoCall /\ Quiet

-----------------------------------------------------------------------------
\* I_Task

I_CreateHighSA == I_Create("create_high_sa", "H_Task_SA", "create_low_sa")
I_CreateLowSA == I_Create("create_low_sa", "L_Task_SA", "post_start")

\* The post returns when scenario A is over.
I_PostStart ==
    /\ Step("I_Task", "post_start", "abort_low_sa")
    /\ EventPost(START)
    /\ Quiet

I_AbortLowSA == I_Abort("abort_low_sa", "L_Task_SA", "create_sb")

I_CreateDummySB(d) == d \in load /\ I_Create("create_sb", d, "create_sb")

\* The k_thread_create() returns when scenario B is over.
I_CreateSB ==
    /\ \A d \in load : thread[d] # "none"
    /\ I_Create("create_sb", "Task_SB", "signalize")

Next ==
    \/ LowSA_WaitStart \/ LowSA_SuspendHigh \/ LowSA_ResumeHigh
    \/ HighSA_WaitStart \/ HighSA_Suspend \/ HighSA_Stop \/ HighSA_End
    \/ SB_SuspendHigh \/ SB_ResumeHigh \/ SB_Stop \/ SB_Loop
    \/ I_CreateHighSA \/ I_CreateLowSA \/ I_PostStart \/ I_AbortLowSA \/ I_CreateSB
    \/ I_Signalize
    \/ \E d \in Dummies :
          Dummy_Suspend(d) \/ SB_ResumeDummy(d) \/ SB_SuspendDummy(d) \/ I_CreateDummySB(d)

\* The CPU never idles while a thread is ready.
Spec == Init /\ [][Next]_vars /\ WF_vars(Next)

-----------------------------------------------------------------------------
\* In an open window of scenario A the resume has switched to H_Task_SA; in
\* one of scenario B Task_SB has kept the CPU from H_Task_SA and from the
\* dummies, which are all ready.
WindowIsolation ==
    /\ window = "scenario_a" => Runs("H_Task_SA") /\ pc["H_Task_SA"] = "stop"
    /\ window = "scenario_b" =>
          /\ Runs("Task_SB") /\ pc["Task_SB"] = "stop"
          /\ \A d \in load \cup {"H_Task_SA"} : Ready(d)

\* The measured resume always finds H_Task_SA suspended, for otherwise it
\* would do nothing.  Besides the caller and I_Task nothing is ready when it is
\* called in scenario A, and exactly the dummies of the load are in scenario B.
SameConditions ==
    /\ Runs("L_Task_SA") /\ pc["L_Task_SA"] = "resume_high" =>
          /\ thread["H_Task_SA"] = "suspended" /\ pc["H_Task_SA"] = "stop"
          /\ \A t \in Task \ {"I_Task", "L_Task_SA"} : ~Ready(t)
    /\ Runs("Task_SB") /\ pc["Task_SB"] = "resume_high" =>
          /\ thread["H_Task_SA"] = "suspended"
          /\ \A t \in Task \ {"I_Task", "Task_SB"} : Ready(t) <=> t \in load

\* I_Task, which waits for nothing, runs only between the scenarios: when it
\* aborts L_Task_SA the series of scenario A is complete, and when it signals
\* the end that of scenario B is, with every other thread at rest.
ControlWaits ==
    /\ Runs("I_Task") /\ pc["I_Task"] = "abort_low_sa" =>
          /\ samples["scenario_a"] = MEASUREMENT_COUNT
          /\ thread["L_Task_SA"] = "suspended" /\ thread["H_Task_SA"] = "suspended"
    /\ Runs("I_Task") /\ pc["I_Task"] = "signalize" =>
          /\ samples["scenario_b"] = MEASUREMENT_COUNT
          /\ \A t \in load \cup {"H_Task_SA", "Task_SB"} : thread[t] = "suspended"

\* The windows and samples of the program are those of a correct measurement.
M == INSTANCE Measurement
Measures == M!Spec
=============================================================================
