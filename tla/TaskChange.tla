----------------------------- MODULE TaskChange -----------------------------
(***************************************************************************)
(* src/task_switching/task_change/time_task_switch.c                       *)
(*                                                                         *)
(* Scenario A measures the switch from L_Task_SA to H_Task_SA, which share *)
(* one priority with each other and with the dummies, by k_yield();        *)
(* scenario B measures the k_yield() of Task_SB, which is alone at its     *)
(* priority.  What is measured depends on the order of threads of one      *)
(* priority, so the ready queue and the wait queue are sequences here, and *)
(* the kernel calls are modelled on them.                                  *)
(***************************************************************************)
EXTENDS Naturals, SequencesExt

CONSTANTS
    Dummies,            \* the pool of dummy_task threads of scenario A
    prio,               \* the priorities of benchmark_testcases.h
    MEASUREMENT_COUNT   \* iterations of each scenario

VARIABLES
    queue,              \* the ready queue; its head runs
    waiting,            \* the wait queue of START
    suspended,          \* the suspended threads
    pc,                 \* where each thread continues when it runs next
    window, samples,    \* see module Measurement
    load                \* the dummies that this build creates

MainTasks == {"I_Task", "L_Task_SA", "H_Task_SA", "Task_SB"}
Task == MainTasks \cup Dummies

\* The points at which the threads continue.
Labels == {"create_low_sa", "create_high_sa", "post_start", "abort_high_sa", "abort_low_sa",
           "create_sb", "signalize", "wait_start", "yield", "stop", "suspend", "close",
           "suspend_high"}

vars == <<queue, waiting, suspended, pc, window, samples, load>>

ASSUME TaskAssumption == MainTasks \cap Dummies = {}

ASSUME CountAssumption == MEASUREMENT_COUNT \in Nat \ {0}

\* SB > L_SA = H_SA = dummies > I.
ASSUME PrioAssumption ==
    /\ prio \in [Task -> Nat]
    /\ prio["Task_SB"] < prio["L_Task_SA"]
    /\ \A t \in Dummies \cup {"H_Task_SA"} : prio[t] = prio["L_Task_SA"]
    /\ prio["L_Task_SA"] < prio["I_Task"]

-----------------------------------------------------------------------------
\* The kernel's calls

\* A thread goes in front of the first thread in the queue that is less urgent:
\* behind the ready threads of its own priority.
Place(q, t) ==
    CHOOSE k \in 1..(Len(q) + 1) :
        /\ \A m \in 1..(k - 1) : prio[q[m]] <= prio[t]
        /\ k <= Len(q) => prio[q[k]] > prio[t]

Insert(q, t) == InsertAt(q, Place(q, t), t)

\* A thread leaves a queue, if it is in it.
Without(q, t) ==
    IF \E k \in 1..Len(q) : q[k] = t
    THEN RemoveAt(q, CHOOSE k \in 1..Len(q) : q[k] = t)
    ELSE q

Runs(t) == queue # <<>> /\ Head(queue) = t

\* k_yield()
Yield ==
    /\ queue' = Insert(Tail(queue), Head(queue))
    /\ UNCHANGED <<waiting, suspended>>

\* k_thread_suspend(), without effect on a suspended thread.
Suspend(t) ==
    /\ queue' = Without(queue, t)
    /\ suspended' = suspended \cup {t}
    /\ UNCHANGED waiting

\* k_thread_create() with K_NO_WAIT.
Create(t) ==
    /\ queue' = Insert(queue, t)
    /\ UNCHANGED <<waiting, suspended>>

\* k_thread_abort() of a thread, wherever it is.
Abort(t) ==
    /\ queue' = Without(queue, t)
    /\ waiting' = Without(waiting, t)
    /\ suspended' = suspended \ {t}

\* k_event_wait_safe() before the bit is posted.
WaitStart ==
    /\ queue' = Tail(queue)
    /\ waiting' = Append(waiting, Head(queue))
    /\ UNCHANGED suspended

NoCall == UNCHANGED <<queue, waiting, suspended>>

-----------------------------------------------------------------------------
\* main() has initialised the two series, created I_Task and returned.
Init ==
    /\ queue = <<"I_Task">>
    /\ waiting = <<>>
    /\ suspended = {}
    /\ pc = [t \in Task |->
               CASE t = "I_Task" -> "create_low_sa"
                 [] t = "Task_SB" -> "yield"
                 [] OTHER -> "wait_start"]
    /\ window = "closed"
    /\ samples = [s \in {"scenario_a", "scenario_b"} |-> 0]
    /\ load \in SUBSET Dummies

\* Thread t runs from label l to label m.
Step(t, l, m) ==
    /\ Runs(t)
    /\ pc[t] = l
    /\ pc' = [pc EXCEPT ![t] = m]
    /\ UNCHANGED load

NoSample == UNCHANGED <<window, samples>>

-----------------------------------------------------------------------------
\* L_Task_SA

LowSA_WaitStart ==
    /\ Step("L_Task_SA", "wait_start", "yield")
    /\ WaitStart
    /\ NoSample

LowSA_Yield ==
    /\ Step("L_Task_SA", "yield", "yield")
    /\ window' = "scenario_a"
    /\ Yield
    /\ UNCHANGED samples

\* H_Task_SA

HighSA_WaitStart ==
    /\ Step("H_Task_SA", "wait_start", "yield")
    /\ WaitStart
    /\ NoSample

HighSA_Yield ==
    /\ Step("H_Task_SA", "yield", "stop")
    /\ Yield
    /\ NoSample

\* Without dummies H_Task_SA closes the window and ends the scenario; with
\* dummies both are left to the first of them.
HighSA_Stop ==
    /\ samples' = [samples EXCEPT !["scenario_a"] = @ + 1]
    /\ window' = IF load = {} THEN "closed" ELSE window
    /\ \/ /\ load = {} /\ samples'["scenario_a"] >= MEASUREMENT_COUNT
          /\ Step("H_Task_SA", "stop", "suspend")
          /\ Suspend("L_Task_SA")
       \/ /\ load # {} \/ samples'["scenario_a"] < MEASUREMENT_COUNT
          /\ Step("H_Task_SA", "stop", "stop")
          /\ Yield

HighSA_Suspend ==
    /\ Step("H_Task_SA", "suspend", "yield")
    /\ Suspend("H_Task_SA")
    /\ NoSample

\* dummy_task

Dummy_WaitStart(d) ==
    /\ Step(d, "wait_start", "close")
    /\ WaitStart
    /\ NoSample

\* Mutant: the test of iteration_count is missing.
Dummy_Close_NoTest(d) ==
    /\ window' = IF window = "scenario_a" THEN "closed" ELSE window
    /\ Step(d, "close", "close")
    /\ Yield
    /\ UNCHANGED samples

Dummy_Close(d) ==
    /\ window' = IF window = "scenario_a" THEN "closed" ELSE window
    /\ \/ /\ samples["scenario_a"] >= MEASUREMENT_COUNT
          /\ Step(d, "close", "suspend_high")
          /\ Suspend("L_Task_SA")
       \/ /\ samples["scenario_a"] < MEASUREMENT_COUNT
          /\ Step(d, "close", "close")
          /\ Yield
    /\ UNCHANGED samples

Dummy_SuspendHigh(d) ==
    /\ Step(d, "suspend_high", "suspend")
    /\ Suspend("H_Task_SA")
    /\ NoSample

Dummy_Suspend(d) ==
    /\ Step(d, "suspend", "yield")
    /\ Suspend(d)
    /\ NoSample

\* Task_SB

SB_Yield ==
    /\ Step("Task_SB", "yield", "stop")
    /\ window' = "scenario_b"
    /\ Yield
    /\ UNCHANGED samples

\* Mutant: the test of iteration_count is off by one.
SB_Stop_OneMore ==
    /\ Step("Task_SB", "stop", "yield")
    /\ samples' = [samples EXCEPT !["scenario_b"] = @ + 1]
    /\ window' = "closed"
    /\ IF samples'["scenario_b"] > MEASUREMENT_COUNT THEN Suspend("Task_SB") ELSE NoCall

SB_Stop ==
    /\ Step("Task_SB", "stop", "yield")
    /\ samples' = [samples EXCEPT !["scenario_b"] = @ + 1]
    /\ window' = "closed"
    /\ IF samples'["scenario_b"] >= MEASUREMENT_COUNT THEN Suspend("Task_SB") ELSE NoCall

-----------------------------------------------------------------------------
\* I_Task

I_Step(l, m) == Step("I_Task", l, m) /\ NoSample

I_CreateLowSA == I_Step("create_low_sa", "create_high_sa") /\ Create("L_Task_SA")
I_CreateHighSA == I_Step("create_high_sa", "post_start") /\ Create("H_Task_SA")

\* The loop over dummy_count, in any order.
I_CreateDummySA(d) ==
    /\ d \in load /\ pc[d] = "wait_start"
    /\ I_Step("post_start", "post_start")
    /\ Create(d)

\* Mutant: the wait queue is served from its tail.
I_PostStart_Reverse ==
    /\ \A d \in load : pc[d] # "wait_start"
    /\ I_Step("post_start", "abort_high_sa")
    /\ queue' = [n \in 1..Len(waiting) |-> waiting[Len(waiting) + 1 - n]] \o queue
    /\ waiting' = <<>>
    /\ UNCHANGED suspended

\* k_event_post() of START wakes the threads in the order of the wait queue;
\* they share one priority, and I_Task is behind them.  It returns to I_Task
\* when they are all suspended.
I_PostStart ==
    /\ \A d \in load : pc[d] # "wait_start"
    /\ I_Step("post_start", "abort_high_sa")
    /\ queue' = waiting \o queue
    /\ waiting' = <<>>
    /\ UNCHANGED suspended

\* Mutant: the call is missing.
I_AbortHighSA_Skipped == I_Step("abort_high_sa", "abort_low_sa") /\ NoCall

I_AbortHighSA == I_Step("abort_high_sa", "abort_low_sa") /\ Abort("H_Task_SA")
I_AbortLowSA == I_Step("abort_low_sa", "create_sb") /\ Abort("L_Task_SA")

I_AbortDummySA(d) ==
    /\ d \in load \cap suspended
    /\ I_Step("create_sb", "create_sb")
    /\ Abort(d)

I_CreateSB ==
    /\ load \cap suspended = {}
    /\ I_Step("create_sb", "signalize")
    /\ Create("Task_SB")

\* BMTH_signalize_mseries_stop(), for ever.
I_Signalize == I_Step("signalize", "signalize") /\ NoCall

Next ==
    \/ LowSA_WaitStart \/ LowSA_Yield
    \/ HighSA_WaitStart \/ HighSA_Yield \/ HighSA_Stop \/ HighSA_Suspend
    \/ SB_Yield \/ SB_Stop
    \/ I_CreateLowSA \/ I_CreateHighSA \/ I_PostStart \/ I_AbortHighSA \/ I_AbortLowSA
    \/ I_CreateSB \/ I_Signalize
    \/ \E d \in Dummies :
          \/ Dummy_WaitStart(d) \/ Dummy_Close(d) \/ Dummy_SuspendHigh(d) \/ Dummy_Suspend(d)
          \/ I_CreateDummySA(d) \/ I_AbortDummySA(d)

\* The CPU never idles while a thread is ready.
Spec == Init /\ [][Next]_vars /\ WF_vars(Next)

-----------------------------------------------------------------------------
Members(q) == {q[n] : n \in 1..Len(q)}

\* Every variable has its type; the ready queue is sorted by priority, and no
\* thread is in two queues, or twice in one, or suspended and in a queue.
TypeOK ==
    /\ queue \in Seq(Task) /\ waiting \in Seq(Task)
    /\ \A m, n \in 1..Len(queue) : m < n => prio[queue[m]] <= prio[queue[n]] /\ queue[m] # queue[n]
    /\ \A m, n \in 1..Len(waiting) : m < n => waiting[m] # waiting[n]
    /\ Members(queue) \cap Members(waiting) = {}
    /\ suspended \cap (Members(queue) \cup Members(waiting)) = {}
    /\ pc \in [Task -> Labels]
    /\ window \in {"scenario_a", "scenario_b", "closed"}
    /\ samples \in [{"scenario_a", "scenario_b"} -> 0..MEASUREMENT_COUNT]
    /\ load \subseteq Dummies

\* "H_Task_SA stands directly behind L_Task_SA": whenever L_Task_SA is about
\* to yield, the next in the ready queue is H_Task_SA and all dummies of the
\* load are behind it.
DirectlyBehind ==
    Runs("L_Task_SA") /\ pc["L_Task_SA"] = "yield" =>
        /\ Members(queue) = {"L_Task_SA", "H_Task_SA", "I_Task"} \cup load
        /\ queue[2] = "H_Task_SA"

\* "No dummy task runs inside either window": H_Task_SA takes the stop marker
\* in an open window, and L_Task_SA, which has opened it, is the thread that
\* has yielded last.  In a window of scenario B only Task_SB runs.
WindowIsolation ==
    /\ Runs("H_Task_SA") /\ pc["H_Task_SA"] = "stop" =>
          window = "scenario_a" /\ queue[Len(queue) - 1] = "L_Task_SA"
    /\ window = "scenario_b" => Runs("Task_SB") /\ pc["Task_SB"] = "stop"

\* "I_Task removes L_Task_SA, H_Task_SA and the dummy tasks only after they
\* have suspended themselves at MEASUREMENT_COUNT", and signals the end when
\* Task_SB has.
ControlWaits ==
    /\ Runs("I_Task") /\ pc["I_Task"] = "abort_high_sa" =>
          /\ samples["scenario_a"] = MEASUREMENT_COUNT
          /\ suspended = {"L_Task_SA", "H_Task_SA"} \cup load
    /\ Runs("I_Task") /\ pc["I_Task"] = "signalize" =>
          samples["scenario_b"] = MEASUREMENT_COUNT /\ suspended = {"Task_SB"}

\* The test comes to its end with MEASUREMENT_COUNT iterations of both.
Finishes ==
    <>[](/\ pc["I_Task"] = "signalize"
         /\ \A s \in {"scenario_a", "scenario_b"} : samples[s] = MEASUREMENT_COUNT)
=============================================================================
