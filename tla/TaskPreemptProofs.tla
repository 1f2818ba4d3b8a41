--------------------------- MODULE TaskPreemptProofs ---------------------------
(***************************************************************************)
(* Theorems about TaskPreempt, for every number of iterations, every load  *)
(* and every assignment of priorities with the order that the sources ask  *)
(* for.                                                                    *)
(*                                                                         *)
(* No event tells I_Task that a scenario is over.  The invariant shows     *)
(* that the threads of a scenario keep the CPU from it: from the post of   *)
(* START on, and from the creation of Task_SB on, one of them is ready     *)
(* until the last sample is recorded and every one has been suspended.     *)
(***************************************************************************)
EXTENDS TaskPreempt, TLAPS

Series == {"scenario_a", "scenario_b"}

Labels == {"create_high_sa", "create_low_sa", "post_start", "abort_low_sa", "create_sb",
           "signalize", "wait_start", "suspend_high", "resume_high", "suspend", "stop", "end",
           "resume_dummies", "suspend_dummies"}

InType ==
    /\ thread \in [Task -> {"none", "ready", "suspended", "dead", START}]
    /\ pc \in [Task -> Labels]
    /\ samples \in [Series -> Nat]
    /\ load \subseteq Dummies

\* What holds at every label.  Nobody is late for START, so it never stays posted.
Common ==
    /\ thread["I_Task"] = "ready"
    /\ events = {}
    /\ \A d \in Dummies : pc[d] = "suspend" /\ (d \notin load => thread[d] = "none")

Is(t, state, label) == thread[t] = state /\ pc[t] = label

Loaded(States) == \A d \in load : thread[d] \in States

-----------------------------------------------------------------------------
\* Scenario A

HighWaits == Is("H_Task_SA", "ready", "wait_start") \/ Is("H_Task_SA", START, "suspend")
LowWaits == Is("L_Task_SA", "ready", "wait_start") \/ Is("L_Task_SA", START, "suspend_high")

\* The threads of the scenario are created and run to their wait.
A_Setup ==
    /\ window = "closed" /\ samples["scenario_a"] = 0
    /\ \/ /\ pc["I_Task"] = "create_high_sa"
          /\ Is("H_Task_SA", "none", "wait_start") /\ Is("L_Task_SA", "none", "wait_start")
       \/ /\ pc["I_Task"] = "create_low_sa"
          /\ HighWaits /\ Is("L_Task_SA", "none", "wait_start")
       \/ /\ pc["I_Task"] = "post_start"
          /\ Is("H_Task_SA", START, "suspend") /\ LowWaits

\* H_Task_SA is ready for its first suspend.
A_Entering ==
    /\ window = "closed" /\ samples["scenario_a"] = 0
    /\ Is("H_Task_SA", "ready", "suspend") /\ Is("L_Task_SA", "ready", "suspend_high")

\* H_Task_SA is suspended and L_Task_SA runs.
A_Armed ==
    /\ window = "closed" /\ samples["scenario_a"] < MEASUREMENT_COUNT
    /\ Is("H_Task_SA", "suspended", "stop")
    /\ Is("L_Task_SA", "ready", "suspend_high") \/ Is("L_Task_SA", "ready", "resume_high")

\* The resume has switched to H_Task_SA.
A_Resumed ==
    /\ window = "scenario_a" /\ samples["scenario_a"] < MEASUREMENT_COUNT
    /\ Is("H_Task_SA", "ready", "stop") /\ Is("L_Task_SA", "ready", "suspend_high")

\* The series is complete; H_Task_SA has suspended L_Task_SA, then itself.
A_Over ==
    /\ window = "closed" /\ samples["scenario_a"] = MEASUREMENT_COUNT
    /\ thread["L_Task_SA"] = "suspended"
    /\ Is("H_Task_SA", "ready", "end") \/ Is("H_Task_SA", "suspended", "suspend")

A_Run == pc["I_Task"] = "abort_low_sa" /\ (A_Entering \/ A_Armed \/ A_Resumed \/ A_Over)

PhaseA ==
    /\ samples["scenario_b"] = 0
    /\ Is("Task_SB", "none", "resume_dummies") /\ Loaded({"none"})
    /\ A_Setup \/ A_Run

-----------------------------------------------------------------------------
\* Scenario B

\* The dummies are created and suspend themselves, one by one.
B_Setup ==
    /\ pc["I_Task"] = "create_sb"
    /\ window = "closed" /\ samples["scenario_b"] = 0
    /\ Is("Task_SB", "none", "resume_dummies") /\ Is("H_Task_SA", "suspended", "suspend")
    /\ Loaded({"none", "ready", "suspended"})

\* Task_SB prepares the window: the dummies are resumed and H_Task_SA, which
\* the window before has left ready, is suspended.
B_Resuming ==
    /\ window = "closed" /\ samples["scenario_b"] < MEASUREMENT_COUNT
    /\ Is("Task_SB", "ready", "resume_dummies")
    /\ Is("H_Task_SA", "ready", "suspend") \/ Is("H_Task_SA", "suspended", "suspend")
    /\ Loaded({"ready", "suspended"})

B_Armed ==
    /\ window = "closed" /\ samples["scenario_b"] < MEASUREMENT_COUNT
    /\ Is("Task_SB", "ready", "resume_high") /\ Is("H_Task_SA", "suspended", "suspend")
    /\ Loaded({"ready"})

\* The resume has made H_Task_SA ready and has not switched.
B_Resumed ==
    /\ window = "scenario_b" /\ samples["scenario_b"] < MEASUREMENT_COUNT
    /\ Is("Task_SB", "ready", "stop") /\ Is("H_Task_SA", "ready", "suspend")
    /\ Loaded({"ready"})

B_Suspending ==
    /\ window = "closed" /\ samples["scenario_b"] < MEASUREMENT_COUNT
    /\ Is("Task_SB", "ready", "suspend_dummies") /\ Is("H_Task_SA", "ready", "suspend")
    /\ Loaded({"ready", "suspended"})

\* Task_SB has suspended itself, and the threads it has left ready do as well.
B_Over ==
    /\ window = "closed" /\ samples["scenario_b"] = MEASUREMENT_COUNT
    /\ Is("Task_SB", "suspended", "suspend_dummies")
    /\ Is("H_Task_SA", "ready", "suspend") \/ Is("H_Task_SA", "suspended", "stop")
    /\ Loaded({"ready", "suspended"})

B_Run ==
    /\ pc["I_Task"] = "signalize"
    /\ B_Resuming \/ B_Armed \/ B_Resumed \/ B_Suspending \/ B_Over

PhaseB ==
    /\ samples["scenario_a"] = MEASUREMENT_COUNT
    /\ thread["L_Task_SA"] = "dead"
    /\ B_Setup \/ B_Run

IInv == InType /\ Common /\ (PhaseA \/ PhaseB)

-----------------------------------------------------------------------------
\* The named threads are threads, and no dummy is one of them.
LEMMA Threads ==
    /\ "I_Task" \in Task /\ "L_Task_SA" \in Task /\ "H_Task_SA" \in Task /\ "Task_SB" \in Task
    /\ \A d \in Dummies : d \in Task /\ d \notin MainTasks
    /\ \A t \in Task : t \in MainTasks \/ t \in Dummies
BY TaskAssumption DEF Task, MainTasks

\* What Step and the kernel operations do, thread by thread.
LEMMA StepEffect ==
    ASSUME InType, NEW t \in Task, NEW l, NEW m, Step(t, l, m)
    PROVE  /\ thread[t] = "ready" /\ pc[t] = l
           /\ \A u \in Task : thread[u] = "ready" => prio[t] <= prio[u]
           /\ \A u \in Task : pc'[u] = IF u = t THEN m ELSE pc[u]
           /\ load' = load
BY DEF InType, Step, Runs, Ready, build

\* I_Task runs only when nothing else is ready.
LEMMA ControlEffect ==
    ASSUME InType, NEW l, NEW m, Step("I_Task", l, m)
    PROVE  /\ thread["I_Task"] = "ready" /\ pc["I_Task"] = l
           /\ \A u \in Task : thread[u] = "ready" => u = "I_Task"
           /\ \A u \in Task : pc'[u] = IF u = "I_Task" THEN m ELSE pc[u]
           /\ load' = load
<1>1. \A u \in Task \ {"I_Task"} : prio[u] < prio["I_Task"]
  BY PrioAssumption, Threads DEF MainTasks
<1>2. QED  BY <1>1, StepEffect, PrioAssumption, Threads

\* k_thread_create() makes one unborn thread ready.
LEMMA CreateEffect ==
    ASSUME InType, NEW t \in Task, Create(t)
    PROVE  /\ thread[t] = "none"
           /\ \A u \in Task : thread'[u] = IF u = t THEN "ready" ELSE thread[u]
           /\ events' = events
BY DEF InType, Create

\* k_thread_abort() ends one thread.
LEMMA AbortEffect ==
    ASSUME InType, NEW t \in Task, Abort(t)
    PROVE  /\ \A u \in Task : thread'[u] = IF u = t THEN "dead" ELSE thread[u]
           /\ events' = events
BY DEF InType, Abort

\* k_thread_suspend() suspends one thread.
LEMMA SuspendEffect ==
    ASSUME InType, NEW t \in Task, Suspend(t)
    PROVE  /\ \A u \in Task : thread'[u] = IF u = t THEN "suspended" ELSE thread[u]
           /\ events' = events
BY DEF InType, Suspend

\* k_thread_resume() of a suspended thread makes it ready.
LEMMA ResumeEffect ==
    ASSUME InType, NEW t \in Task, Resume(t), thread[t] = "suspended"
    PROVE  /\ \A u \in Task : thread'[u] = IF u = t THEN "ready" ELSE thread[u]
           /\ events' = events
BY DEF InType, Resume

\* k_event_wait_safe() pends the caller when the bit is not posted.
LEMMA WaitEffect ==
    ASSUME InType, NEW t \in Task, EventWait(t, START), events = {}
    PROVE  /\ \A u \in Task : thread'[u] = IF u = t THEN START ELSE thread[u]
           /\ events' = events
BY DEF InType, EventWait

\* k_event_post() wakes every waiter of the bit, which consume it.
LEMMA PostEffect ==
    ASSUME InType, EventPost(START), events = {}, NEW t \in Task, thread[t] = START
    PROVE  /\ \A u \in Task : thread'[u] = IF thread[u] = START THEN "ready" ELSE thread[u]
           /\ events' = events
BY DEF InType, EventPost, Waiters

\* Code without a kernel call leaves the threads alone.
LEMMA NoCallEffect ==
    ASSUME NoCall
    PROVE  thread' = thread /\ events' = events
BY DEF NoCall, kvars

\* RecordSample counts one sample of one series.
LEMMA RecordEffect ==
    ASSUME InType, NEW s \in Series, RecordSample(s)
    PROVE  /\ \A r \in Series : samples'[r] = IF r = s THEN samples[r] + 1 ELSE samples[r]
           /\ window' = "closed"
BY DEF InType, RecordSample

\* The kernel operations keep the states of the threads well typed.
LEMMA ThreadTyping ==
    ASSUME InType, NEW t \in Task,
           \/ Create(t) \/ Abort(t) \/ Suspend(t) \/ Resume(t)
           \/ EventWait(t, START) \/ EventPost(START) \/ NoCall
    PROVE  thread' \in [Task -> {"none", "ready", "suspended", "dead", START}]
<1> USE DEF InType
<1>1. CASE Create(t)  BY <1>1 DEF Create
<1>2. CASE Abort(t)  BY <1>2 DEF Abort
<1>3. CASE Suspend(t)  BY <1>3 DEF Suspend
<1>4. CASE Resume(t)  BY <1>4 DEF Resume
<1>5. CASE EventWait(t, START)  BY <1>5 DEF EventWait
<1>6. CASE EventPost(START)  BY <1>6 DEF EventPost
<1>7. CASE NoCall  BY <1>7 DEF NoCall, kvars
<1>8. QED  BY <1>1, <1>2, <1>3, <1>4, <1>5, <1>6, <1>7

\* Every step keeps the state well typed.
LEMMA TypeStep == InType /\ [Next]_vars => InType'
<1> SUFFICES ASSUME InType, [Next]_vars PROVE InType'
  OBVIOUS
<1>0. /\ MainTasks \subseteq Task /\ Dummies \subseteq Task
      /\ {"scenario_a", "scenario_b"} = Series
  BY DEF Task, Series
<1> USE <1>0, ThreadTyping
    DEF InType, Step, Quiet, NoSample, OpenWindow, RecordSample, build, MainTasks, Labels
<1>1. CASE LowSA_WaitStart  BY <1>1 DEF LowSA_WaitStart
<1>2. CASE LowSA_SuspendHigh  BY <1>2 DEF LowSA_SuspendHigh
<1>3. CASE LowSA_ResumeHigh  BY <1>3 DEF LowSA_ResumeHigh
<1>4. CASE HighSA_WaitStart  BY <1>4 DEF HighSA_WaitStart
<1>5. CASE HighSA_Suspend  BY <1>5 DEF HighSA_Suspend
<1>6. CASE HighSA_Stop  BY <1>6 DEF HighSA_Stop
<1>7. CASE HighSA_End  BY <1>7 DEF HighSA_End
<1>8. CASE SB_SuspendHigh  BY <1>8 DEF SB_SuspendHigh
<1>9. CASE SB_ResumeHigh  BY <1>9 DEF SB_ResumeHigh
<1>10. CASE SB_Stop  BY <1>10 DEF SB_Stop
<1>11. CASE SB_Loop  BY <1>11 DEF SB_Loop
<1>12. CASE I_CreateHighSA  BY <1>12 DEF I_CreateHighSA, I_Create
<1>13. CASE I_CreateLowSA  BY <1>13 DEF I_CreateLowSA, I_Create
<1>14. CASE I_PostStart  BY <1>14 DEF I_PostStart
<1>15. CASE I_AbortLowSA  BY <1>15 DEF I_AbortLowSA, I_Abort
<1>16. CASE I_CreateSB  BY <1>16 DEF I_CreateSB, I_Create
<1>17. CASE I_Signalize  BY <1>17 DEF I_Signalize
<1>18. CASE \E d \in Dummies : Dummy_Suspend(d)  BY <1>18 DEF Dummy_Suspend
<1>19. CASE \E d \in Dummies : SB_ResumeDummy(d)  BY <1>19 DEF SB_ResumeDummy
<1>20. CASE \E d \in Dummies : SB_SuspendDummy(d)  BY <1>20 DEF SB_SuspendDummy
<1>21. CASE \E d \in Dummies : I_CreateDummySB(d)  BY <1>21 DEF I_CreateDummySB, I_Create
<1>22. CASE UNCHANGED vars  BY <1>22 DEF vars
<1>23. QED
  BY <1>1, <1>2, <1>3, <1>4, <1>5, <1>6, <1>7, <1>8, <1>9, <1>10, <1>11, <1>12, <1>13,
     <1>14, <1>15, <1>16, <1>17, <1>18, <1>19, <1>20, <1>21, <1>22 DEF Next

\* The inductive invariant holds when main() has returned.
LEMMA IInvInit == Init => IInv
<1> SUFFICES ASSUME Init PROVE IInv
  OBVIOUS
<1>1. InType
  BY DEF Init, InType, Series, Labels, Task, MainTasks
<1>2. Common
  BY Threads DEF Init, Common, MainTasks
<1>3. PhaseA
  BY Threads, CountAssumption DEF Init, PhaseA, A_Setup, Is, Loaded, MainTasks
<1>4. QED  BY <1>1, <1>2, <1>3 DEF IInv

-----------------------------------------------------------------------------
(***************************************************************************)
(* Where the scenario is when each thread runs at each label.              *)
(***************************************************************************)
\* The order of the priorities, thread by thread.
LEMMA Order ==
    /\ prio["H_Task_SA"] \in Nat /\ prio["L_Task_SA"] \in Nat /\ prio["Task_SB"] \in Nat
    /\ ~ prio["L_Task_SA"] <= prio["H_Task_SA"] /\ ~ prio["H_Task_SA"] <= prio["Task_SB"]
    /\ \A d \in Dummies : prio[d] \in Nat
          /\ ~ prio[d] <= prio["Task_SB"] /\ ~ prio["H_Task_SA"] <= prio[d]
BY PrioAssumption, Threads

\* L_Task_SA is ready only in scenario A.
LEMMA LowPhase ==
    ASSUME IInv, thread["L_Task_SA"] = "ready",
           \A u \in Task : thread[u] = "ready" => prio["L_Task_SA"] <= prio[u]
    PROVE  /\ PhaseA
           /\ pc["L_Task_SA"] = "wait_start" => A_Setup /\ pc["I_Task"] = "post_start"
           /\ pc["L_Task_SA"] # "wait_start" => pc["I_Task"] = "abort_low_sa" /\ A_Armed
<1>1. thread["H_Task_SA"] # "ready"
  BY Order, Threads
<1>2. PhaseA
  BY DEF IInv, PhaseB
<1>3. A_Setup => pc["I_Task"] = "post_start" /\ pc["L_Task_SA"] = "wait_start"
  BY DEF A_Setup, LowWaits, Is, START
<1>4. A_Run => pc["I_Task"] = "abort_low_sa" /\ A_Armed /\ pc["L_Task_SA"] # "wait_start"
  BY <1>1 DEF A_Run, A_Entering, A_Armed, A_Resumed, A_Over, Is
<1>5. QED  BY <1>2, <1>3, <1>4 DEF PhaseA

\* H_Task_SA runs at suspend both at the start of scenario A and at the end of B.
LEMMA HighPhase ==
    ASSUME IInv, thread["H_Task_SA"] = "ready",
           \A u \in Task : thread[u] = "ready" => prio["H_Task_SA"] <= prio[u]
    PROVE  /\ pc["H_Task_SA"] = "wait_start" => PhaseA /\ A_Setup /\ pc["I_Task"] = "create_low_sa"
           /\ pc["H_Task_SA"] = "suspend" =>
                 \/ PhaseA /\ pc["I_Task"] = "abort_low_sa" /\ A_Entering
                 \/ PhaseB /\ pc["I_Task"] = "signalize" /\ B_Over
           /\ pc["H_Task_SA"] = "stop" => PhaseA /\ pc["I_Task"] = "abort_low_sa" /\ A_Resumed
           /\ pc["H_Task_SA"] = "end" => PhaseA /\ pc["I_Task"] = "abort_low_sa" /\ A_Over
<1>1. thread["Task_SB"] # "ready"
  BY Order, Threads
<1>2. A_Setup => pc["I_Task"] = "create_low_sa" /\ pc["H_Task_SA"] = "wait_start"
  BY DEF A_Setup, HighWaits, Is, START
<1>3. A_Run => /\ pc["I_Task"] = "abort_low_sa"
               /\ \/ A_Entering /\ pc["H_Task_SA"] = "suspend"
                  \/ A_Resumed /\ pc["H_Task_SA"] = "stop"
                  \/ A_Over /\ pc["H_Task_SA"] = "end"
  BY DEF A_Run, A_Entering, A_Armed, A_Resumed, A_Over, Is
<1>4. ~ B_Setup
  BY DEF B_Setup, Is
<1>5. B_Run => pc["I_Task"] = "signalize" /\ B_Over /\ pc["H_Task_SA"] = "suspend"
  BY <1>1 DEF B_Run, B_Resuming, B_Armed, B_Resumed, B_Suspending, B_Over, Is
<1>6. PhaseA \/ PhaseB
  BY DEF IInv
<1>7. PhaseA => A_Setup \/ A_Run
  BY DEF PhaseA
<1>8. PhaseB => B_Setup \/ B_Run
  BY DEF PhaseB
<1>9. QED  BY <1>2, <1>3, <1>4, <1>5, <1>6, <1>7, <1>8

\* Task_SB is ready only in the loop of scenario B, where its label tells the step.
LEMMA SBPhase ==
    ASSUME IInv, thread["Task_SB"] = "ready"
    PROVE  /\ PhaseB /\ pc["I_Task"] = "signalize"
           /\ pc["Task_SB"] = "resume_dummies" => B_Resuming
           /\ pc["Task_SB"] = "resume_high" => B_Armed
           /\ pc["Task_SB"] = "stop" => B_Resumed
           /\ pc["Task_SB"] = "suspend_dummies" => B_Suspending
<1>1. PhaseB
  BY DEF IInv, PhaseA, Is
<1>2. B_Run
  BY <1>1 DEF PhaseB, B_Setup, Is
<1>3. QED
  BY <1>1, <1>2 DEF B_Run, B_Resuming, B_Armed, B_Resumed, B_Suspending, B_Over, Is

\* A dummy is ready only in scenario B, and runs while Task_SB is not ready.
LEMMA DummyPhase ==
    ASSUME IInv, NEW d \in Dummies, thread[d] = "ready",
           \A u \in Task : thread[u] = "ready" => prio[d] <= prio[u]
    PROVE  PhaseB /\ d \in load /\ (B_Setup \/ (pc["I_Task"] = "signalize" /\ B_Over))
<1>1. thread["Task_SB"] # "ready"
  BY Order, Threads
<1>2. d \in load
  BY DEF IInv, Common
<1>3. PhaseB
  BY <1>2 DEF IInv, PhaseA, Loaded
<1>4. B_Run => pc["I_Task"] = "signalize" /\ B_Over
  BY <1>1 DEF B_Run, B_Resuming, B_Armed, B_Resumed, B_Suspending, Is
<1>5. B_Setup \/ B_Run
  BY <1>3 DEF PhaseB
<1>6. QED  BY <1>2, <1>3, <1>4, <1>5

\* When I_Task runs, its label tells the rest.
LEMMA ControlPhase ==
    ASSUME IInv, \A u \in Task : thread[u] = "ready" => u = "I_Task"
    PROVE  /\ pc["I_Task"] \in {"create_high_sa", "create_low_sa", "post_start"} =>
                 PhaseA /\ A_Setup
           /\ pc["I_Task"] = "abort_low_sa" => PhaseA /\ A_Over
           /\ pc["I_Task"] = "create_sb" => PhaseB /\ B_Setup
           /\ pc["I_Task"] = "signalize" => PhaseB /\ B_Over
<1>1. A_Setup => pc["I_Task"] \in {"create_high_sa", "create_low_sa", "post_start"}
  BY DEF A_Setup
<1>2. A_Run => pc["I_Task"] = "abort_low_sa" /\ A_Over
  BY Threads DEF A_Run, A_Entering, A_Armed, A_Resumed, Is
<1>3. B_Setup => pc["I_Task"] = "create_sb"
  BY DEF B_Setup
<1>4. B_Run => pc["I_Task"] = "signalize" /\ B_Over
  BY Threads DEF B_Run, B_Resuming, B_Armed, B_Resumed, B_Suspending, Is
<1>5. QED  BY <1>1, <1>2, <1>3, <1>4 DEF IInv, PhaseA, PhaseB

-----------------------------------------------------------------------------
(***************************************************************************)
(* Each action leads from its phase to the next.  Rest carries over what   *)
(* no action of the phase disturbs.                                        *)
(***************************************************************************)
\* Common is kept by a step that changes no label of a dummy and creates
\* none that is not in the load.
LEMMA CommonStep ==
    ASSUME IInv, load' = load, events' = {}, thread'["I_Task"] = "ready",
           \A d \in Dummies : pc'[d] = "suspend",
           \A d \in Dummies \ load : thread'[d] = thread[d]
    PROVE  Common'
BY DEF IInv, Common

\* A step of scenario A leaves Task_SB, the dummies and samples of scenario B alone.
LEMMA StayA ==
    ASSUME PhaseA, load' = load, samples'["scenario_b"] = samples["scenario_b"],
           \A t \in Dummies \cup {"Task_SB"} : thread'[t] = thread[t] /\ pc'[t] = pc[t],
           load \subseteq Dummies, A_Setup' \/ A_Run'
    PROVE  PhaseA'
BY DEF PhaseA, Loaded, Is

\* A step of scenario B leaves L_Task_SA and the samples of scenario A alone.
LEMMA StayB ==
    ASSUME PhaseB, samples'["scenario_a"] = samples["scenario_a"],
           thread'["L_Task_SA"] = thread["L_Task_SA"], B_Setup' \/ B_Run'
    PROVE  PhaseB'
BY DEF PhaseB

\* The steps of L_Task_SA keep the inductive invariant.
LEMMA LowSAStep ==
    ASSUME IInv, InType', LowSA_WaitStart \/ LowSA_SuspendHigh \/ LowSA_ResumeHigh
    PROVE  IInv'
<1> USE Threads DEF MainTasks
<1>i. InType /\ Common
  BY DEF IInv
<1>1. CASE LowSA_WaitStart
  <2> USE DEF LowSA_WaitStart
  <2>1. /\ thread["L_Task_SA"] = "ready" /\ pc["L_Task_SA"] = "wait_start"
        /\ \A u \in Task : thread[u] = "ready" => prio["L_Task_SA"] <= prio[u]
        /\ \A u \in Task : pc'[u] = IF u = "L_Task_SA" THEN "suspend_high" ELSE pc[u]
        /\ load' = load
    BY <1>1, <1>i, StepEffect
  <2>2. /\ \A u \in Task : thread'[u] = IF u = "L_Task_SA" THEN START ELSE thread[u]
        /\ events' = {}
    BY <1>1, <1>i, WaitEffect DEF Common
  <2>3. window' = window /\ samples' = samples
    BY <1>1 DEF Quiet, NoSample
  <2>4. PhaseA /\ A_Setup /\ pc["I_Task"] = "post_start"
    BY <2>1, LowPhase
  <2>5. A_Setup'
    BY <2>1, <2>2, <2>3, <2>4 DEF A_Setup, LowWaits, Is
  <2>6. Common'
    BY <2>1, <2>2, <1>i, CommonStep DEF Common
  <2>7. PhaseA'
    BY <2>1, <2>2, <2>3, <2>4, <2>5, <1>i, StayA DEF InType
  <2>8. QED  BY <2>6, <2>7 DEF IInv
<1>2. CASE LowSA_SuspendHigh
  <2> USE DEF LowSA_SuspendHigh
  <2>1. /\ thread["L_Task_SA"] = "ready" /\ pc["L_Task_SA"] = "suspend_high"
        /\ \A u \in Task : thread[u] = "ready" => prio["L_Task_SA"] <= prio[u]
        /\ \A u \in Task : pc'[u] = IF u = "L_Task_SA" THEN "resume_high" ELSE pc[u]
        /\ load' = load
    BY <1>2, <1>i, StepEffect
  <2>2. /\ \A u \in Task : thread'[u] = IF u = "H_Task_SA" THEN "suspended" ELSE thread[u]
        /\ events' = {}
    BY <1>2, <1>i, SuspendEffect DEF Common
  <2>3. window' = window /\ samples' = samples
    BY <1>2 DEF Quiet, NoSample
  <2>4. PhaseA /\ A_Armed /\ pc["I_Task"] = "abort_low_sa"
    BY <2>1, LowPhase
  <2>5. A_Armed' /\ A_Run'
    BY <2>1, <2>2, <2>3, <2>4 DEF A_Armed, A_Run, Is
  <2>6. Common'
    BY <2>1, <2>2, <1>i, CommonStep DEF Common
  <2>7. PhaseA'
    BY <2>1, <2>2, <2>3, <2>4, <2>5, <1>i, StayA DEF InType
  <2>8. QED  BY <2>6, <2>7 DEF IInv
<1>3. CASE LowSA_ResumeHigh
  <2> USE DEF LowSA_ResumeHigh
  <2>1. /\ thread["L_Task_SA"] = "ready" /\ pc["L_Task_SA"] = "resume_high"
        /\ \A u \in Task : thread[u] = "ready" => prio["L_Task_SA"] <= prio[u]
        /\ \A u \in Task : pc'[u] = IF u = "L_Task_SA" THEN "suspend_high" ELSE pc[u]
        /\ load' = load
    BY <1>3, <1>i, StepEffect
  <2>2. PhaseA /\ A_Armed /\ pc["I_Task"] = "abort_low_sa"
    BY <2>1, LowPhase
  <2>3. /\ \A u \in Task : thread'[u] = IF u = "H_Task_SA" THEN "ready" ELSE thread[u]
        /\ events' = {}
    BY <1>3, <1>i, <2>2, ResumeEffect DEF Common, A_Armed, Is
  <2>4. window' = "scenario_a" /\ samples' = samples
    BY <1>3 DEF OpenWindow
  <2>5. A_Resumed' /\ A_Run'
    BY <2>1, <2>2, <2>3, <2>4 DEF A_Armed, A_Resumed, A_Run, Is
  <2>6. Common'
    BY <2>1, <2>3, <1>i, CommonStep DEF Common
  <2>7. PhaseA'
    BY <2>1, <2>2, <2>3, <2>4, <2>5, <1>i, StayA DEF InType
  <2>8. QED  BY <2>6, <2>7 DEF IInv
<1>4. QED  BY <1>1, <1>2, <1>3

\* The steps of H_Task_SA keep the inductive invariant.
LEMMA HighSAStep ==
    ASSUME IInv, InType',
           HighSA_WaitStart \/ HighSA_Suspend \/ HighSA_Stop \/ HighSA_End
    PROVE  IInv'
<1> USE Threads DEF MainTasks
<1>i. InType /\ Common
  BY DEF IInv
<1>1. CASE HighSA_WaitStart
  <2> USE DEF HighSA_WaitStart
  <2>1. /\ thread["H_Task_SA"] = "ready" /\ pc["H_Task_SA"] = "wait_start"
        /\ \A u \in Task : thread[u] = "ready" => prio["H_Task_SA"] <= prio[u]
        /\ \A u \in Task : pc'[u] = IF u = "H_Task_SA" THEN "suspend" ELSE pc[u]
        /\ load' = load
    BY <1>1, <1>i, StepEffect
  <2>2. /\ \A u \in Task : thread'[u] = IF u = "H_Task_SA" THEN START ELSE thread[u]
        /\ events' = {}
    BY <1>1, <1>i, WaitEffect DEF Common
  <2>3. window' = window /\ samples' = samples
    BY <1>1 DEF Quiet, NoSample
  <2>4. PhaseA /\ A_Setup /\ pc["I_Task"] = "create_low_sa"
    BY <2>1, HighPhase
  <2>5. A_Setup'
    BY <2>1, <2>2, <2>3, <2>4 DEF A_Setup, HighWaits, Is
  <2>6. Common'
    BY <2>1, <2>2, <1>i, CommonStep DEF Common
  <2>7. PhaseA'
    BY <2>1, <2>2, <2>3, <2>4, <2>5, <1>i, StayA DEF InType
  <2>8. QED  BY <2>6, <2>7 DEF IInv
<1>2. CASE HighSA_Suspend
  <2> USE DEF HighSA_Suspend
  <2>1. /\ thread["H_Task_SA"] = "ready" /\ pc["H_Task_SA"] = "suspend"
        /\ \A u \in Task : thread[u] = "ready" => prio["H_Task_SA"] <= prio[u]
        /\ \A u \in Task : pc'[u] = IF u = "H_Task_SA" THEN "stop" ELSE pc[u]
        /\ load' = load
    BY <1>2, <1>i, StepEffect
  <2>2. /\ \A u \in Task : thread'[u] = IF u = "H_Task_SA" THEN "suspended" ELSE thread[u]
        /\ events' = {}
    BY <1>2, <1>i, SuspendEffect DEF Common
  <2>3. window' = window /\ samples' = samples
    BY <1>2 DEF Quiet, NoSample
  <2>4. Common'
    BY <2>1, <2>2, <1>i, CommonStep DEF Common
  <2>5. CASE PhaseA /\ pc["I_Task"] = "abort_low_sa" /\ A_Entering
    <3>1. A_Armed' /\ A_Run'
      BY <2>1, <2>2, <2>3, <2>5, CountAssumption DEF A_Entering, A_Armed, A_Run, Is
    <3>2. PhaseA'
      BY <2>1, <2>2, <2>3, <2>5, <3>1, <1>i, StayA DEF InType
    <3>3. QED  BY <2>4, <3>2 DEF IInv
  <2>6. CASE PhaseB /\ pc["I_Task"] = "signalize" /\ B_Over
    <3>1. B_Over' /\ B_Run'
      BY <2>1, <2>2, <2>3, <2>6, <1>i DEF B_Over, B_Run, Is, Loaded, InType
    <3>2. PhaseB'
      BY <2>2, <2>3, <2>6, <3>1, StayB
    <3>3. QED  BY <2>4, <3>2 DEF IInv
  <2>7. QED  BY <2>1, <2>5, <2>6, HighPhase
<1>3. CASE HighSA_Stop
  <2>1. PICK m \in {"stop", "end"}, t \in {"H_Task_SA", "L_Task_SA"} :
           /\ Step("H_Task_SA", "stop", m) /\ Suspend(t)
           /\ m = "stop" => t = "H_Task_SA" /\ samples'["scenario_a"] < MEASUREMENT_COUNT
           /\ m = "end" => t = "L_Task_SA" /\ samples'["scenario_a"] >= MEASUREMENT_COUNT
    BY <1>3 DEF HighSA_Stop
  <2>2. /\ thread["H_Task_SA"] = "ready" /\ pc["H_Task_SA"] = "stop"
        /\ \A u \in Task : thread[u] = "ready" => prio["H_Task_SA"] <= prio[u]
        /\ \A u \in Task : pc'[u] = IF u = "H_Task_SA" THEN m ELSE pc[u]
        /\ load' = load
    BY <2>1, <1>i, StepEffect
  <2>3. /\ \A u \in Task : thread'[u] = IF u = t THEN "suspended" ELSE thread[u]
        /\ events' = {}
    BY <2>1, <1>i, SuspendEffect DEF Common
  <2>4. /\ samples'["scenario_a"] = samples["scenario_a"] + 1
        /\ samples'["scenario_b"] = samples["scenario_b"]
        /\ window' = "closed"
    BY <1>3, <1>i, RecordEffect DEF HighSA_Stop, Series
  <2>5. PhaseA /\ pc["I_Task"] = "abort_low_sa" /\ A_Resumed
    BY <2>2, HighPhase
  <2>6. samples["scenario_a"] \in Nat /\ samples["scenario_a"] < MEASUREMENT_COUNT
    BY <2>5, <1>i DEF InType, Series, A_Resumed
  <2>7. PhaseA'
    <3>1. A_Run'
      BY <2>1, <2>2, <2>3, <2>4, <2>5, <2>6, CountAssumption
      DEF A_Resumed, A_Armed, A_Over, A_Run, Is
    <3>2. QED  BY <2>2, <2>3, <2>4, <2>5, <3>1, <1>i, StayA DEF InType
  <2>8. Common'
    BY <2>2, <2>3, <1>i, CommonStep DEF Common
  <2>9. QED  BY <2>7, <2>8 DEF IInv
<1>4. CASE HighSA_End
  <2> USE DEF HighSA_End
  <2>1. /\ thread["H_Task_SA"] = "ready" /\ pc["H_Task_SA"] = "end"
        /\ \A u \in Task : thread[u] = "ready" => prio["H_Task_SA"] <= prio[u]
        /\ \A u \in Task : pc'[u] = IF u = "H_Task_SA" THEN "suspend" ELSE pc[u]
        /\ load' = load
    BY <1>4, <1>i, StepEffect
  <2>2. /\ \A u \in Task : thread'[u] = IF u = "H_Task_SA" THEN "suspended" ELSE thread[u]
        /\ events' = {}
    BY <1>4, <1>i, SuspendEffect DEF Common
  <2>3. window' = window /\ samples' = samples
    BY <1>4 DEF Quiet, NoSample
  <2>4. PhaseA /\ A_Over /\ pc["I_Task"] = "abort_low_sa"
    BY <2>1, HighPhase
  <2>5. A_Over' /\ A_Run'
    BY <2>1, <2>2, <2>3, <2>4 DEF A_Over, A_Run, Is
  <2>6. Common'
    BY <2>1, <2>2, <1>i, CommonStep DEF Common
  <2>7. PhaseA'
    BY <2>1, <2>2, <2>3, <2>4, <2>5, <1>i, StayA DEF InType
  <2>8. QED  BY <2>6, <2>7 DEF IInv
<1>5. QED  BY <1>1, <1>2, <1>3, <1>4

\* The steps of Task_SB keep the inductive invariant.
LEMMA SBStep ==
    ASSUME IInv, InType',
           \/ SB_SuspendHigh \/ SB_ResumeHigh \/ SB_Stop \/ SB_Loop
           \/ \E d \in Dummies : SB_ResumeDummy(d) \/ SB_SuspendDummy(d)
    PROVE  IInv'
<1> USE Threads DEF MainTasks
<1>i. InType /\ Common /\ load \subseteq Dummies
  BY DEF IInv, InType
<1>a. ASSUME NEW l, NEW m, Step("Task_SB", l, m)
      PROVE  /\ thread["Task_SB"] = "ready" /\ pc["Task_SB"] = l
             /\ PhaseB /\ pc["I_Task"] = "signalize"
             /\ \A u \in Task : pc'[u] = IF u = "Task_SB" THEN m ELSE pc[u]
             /\ load' = load
  BY <1>a, <1>i, StepEffect, SBPhase
<1>1. CASE SB_SuspendHigh
  <2> USE DEF SB_SuspendHigh
  <2>1. /\ pc["Task_SB"] = "resume_dummies" /\ thread["Task_SB"] = "ready"
        /\ PhaseB /\ pc["I_Task"] = "signalize" /\ B_Resuming
        /\ \A u \in Task : pc'[u] = IF u = "Task_SB" THEN "resume_high" ELSE pc[u]
        /\ load' = load
    BY <1>1, <1>a, SBPhase
  <2>2. /\ \A u \in Task : thread'[u] = IF u = "H_Task_SA" THEN "suspended" ELSE thread[u]
        /\ events' = {}
    BY <1>1, <1>i, SuspendEffect DEF Common
  <2>3. window' = window /\ samples' = samples
    BY <1>1 DEF Quiet, NoSample
  <2>4. B_Armed' /\ B_Run'
    BY <1>1, <1>i, <2>1, <2>2, <2>3 DEF B_Resuming, B_Armed, B_Run, Is, Loaded
  <2>5. Common'
    BY <2>1, <2>2, <1>i, CommonStep DEF Common
  <2>6. PhaseB'
    BY <2>1, <2>2, <2>3, <2>4, StayB
  <2>7. QED  BY <2>5, <2>6 DEF IInv
<1>2. CASE SB_ResumeHigh
  <2> USE DEF SB_ResumeHigh
  <2>1. /\ pc["Task_SB"] = "resume_high" /\ thread["Task_SB"] = "ready"
        /\ PhaseB /\ pc["I_Task"] = "signalize" /\ B_Armed
        /\ \A u \in Task : pc'[u] = IF u = "Task_SB" THEN "stop" ELSE pc[u]
        /\ load' = load
    BY <1>2, <1>a, SBPhase
  <2>2. /\ \A u \in Task : thread'[u] = IF u = "H_Task_SA" THEN "ready" ELSE thread[u]
        /\ events' = {}
    BY <1>2, <1>i, <2>1, ResumeEffect DEF Common, B_Armed, Is
  <2>3. window' = "scenario_b" /\ samples' = samples
    BY <1>2 DEF OpenWindow
  <2>4. B_Resumed' /\ B_Run'
    BY <1>i, <2>1, <2>2, <2>3 DEF B_Armed, B_Resumed, B_Run, Is, Loaded
  <2>5. Common'
    BY <2>1, <2>2, <1>i, CommonStep DEF Common
  <2>6. PhaseB'
    BY <2>1, <2>2, <2>3, <2>4, StayB
  <2>7. QED  BY <2>5, <2>6 DEF IInv
<1>3. CASE SB_Stop
  <2> USE DEF SB_Stop
  <2>1. /\ pc["Task_SB"] = "stop" /\ thread["Task_SB"] = "ready"
        /\ PhaseB /\ pc["I_Task"] = "signalize" /\ B_Resumed
        /\ \A u \in Task : pc'[u] = IF u = "Task_SB" THEN "suspend_dummies" ELSE pc[u]
        /\ load' = load
    BY <1>3, <1>a, SBPhase
  <2>2. /\ samples'["scenario_b"] = samples["scenario_b"] + 1
        /\ samples'["scenario_a"] = samples["scenario_a"]
        /\ window' = "closed"
    BY <1>3, <1>i, RecordEffect DEF Series
  <2>3. samples["scenario_b"] \in Nat /\ samples["scenario_b"] < MEASUREMENT_COUNT
    BY <1>i, <2>1 DEF InType, Series, B_Resumed
  <2>4. CASE samples'["scenario_b"] >= MEASUREMENT_COUNT
    <3>1. /\ \A u \in Task : thread'[u] = IF u = "Task_SB" THEN "suspended" ELSE thread[u]
          /\ events' = {}
      BY <1>3, <1>i, <2>4, SuspendEffect DEF Common
    <3>2. samples'["scenario_b"] = MEASUREMENT_COUNT
      BY <2>2, <2>3, <2>4, CountAssumption
    <3>3. B_Over' /\ B_Run'
      BY <1>i, <2>1, <2>2, <3>1, <3>2 DEF B_Resumed, B_Over, B_Run, Is, Loaded
    <3>4. Common'
      BY <2>1, <3>1, <1>i, CommonStep DEF Common
    <3>5. PhaseB'
      BY <2>1, <2>2, <3>1, <3>3, StayB
    <3>6. QED  BY <3>4, <3>5 DEF IInv
  <2>5. CASE ~ samples'["scenario_b"] >= MEASUREMENT_COUNT
    <3>1. thread' = thread /\ events' = {}
      BY <1>3, <1>i, <2>5, NoCallEffect DEF Common
    <3>2. samples'["scenario_b"] < MEASUREMENT_COUNT
      BY <2>2, <2>3, <2>5, CountAssumption
    <3>3. B_Suspending' /\ B_Run'
      BY <1>i, <2>1, <2>2, <3>1, <3>2 DEF B_Resumed, B_Suspending, B_Run, Is, Loaded
    <3>4. Common'
      BY <2>1, <3>1, <1>i, CommonStep DEF Common
    <3>5. PhaseB'
      BY <2>1, <2>2, <3>1, <3>3, StayB
    <3>6. QED  BY <3>4, <3>5 DEF IInv
  <2>6. QED  BY <2>4, <2>5
<1>4. CASE SB_Loop
  <2> USE DEF SB_Loop
  <2>1. /\ pc["Task_SB"] = "suspend_dummies" /\ thread["Task_SB"] = "ready"
        /\ PhaseB /\ pc["I_Task"] = "signalize" /\ B_Suspending
        /\ \A u \in Task : pc'[u] = IF u = "Task_SB" THEN "resume_dummies" ELSE pc[u]
        /\ load' = load
    BY <1>4, <1>a, SBPhase
  <2>2. thread' = thread /\ events' = {}
    BY <1>4, <1>i, NoCallEffect DEF Common
  <2>3. window' = window /\ samples' = samples
    BY <1>4 DEF Quiet, NoSample
  <2>4. B_Resuming' /\ B_Run'
    BY <1>i, <2>1, <2>2, <2>3 DEF B_Suspending, B_Resuming, B_Run, Is, Loaded
  <2>5. Common'
    BY <2>1, <2>2, <1>i, CommonStep DEF Common
  <2>6. PhaseB'
    BY <2>1, <2>2, <2>3, <2>4, StayB
  <2>7. QED  BY <2>5, <2>6 DEF IInv
<1>5. ASSUME NEW d \in Dummies, SB_ResumeDummy(d) PROVE IInv'
  <2> USE DEF SB_ResumeDummy
  <2>1. /\ pc["Task_SB"] = "resume_dummies" /\ thread["Task_SB"] = "ready"
        /\ PhaseB /\ pc["I_Task"] = "signalize" /\ B_Resuming
        /\ \A u \in Task : pc'[u] = IF u = "Task_SB" THEN "resume_dummies" ELSE pc[u]
        /\ load' = load /\ d \in load
    BY <1>5, <1>a, SBPhase
  <2>2. /\ \A u \in Task : thread'[u] = IF u = d THEN "ready" ELSE thread[u]
        /\ events' = {}
    BY <1>5, <1>i, ResumeEffect DEF Common
  <2>3. window' = window /\ samples' = samples
    BY <1>5 DEF Quiet, NoSample
  <2>4. B_Resuming' /\ B_Run'
    BY <1>i, <2>1, <2>2, <2>3 DEF B_Resuming, B_Run, Is, Loaded
  <2>5. Common'
    BY <2>1, <2>2, <1>i, CommonStep DEF Common
  <2>6. PhaseB'
    BY <2>1, <2>2, <2>3, <2>4, StayB
  <2>7. QED  BY <2>5, <2>6 DEF IInv
<1>6. ASSUME NEW d \in Dummies, SB_SuspendDummy(d) PROVE IInv'
  <2> USE DEF SB_SuspendDummy
  <2>1. /\ pc["Task_SB"] = "suspend_dummies" /\ thread["Task_SB"] = "ready"
        /\ PhaseB /\ pc["I_Task"] = "signalize" /\ B_Suspending
        /\ \A u \in Task : pc'[u] = IF u = "Task_SB" THEN "suspend_dummies" ELSE pc[u]
        /\ load' = load /\ d \in load
    BY <1>6, <1>a, SBPhase
  <2>2. /\ \A u \in Task : thread'[u] = IF u = d THEN "suspended" ELSE thread[u]
        /\ events' = {}
    BY <1>6, <1>i, SuspendEffect DEF Common
  <2>3. window' = window /\ samples' = samples
    BY <1>6 DEF Quiet, NoSample
  <2>4. B_Suspending' /\ B_Run'
    BY <1>i, <2>1, <2>2, <2>3 DEF B_Suspending, B_Run, Is, Loaded
  <2>5. Common'
    BY <2>1, <2>2, <1>i, CommonStep DEF Common
  <2>6. PhaseB'
    BY <2>1, <2>2, <2>3, <2>4, StayB
  <2>7. QED  BY <2>5, <2>6 DEF IInv
<1>7. QED  BY <1>1, <1>2, <1>3, <1>4, <1>5, <1>6

\* A dummy suspends itself.
LEMMA DummyStep ==
    ASSUME IInv, InType', NEW d \in Dummies, Dummy_Suspend(d)
    PROVE  IInv'
<1> USE Threads DEF MainTasks, Dummy_Suspend
<1>i. InType /\ Common /\ load \subseteq Dummies
  BY DEF IInv, InType
<1>1. /\ thread[d] = "ready"
      /\ \A u \in Task : thread[u] = "ready" => prio[d] <= prio[u]
      /\ \A u \in Task : pc'[u] = IF u = d THEN "suspend" ELSE pc[u]
      /\ load' = load
  BY <1>i, StepEffect
<1>2. /\ \A u \in Task : thread'[u] = IF u = d THEN "suspended" ELSE thread[u]
      /\ events' = {}
  BY <1>i, SuspendEffect DEF Common
<1>3. window' = window /\ samples' = samples
  BY DEF Quiet, NoSample
<1>4. PhaseB /\ d \in load /\ (B_Setup \/ (pc["I_Task"] = "signalize" /\ B_Over))
  BY <1>1, DummyPhase
<1>5. Common'
  BY <1>1, <1>2, <1>4, <1>i, CommonStep DEF Common
<1>6. CASE B_Setup
  <2>1. B_Setup'
    BY <1>1, <1>2, <1>3, <1>4, <1>6, <1>i DEF B_Setup, Is, Loaded
  <2>2. PhaseB'
    BY <1>2, <1>3, <1>4, <2>1, StayB
  <2>3. QED  BY <1>5, <2>2 DEF IInv
<1>7. CASE pc["I_Task"] = "signalize" /\ B_Over
  <2>1. B_Over' /\ B_Run'
    BY <1>1, <1>2, <1>3, <1>4, <1>7, <1>i DEF B_Over, B_Run, Is, Loaded
  <2>2. PhaseB'
    BY <1>2, <1>3, <1>4, <2>1, StayB
  <2>3. QED  BY <1>5, <2>2 DEF IInv
<1>8. QED  BY <1>4, <1>6, <1>7

\* I_Task sets up scenario A.
LEMMA ControlStepA ==
    ASSUME IInv, InType', I_CreateHighSA \/ I_CreateLowSA \/ I_PostStart
    PROVE  IInv'
<1> USE Threads DEF MainTasks
<1>i. InType /\ Common /\ load \subseteq Dummies
  BY DEF IInv, InType
<1>1. CASE I_CreateHighSA
  <2> USE DEF I_CreateHighSA, I_Create
  <2>1. /\ pc["I_Task"] = "create_high_sa"
        /\ \A u \in Task : pc'[u] = IF u = "I_Task" THEN "create_low_sa" ELSE pc[u]
        /\ load' = load
        /\ \A u \in Task : thread[u] = "ready" => u = "I_Task"
    BY <1>1, <1>i, ControlEffect
  <2>2. /\ \A u \in Task : thread'[u] = IF u = "H_Task_SA" THEN "ready" ELSE thread[u]
        /\ events' = {}
    BY <1>1, <1>i, CreateEffect DEF Common
  <2>3. window' = window /\ samples' = samples
    BY <1>1 DEF Quiet, NoSample
  <2>4. PhaseA /\ A_Setup
    BY <2>1, ControlPhase
  <2>5. A_Setup'
    BY <2>1, <2>2, <2>3, <2>4 DEF A_Setup, HighWaits, Is
  <2>6. Common'
    BY <2>1, <2>2, <1>i, CommonStep DEF Common
  <2>7. PhaseA'
    BY <2>1, <2>2, <2>3, <2>4, <2>5, <1>i, StayA
  <2>8. QED  BY <2>6, <2>7 DEF IInv
<1>2. CASE I_CreateLowSA
  <2> USE DEF I_CreateLowSA, I_Create
  <2>1. /\ pc["I_Task"] = "create_low_sa"
        /\ \A u \in Task : pc'[u] = IF u = "I_Task" THEN "post_start" ELSE pc[u]
        /\ load' = load
        /\ \A u \in Task : thread[u] = "ready" => u = "I_Task"
    BY <1>2, <1>i, ControlEffect
  <2>2. /\ \A u \in Task : thread'[u] = IF u = "L_Task_SA" THEN "ready" ELSE thread[u]
        /\ events' = {}
    BY <1>2, <1>i, CreateEffect DEF Common
  <2>3. window' = window /\ samples' = samples
    BY <1>2 DEF Quiet, NoSample
  <2>4. PhaseA /\ A_Setup
    BY <2>1, ControlPhase
  <2>5. A_Setup'
    BY <2>1, <2>2, <2>3, <2>4 DEF A_Setup, HighWaits, LowWaits, Is
  <2>6. Common'
    BY <2>1, <2>2, <1>i, CommonStep DEF Common
  <2>7. PhaseA'
    BY <2>1, <2>2, <2>3, <2>4, <2>5, <1>i, StayA
  <2>8. QED  BY <2>6, <2>7 DEF IInv
<1>3. CASE I_PostStart
  <2> USE DEF I_PostStart
  <2>1. /\ pc["I_Task"] = "post_start"
        /\ \A u \in Task : pc'[u] = IF u = "I_Task" THEN "abort_low_sa" ELSE pc[u]
        /\ load' = load
        /\ \A u \in Task : thread[u] = "ready" => u = "I_Task"
    BY <1>3, <1>i, ControlEffect
  <2>2. PhaseA /\ A_Setup
    BY <2>1, ControlPhase
  <2>3. Is("H_Task_SA", START, "suspend") /\ Is("L_Task_SA", START, "suspend_high")
    BY <2>1, <2>2 DEF A_Setup, LowWaits, Is
  <2>4. /\ \A u \in Task : thread'[u] = IF thread[u] = START THEN "ready" ELSE thread[u]
        /\ events' = {}
    BY <1>3, <1>i, <2>3, PostEffect DEF Common, Is
  <2>5. window' = window /\ samples' = samples
    BY <1>3 DEF Quiet, NoSample
  <2>6. A_Entering' /\ A_Run'
    BY <2>1, <2>2, <2>3, <2>4, <2>5 DEF A_Setup, A_Entering, A_Run, Is
  <2>7. \A u \in Dummies \cup {"Task_SB"} : thread[u] # START
    BY <1>i, <2>2 DEF PhaseA, Loaded, Common, Is, START
  <2>8. Common'
    BY <2>1, <2>4, <2>7, <1>i, CommonStep DEF Common
  <2>9. PhaseA'
    BY <2>1, <2>2, <2>4, <2>5, <2>6, <2>7, <1>i, StayA
  <2>10. QED  BY <2>8, <2>9 DEF IInv
<1>4. QED  BY <1>1, <1>2, <1>3

\* I_Task ends scenario A and sets up scenario B.
LEMMA ControlStepB ==
    ASSUME IInv, InType',
           \/ I_AbortLowSA \/ I_CreateSB \/ I_Signalize
           \/ \E d \in Dummies : I_CreateDummySB(d)
    PROVE  IInv'
<1> USE Threads DEF MainTasks
<1>i. InType /\ Common /\ load \subseteq Dummies
  BY DEF IInv, InType
<1>1. CASE I_AbortLowSA
  <2> USE DEF I_AbortLowSA, I_Abort
  <2>1. /\ pc["I_Task"] = "abort_low_sa" /\ thread["I_Task"] = "ready"
        /\ \A u \in Task : pc'[u] = IF u = "I_Task" THEN "create_sb" ELSE pc[u]
        /\ load' = load
        /\ \A u \in Task : thread[u] = "ready" => u = "I_Task"
    BY <1>1, <1>i, ControlEffect
  <2>2. /\ \A u \in Task : thread'[u] = IF u = "L_Task_SA" THEN "dead" ELSE thread[u]
        /\ events' = {}
    BY <1>1, <1>i, AbortEffect DEF Common
  <2>3. window' = window /\ samples' = samples
    BY <1>1 DEF Quiet, NoSample
  <2>4. PhaseA /\ A_Over
    BY <2>1, ControlPhase
  <2>5. Is("H_Task_SA", "suspended", "suspend")
    BY <2>1, <2>4 DEF A_Over, Is
  <2>6. B_Setup'
    BY <2>1, <2>2, <2>3, <2>4, <2>5, <1>i DEF PhaseA, A_Over, B_Setup, Is, Loaded
  <2>7. Common'
    BY <2>1, <2>2, <1>i, CommonStep DEF Common
  <2>8. PhaseB'
    BY <2>2, <2>3, <2>4, <2>6 DEF PhaseB, A_Over
  <2>9. QED  BY <2>7, <2>8 DEF IInv
<1>2. CASE I_CreateSB
  <2> USE DEF I_CreateSB, I_Create
  <2>1. /\ pc["I_Task"] = "create_sb"
        /\ \A u \in Task : pc'[u] = IF u = "I_Task" THEN "signalize" ELSE pc[u]
        /\ load' = load
        /\ \A u \in Task : thread[u] = "ready" => u = "I_Task"
    BY <1>2, <1>i, ControlEffect
  <2>2. /\ \A u \in Task : thread'[u] = IF u = "Task_SB" THEN "ready" ELSE thread[u]
        /\ events' = {}
    BY <1>2, <1>i, CreateEffect DEF Common
  <2>3. window' = window /\ samples' = samples
    BY <1>2 DEF Quiet, NoSample
  <2>4. PhaseB /\ B_Setup
    BY <2>1, ControlPhase
  <2>5. B_Resuming' /\ B_Run'
    BY <1>2, <2>1, <2>2, <2>3, <2>4, <1>i, CountAssumption
    DEF B_Setup, B_Resuming, B_Run, Is, Loaded
  <2>6. Common'
    BY <2>1, <2>2, <1>i, CommonStep DEF Common
  <2>7. PhaseB'
    BY <2>1, <2>2, <2>3, <2>4, <2>5, StayB
  <2>8. QED  BY <2>6, <2>7 DEF IInv
<1>3. CASE I_Signalize
  <2> USE DEF I_Signalize
  <2>1. /\ pc["I_Task"] = "signalize"
        /\ \A u \in Task : pc'[u] = IF u = "I_Task" THEN "signalize" ELSE pc[u]
        /\ load' = load
        /\ \A u \in Task : thread[u] = "ready" => u = "I_Task"
    BY <1>3, <1>i, ControlEffect
  <2>2. thread' = thread /\ events' = {}
    BY <1>3, <1>i, NoCallEffect DEF Common
  <2>3. window' = window /\ samples' = samples
    BY <1>3 DEF Quiet, NoSample
  <2>4. PhaseB /\ B_Over
    BY <2>1, ControlPhase
  <2>5. B_Over' /\ B_Run'
    BY <2>1, <2>2, <2>3, <2>4, <1>i DEF B_Over, B_Run, Is, Loaded
  <2>6. Common'
    BY <2>1, <2>2, <1>i, CommonStep DEF Common
  <2>7. PhaseB'
    BY <2>1, <2>2, <2>3, <2>4, <2>5, StayB
  <2>8. QED  BY <2>6, <2>7 DEF IInv
<1>4. ASSUME NEW d \in Dummies, I_CreateDummySB(d) PROVE IInv'
  <2> USE DEF I_CreateDummySB, I_Create
  <2>1. /\ pc["I_Task"] = "create_sb" /\ d \in load
        /\ \A u \in Task : pc'[u] = IF u = "I_Task" THEN "create_sb" ELSE pc[u]
        /\ load' = load
        /\ \A u \in Task : thread[u] = "ready" => u = "I_Task"
    BY <1>4, <1>i, ControlEffect
  <2>2. /\ \A u \in Task : thread'[u] = IF u = d THEN "ready" ELSE thread[u]
        /\ events' = {}
    BY <1>4, <1>i, CreateEffect DEF Common
  <2>3. window' = window /\ samples' = samples
    BY <1>4 DEF Quiet, NoSample
  <2>4. PhaseB /\ B_Setup
    BY <2>1, ControlPhase
  <2>5. B_Setup'
    BY <2>1, <2>2, <2>3, <2>4, <1>i DEF B_Setup, Is, Loaded
  <2>6. Common'
    BY <2>1, <2>2, <1>i, CommonStep DEF Common
  <2>7. PhaseB'
    BY <2>1, <2>2, <2>3, <2>4, <2>5, StayB
  <2>8. QED  BY <2>6, <2>7 DEF IInv
<1>5. QED  BY <1>1, <1>2, <1>3, <1>4

\* The inductive invariant is kept by every step.
LEMMA IInvStep == IInv /\ [Next]_vars => IInv'
<1> SUFFICES ASSUME IInv, [Next]_vars PROVE IInv'
  OBVIOUS
<1>1. InType'
  BY TypeStep DEF IInv
<1>2. CASE UNCHANGED vars
  <2>1. Common'
    BY <1>2 DEF vars, IInv, Common
  <2>2. PhaseA => PhaseA'
    BY <1>2 DEF vars, PhaseA, A_Setup, A_Run, A_Entering, A_Armed, A_Resumed, A_Over,
                HighWaits, LowWaits, Is, Loaded
  <2>3. PhaseB => PhaseB'
    BY <1>2 DEF vars, PhaseB, B_Setup, B_Run, B_Resuming, B_Armed, B_Resumed, B_Suspending,
                B_Over, Is, Loaded
  <2>4. QED  BY <1>1, <2>1, <2>2, <2>3 DEF IInv
<1>3. QED
  BY <1>1, <1>2, LowSAStep, HighSAStep, SBStep, DummyStep, ControlStepA, ControlStepB DEF Next

\* The inductive invariant: the threads of a scenario are in one of its few phases.
THEOREM Invariance == Spec => []IInv
<1>1. QED  BY IInvInit, IInvStep, PTL DEF Spec

-----------------------------------------------------------------------------
(***************************************************************************)
(* The properties that the run checks.                                     *)
(***************************************************************************)
\* The phase tells what is ready in an open window.
LEMMA IInvIsolation == IInv => WindowIsolation
<1> SUFFICES ASSUME IInv PROVE WindowIsolation
  OBVIOUS
<1> USE Threads DEF MainTasks
<1>0. /\ \A t \in Task : prio[t] \in Nat
      /\ \A t \in Task \ {"Task_SB"} : prio["Task_SB"] <= prio[t]
      /\ prio["H_Task_SA"] <= prio["L_Task_SA"] /\ prio["H_Task_SA"] <= prio["I_Task"]
  BY PrioAssumption
<1>1. ASSUME window = "scenario_a" PROVE Runs("H_Task_SA") /\ pc["H_Task_SA"] = "stop"
  <2>1. PhaseA /\ A_Resumed
    BY <1>1 DEF IInv, PhaseA, PhaseB, A_Setup, A_Run, A_Entering, A_Armed, A_Over,
                B_Setup, B_Run, B_Resuming, B_Armed, B_Resumed, B_Suspending, B_Over
  <2>2. \A u \in Task : thread[u] = "ready" => u \in {"I_Task", "L_Task_SA", "H_Task_SA"}
    BY <2>1 DEF IInv, Common, PhaseA, Loaded, Is
  <2>3. QED  BY <1>0, <2>1, <2>2 DEF A_Resumed, Is, Runs, Ready
<1>2. ASSUME window = "scenario_b"
      PROVE  /\ Runs("Task_SB") /\ pc["Task_SB"] = "stop"
             /\ \A d \in load \cup {"H_Task_SA"} : Ready(d)
  <2>1. B_Resumed
    BY <1>2 DEF IInv, PhaseA, PhaseB, A_Setup, A_Run, A_Entering, A_Armed, A_Resumed, A_Over,
                B_Setup, B_Run, B_Resuming, B_Armed, B_Suspending, B_Over
  <2>2. QED  BY <1>0, <2>1 DEF B_Resumed, Is, Loaded, Runs, Ready
<1>3. QED  BY <1>1, <1>2 DEF WindowIsolation

\* The measured resume finds H_Task_SA suspended.
LEMMA IInvConditions == IInv => SameConditions
<1> SUFFICES ASSUME IInv PROVE SameConditions
  OBVIOUS
<1> USE Threads DEF MainTasks
<1>1. ASSUME Runs("L_Task_SA"), pc["L_Task_SA"] = "resume_high"
      PROVE  /\ thread["H_Task_SA"] = "suspended" /\ pc["H_Task_SA"] = "stop"
             /\ \A t \in Task \ {"I_Task", "L_Task_SA"} : ~Ready(t)
  <2>1. PhaseA /\ A_Armed
    BY <1>1, LowPhase DEF Runs, Ready
  <2>2. Is("H_Task_SA", "suspended", "stop") /\ thread["Task_SB"] = "none"
    BY <2>1 DEF A_Armed, PhaseA, Is
  <2>3. \A d \in Dummies : thread[d] = "none"
    BY <2>1 DEF IInv, Common, PhaseA, Loaded
  <2>4. QED  BY <2>2, <2>3 DEF Is, Ready
<1>2. ASSUME Runs("Task_SB"), pc["Task_SB"] = "resume_high"
      PROVE  /\ thread["H_Task_SA"] = "suspended"
             /\ \A t \in Task \ {"I_Task", "Task_SB"} : Ready(t) <=> t \in load
  <2>1. PhaseB /\ B_Armed
    BY <1>2, SBPhase DEF Runs, Ready
  <2>2. thread["H_Task_SA"] = "suspended" /\ \A d \in load : thread[d] = "ready"
    BY <2>1 DEF B_Armed, Is, Loaded
  <2>3. thread["L_Task_SA"] = "dead" /\ \A d \in Dummies \ load : thread[d] = "none"
    BY <2>1 DEF IInv, Common, PhaseB
  <2>4. ASSUME NEW t \in Task \ {"I_Task", "Task_SB"} PROVE Ready(t) <=> t \in load
    <3>1. CASE t \in Dummies
      BY <2>2, <2>3, <3>1 DEF Ready
    <3>2. CASE t \in {"L_Task_SA", "H_Task_SA"}
      BY <2>2, <2>3, <3>2 DEF Ready, IInv, InType
    <3>3. QED  BY <3>1, <3>2
  <2>5. QED  BY <2>2, <2>4
<1>3. QED  BY <1>1, <1>2 DEF SameConditions

\* I_Task runs only between the scenarios.
LEMMA IInvControl == IInv => ControlWaits
<1> SUFFICES ASSUME IInv PROVE ControlWaits
  OBVIOUS
<1> USE Threads DEF MainTasks
<1>0. ASSUME Runs("I_Task") PROVE \A u \in Task : thread[u] = "ready" => u = "I_Task"
  <2>1. \A u \in Task \ {"I_Task"} : prio[u] \in Nat /\ ~ prio["I_Task"] <= prio[u]
    BY PrioAssumption
  <2>2. QED  BY <1>0, <2>1 DEF Runs, Ready
<1>1. ASSUME Runs("I_Task"), pc["I_Task"] = "abort_low_sa"
      PROVE  /\ samples["scenario_a"] = MEASUREMENT_COUNT
             /\ thread["L_Task_SA"] = "suspended" /\ thread["H_Task_SA"] = "suspended"
  <2>1. A_Over
    BY <1>0, <1>1, ControlPhase
  <2>2. QED  BY <1>0, <1>1, <2>1 DEF A_Over, Is
<1>2. ASSUME Runs("I_Task"), pc["I_Task"] = "signalize"
      PROVE  /\ samples["scenario_b"] = MEASUREMENT_COUNT
             /\ \A t \in load \cup {"H_Task_SA", "Task_SB"} : thread[t] = "suspended"
  <2>1. B_Over
    BY <1>0, <1>2, ControlPhase
  <2>2. QED  BY <1>0, <1>2, <2>1 DEF B_Over, Is, Loaded, IInv, InType
<1>3. QED  BY <1>1, <1>2 DEF ControlWaits

\* In an open window the measured resume has switched to H_Task_SA, or has not
\* switched away from Task_SB with every dummy ready.
THEOREM Isolation == Spec => []WindowIsolation
<1>1. QED  BY Invariance, IInvIsolation, PTL

\* The measured resume is never lost on a thread that is not suspended, and
\* finds nothing else ready but the dummies of scenario B.
THEOREM Conditions == Spec => []SameConditions
<1>1. QED  BY Invariance, IInvConditions, PTL

\* I_Task, which waits for nothing, still runs only when a series is complete.
THEOREM Control == Spec => []ControlWaits
<1>1. QED  BY Invariance, IInvControl, PTL

-----------------------------------------------------------------------------
(***************************************************************************)
(* The program takes the measurements that module Measurement specifies.   *)
(***************************************************************************)
\* A step opens the window of the series that is due, records a sample of the
\* open one, or leaves both alone.
LEMMA MeasurementStep == IInv /\ IInv' /\ [Next]_vars => [M!Next]_(M!mvars)
<1> SUFFICES ASSUME IInv, IInv', [Next]_vars PROVE [M!Next]_(M!mvars)
  OBVIOUS
<1> USE Threads DEF MainTasks
<1>i. InType
  BY DEF IInv
<1>1. CASE LowSA_ResumeHigh
  <2>1. PhaseA /\ A_Armed
    BY <1>1, <1>i, StepEffect, LowPhase DEF LowSA_ResumeHigh
  <2>2. M!Open("scenario_a")
    BY <1>1, <2>1 DEF LowSA_ResumeHigh, OpenWindow, M!Open, M!Due, A_Armed
  <2>3. QED  BY <2>2 DEF M!Next, M!Scenario
<1>2. CASE HighSA_Stop
  <2>1. A_Resumed
    BY <1>2, <1>i, StepEffect, HighPhase DEF HighSA_Stop
  <2>2. M!Record("scenario_a")
    BY <1>2, <2>1 DEF HighSA_Stop, RecordSample, M!Record, A_Resumed
  <2>3. QED  BY <2>2 DEF M!Next, M!Scenario
<1>3. CASE SB_ResumeHigh
  <2>1. PhaseB /\ B_Armed
    BY <1>3, <1>i, StepEffect, SBPhase DEF SB_ResumeHigh
  <2>2. M!Open("scenario_b")
    BY <1>3, <2>1 DEF SB_ResumeHigh, OpenWindow, M!Open, M!Due, PhaseB, B_Armed
  <2>3. QED  BY <2>2 DEF M!Next, M!Scenario
<1>4. CASE SB_Stop
  <2>1. B_Resumed
    BY <1>4, <1>i, StepEffect, SBPhase DEF SB_Stop
  <2>2. M!Record("scenario_b")
    BY <1>4, <2>1 DEF SB_Stop, RecordSample, M!Record, B_Resumed
  <2>3. QED  BY <2>2 DEF M!Next, M!Scenario
<1>5. CASE UNCHANGED <<window, samples>>
  BY <1>5 DEF M!mvars
<1>6. QED
  BY <1>1, <1>2, <1>3, <1>4, <1>5
  DEF Next, vars, Quiet, NoSample, LowSA_WaitStart, LowSA_SuspendHigh, HighSA_WaitStart,
      HighSA_Suspend, HighSA_End, SB_SuspendHigh, SB_Loop, I_CreateHighSA, I_CreateLowSA,
      I_PostStart, I_AbortLowSA, I_CreateSB, I_Signalize, Dummy_Suspend, SB_ResumeDummy,
      SB_SuspendDummy, I_CreateDummySB, I_Create, I_Abort

\* Every behaviour is one of Measurement: the safety half of Measures.
THEOREM Refinement == Spec => M!Init /\ [][M!Next]_(M!mvars)
<1>1. Init => M!Init
  BY DEF Init, M!Init, M!Scenario
<1>2. QED  BY <1>1, Invariance, MeasurementStep, PTL DEF Spec
=============================================================================
