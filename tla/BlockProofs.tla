----------------------------- MODULE BlockProofs -----------------------------
(***************************************************************************)
(* Theorems about Block, for both primitives, every number of iterations,  *)
(* every pool of dummies and every assignment of priorities that has the   *)
(* order which the sources ask for.                                        *)
(***************************************************************************)
EXTENDS Block, TLAPS

USE DEF START, YIELD, A, B, test_sem

Series == {"scenario_a", "scenario_b"}

InType ==
    /\ KernelTypeOK
    /\ pc \in [Task -> Labels]
    /\ i \in 0..(MEASUREMENT_COUNT - 1)
    /\ window \in Series \cup {"closed"}
    /\ samples \in [Series -> Nat]
    /\ primitive \in {"sem", "event"}
    /\ load \subseteq Dummies

-----------------------------------------------------------------------------
(***************************************************************************)
(* The inductive invariant follows I_Task through the test, as in          *)
(* SemPreemptProofs.  Here the window of scenario A is opened by the       *)
(* thread that blocks and closed by the one that runs on, so that the      *)
(* first window stays open while I_Task runs, and L_Task_SA, whose loop    *)
(* begins with the stop marker, is always one sample ahead of I_Task.      *)
(***************************************************************************)
Is(t, state, label) == thread[t] = state /\ pc[t] = label

\* The dummies wait; all of them, or those that the last post has not just
\* woken.
Pended == \A d \in load : thread[d] = A
Woken == \A d \in load : thread[d] \in {"ready", A}

\* What holds at every label: no call ever finds the semaphore given.
Common ==
    /\ thread["I_Task"] = "ready"
    /\ \A d \in Dummies : pc[d] = "wait" /\ (d \notin load => thread[d] = "none")
    /\ primitive = "sem" => load = {}
    /\ count[test_sem] = 0

\* H_Task_SA pends on the call that is measured.
HighPends == Is("H_Task_SA", measured, "wait")

-----------------------------------------------------------------------------
\* Scenario A until START is posted: the dummies and H_Task_SA wait, and
\* L_Task_SA records a sample that no window has opened.
A_Setup ==
    /\ window = "closed" /\ i = 0
    /\ \/ /\ Is("L_Task_SA", "none", "stop") /\ samples["scenario_a"] = 0 /\ events = {}
          /\ \/ /\ pc["I_Task"] = "create_high_sa"
                /\ Is("H_Task_SA", "none", "wait_start")
                /\ \A d \in load : thread[d] \in {"none", "ready", A}
             \/ /\ pc["I_Task"] = "create_low_sa" /\ Pended
                /\ Is("H_Task_SA", "ready", "wait_start") \/ Is("H_Task_SA", START, "wait")
       \/ /\ pc["I_Task"] = "post_start_sa" /\ Pended
          /\ Is("H_Task_SA", START, "wait")
          /\ \/ Is("L_Task_SA", "ready", "stop") /\ samples["scenario_a"] = 0 /\ events = {}
             \/ /\ Is("L_Task_SA", "ready", "suspend") \/ Is("L_Task_SA", "suspended", "post")
                /\ samples["scenario_a"] = 1 /\ events = {YIELD}

\* The number of switches of scenario A that I_Task has asked for.
RoundA == IF pc["I_Task"] = "abort_low_sa" THEN MEASUREMENT_COUNT ELSE i

A_Pace ==
    \/ pc["I_Task"] \in {"wait_sa", "resume_sa"} /\ i < MEASUREMENT_COUNT
    \/ pc["I_Task"] = "abort_low_sa" /\ i = 0

\* START has been posted and H_Task_SA is about to block for the first time.
A_First ==
    /\ pc["I_Task"] = "wait_sa" /\ i = 0
    /\ window = "closed" /\ samples["scenario_a"] = 1
    /\ Is("H_Task_SA", "ready", "wait") /\ Pended
    /\ Is("L_Task_SA", "suspended", "post") /\ events = {YIELD}

\* L_Task_SA has been resumed and is about to release H_Task_SA.
A_Armed ==
    /\ pc["I_Task"] # "resume_sa" /\ RoundA > 0
    /\ samples["scenario_a"] = RoundA
    /\ HighPends /\ Pended
    /\ Is("L_Task_SA", "ready", "post") /\ events = {}

\* The give or the post has switched: first the dummies, then H_Task_SA run.
A_Released ==
    /\ pc["I_Task"] # "resume_sa" /\ RoundA > 0
    /\ samples["scenario_a"] = RoundA
    /\ Is("H_Task_SA", "ready", "wait") /\ Woken
    /\ Is("L_Task_SA", "ready", "stop") /\ events = {}

\* H_Task_SA has opened its window and blocked: the switch that is measured.
A_Blocked ==
    /\ pc["I_Task"] # "resume_sa" /\ RoundA > 0
    /\ window = "scenario_a" /\ samples["scenario_a"] = RoundA
    /\ HighPends /\ Pended
    /\ Is("L_Task_SA", "ready", "stop") /\ events = {}

\* The sample is recorded and L_Task_SA has not suspended itself yet.
A_Recorded ==
    /\ pc["I_Task"] # "resume_sa" /\ RoundA > 0
    /\ window = "closed" /\ samples["scenario_a"] = RoundA + 1
    /\ HighPends /\ Pended
    /\ Is("L_Task_SA", "ready", "suspend") /\ events = {YIELD}

\* All threads of the scenario are parked: I_Task runs.  Only the window that
\* followed START is open meanwhile.
A_Parked ==
    /\ RoundA > 0 => window = "closed"
    /\ samples["scenario_a"] = RoundA + 1
    /\ HighPends /\ Pended
    /\ Is("L_Task_SA", "suspended", "post")
    /\ events = IF pc["I_Task"] = "resume_sa" THEN {} ELSE {YIELD}

A_Loop ==
    A_Pace /\ (A_First \/ A_Armed \/ A_Released \/ A_Blocked \/ A_Recorded \/ A_Parked)

\* Scenario A is being dismantled; the last YIELD is left unconsumed.
A_End ==
    /\ window = "closed" /\ i = 0 /\ samples["scenario_a"] = MEASUREMENT_COUNT + 1
    /\ events = {YIELD}
    /\ thread["L_Task_SA"] = "dead"
    /\ \/ pc["I_Task"] = "abort_high_sa" /\ HighPends /\ Pended
       \/ /\ pc["I_Task"] = "clear"
          /\ thread["H_Task_SA"] = "dead"
          /\ \A d \in load : thread[d] \in {A, "dead"}

PhaseA ==
    /\ Is("H_Task_SB", "none", "wait_start")
    /\ window # "scenario_b" /\ samples["scenario_b"] = 0
    /\ A_Setup \/ A_Loop \/ A_End

-----------------------------------------------------------------------------
\* Scenario B until START is posted; the YIELD of scenario A is still posted.
B_Setup ==
    /\ window = "closed" /\ i = 0 /\ samples["scenario_b"] = 0 /\ events = {YIELD}
    /\ \/ pc["I_Task"] = "create_high_sb" /\ Is("H_Task_SB", "none", "wait_start")
       \/ /\ pc["I_Task"] = "post_start_sb"
          /\ Is("H_Task_SB", "ready", "wait_start") \/ Is("H_Task_SB", START, "wait")

\* The number of windows of scenario B that START and I_Task have asked for.
RoundB == IF pc["I_Task"] = "signalize" THEN MEASUREMENT_COUNT ELSE i + 1

Between == pc["I_Task"] \in {"reset_sb", "resume_sb"}

B_Pace ==
    \/ (Between \/ pc["I_Task"] = "wait_sb") /\ i + 1 < MEASUREMENT_COUNT
    \/ pc["I_Task"] = "signalize" /\ i = 0

\* H_Task_SB is about to open its window.
B_Armed ==
    /\ ~Between
    /\ window = "closed" /\ samples["scenario_b"] + 1 = RoundB
    /\ Is("H_Task_SB", "ready", "wait") /\ events \subseteq {YIELD}

\* The call has returned at once.
B_Tried ==
    /\ ~Between
    /\ window = "scenario_b" /\ samples["scenario_b"] + 1 = RoundB
    /\ Is("H_Task_SB", "ready", "stop") /\ events \subseteq {YIELD}

\* The sample is recorded and H_Task_SB has not suspended itself yet.
B_Recorded ==
    /\ ~Between
    /\ window = "closed" /\ samples["scenario_b"] = RoundB
    /\ Is("H_Task_SB", "ready", "suspend") /\ events = {YIELD}

\* H_Task_SB is parked: I_Task runs.
B_Parked ==
    /\ window = "closed" /\ samples["scenario_b"] = RoundB
    /\ Is("H_Task_SB", "suspended", "wait")
    /\ events = IF Between THEN {} ELSE {YIELD}

B_Loop == B_Pace /\ (B_Armed \/ B_Tried \/ B_Recorded \/ B_Parked)

PhaseB ==
    /\ \A t \in load \cup {"L_Task_SA", "H_Task_SA"} : thread[t] = "dead"
    /\ samples["scenario_a"] = MEASUREMENT_COUNT + 1
    /\ B_Setup \/ B_Loop

IInv == InType /\ Common /\ (PhaseA \/ PhaseB)


-----------------------------------------------------------------------------
\* The named threads are threads, and no dummy is one of them.
LEMMA Threads ==
    /\ "I_Task" \in Task /\ "L_Task_SA" \in Task /\ "H_Task_SA" \in Task /\ "H_Task_SB" \in Task
    /\ \A d \in Dummies : d \in Task /\ d \notin MainTasks
    /\ \A t \in Task : t \in MainTasks \/ t \in Dummies
BY TaskAssumption DEF Task, MainTasks

\* The kernel operations keep the kernel's state well typed.
LEMMA KernelTyping ==
    ASSUME KernelTypeOK, NEW t \in Task, NEW e \in {START, YIELD, A, B},
           \/ Create(t) \/ Abort(t) \/ Suspend(t) \/ Resume(t)
           \/ SemTake(t, test_sem) \/ SemTry(test_sem) \/ SemGive(test_sem) \/ SemReset(test_sem)
           \/ EventWait(t, e) \/ EventTry(e) \/ EventClear(e) \/ EventPost(e) \/ NoCall
    PROVE  KernelTypeOK'
<1> USE CountAssumption DEF KernelTypeOK, ThreadState
<1>1. CASE Create(t)  BY <1>1 DEF Create
<1>2. CASE Abort(t)  BY <1>2 DEF Abort
<1>3. CASE Suspend(t)  BY <1>3 DEF Suspend
<1>4. CASE Resume(t)  BY <1>4 DEF Resume
<1>5. CASE SemTake(t, test_sem)  BY <1>5 DEF SemTake
<1>6. CASE SemTry(test_sem)  BY <1>6 DEF SemTry
<1>7. CASE SemGive(test_sem)  BY <1>7 DEF SemGive
<1>8. CASE SemReset(test_sem)  BY <1>8 DEF SemReset
<1>9. CASE EventWait(t, e)  BY <1>9 DEF EventWait
<1>10. CASE EventTry(e) \/ EventClear(e)  BY <1>10 DEF EventTry, EventClear
<1>11. CASE EventPost(e)  BY <1>11 DEF EventPost
<1>12. CASE NoCall  BY <1>12 DEF NoCall, kvars
<1>13. QED
  BY <1>1, <1>2, <1>3, <1>4, <1>5, <1>6, <1>7, <1>8, <1>9, <1>10, <1>11, <1>12

\* The initial states are well typed.
LEMMA TypeInit == Init => InType
<1>1. SUFFICES ASSUME Init PROVE InType
  OBVIOUS
<1>2. KernelTypeOK
  BY <1>1 DEF Init, KernelTypeOK, ThreadState
<1>3. pc \in [Task -> Labels]
  BY <1>1 DEF Init, Labels, Task, MainTasks
<1>4. i \in 0..(MEASUREMENT_COUNT - 1)
  BY <1>1, CountAssumption DEF Init
<1>5. QED  BY <1>1, <1>2, <1>3, <1>4 DEF Init, InType, Series

\* Every step keeps the state well typed.
LEMMA TypeStep == InType /\ [Next]_vars => InType'
<1> SUFFICES ASSUME InType, [Next]_vars PROVE InType'
  OBVIOUS
<1> USE CountAssumption DEF Step, Quiet, NoSample, OpenWindow, RecordSample, build, InType,
        Labels, Series
<1>t. MainTasks \subseteq Task /\ Dummies \subseteq Task
  BY DEF Task
<1> USE DEF MainTasks
<1>1. CASE LowSA_Stop  BY <1>1, <1>t, KernelTyping DEF LowSA_Stop
<1>2. CASE LowSA_Suspend  BY <1>2, <1>t, KernelTyping DEF LowSA_Suspend
<1>3. CASE LowSA_Give  BY <1>3, <1>t, KernelTyping DEF LowSA_Give
<1>4. CASE LowSA_Post  BY <1>4, <1>t, KernelTyping DEF LowSA_Post
<1>5. CASE HighSA_WaitStart  BY <1>5, <1>t, KernelTyping DEF HighSA_WaitStart
<1>6. CASE HighSA_Take  BY <1>6, <1>t, KernelTyping DEF HighSA_Take
<1>7. CASE HighSA_Wait  BY <1>7, <1>t, KernelTyping DEF HighSA_Wait
<1>8. CASE HighSB_WaitStart  BY <1>8, <1>t, KernelTyping DEF HighSB_WaitStart
<1>9. CASE HighSB_Take  BY <1>9, <1>t, KernelTyping DEF HighSB_Take
<1>10. CASE HighSB_Wait  BY <1>10, <1>t, KernelTyping DEF HighSB_Wait
<1>11. CASE HighSB_Stop  BY <1>11, <1>t, KernelTyping DEF HighSB_Stop
<1>12. CASE HighSB_Suspend  BY <1>12, <1>t, KernelTyping DEF HighSB_Suspend
<1>13. CASE \E d \in Dummies : Dummy_Wait(d)  BY <1>13, <1>t, KernelTyping DEF Dummy_Wait
<1>14. CASE I_CreateHighSA  BY <1>14, <1>t, KernelTyping DEF I_CreateHighSA, I_Create
<1>15. CASE I_CreateLowSA  BY <1>15, <1>t, KernelTyping DEF I_CreateLowSA, I_Create
<1>16. CASE I_PostStartSA  BY <1>16, <1>t, KernelTyping DEF I_PostStartSA, I_PostStart
<1>17. CASE I_WaitSA  BY <1>17, <1>t, KernelTyping DEF I_WaitSA
<1>18. CASE I_ResumeSA  BY <1>18, <1>t, KernelTyping DEF I_ResumeSA, I_Resume
<1>19. CASE I_AbortLowSA  BY <1>19, <1>t, KernelTyping DEF I_AbortLowSA, I_Abort
<1>20. CASE I_AbortHighSA  BY <1>20, <1>t, KernelTyping DEF I_AbortHighSA, I_Abort
<1>21. CASE I_ResetSA  BY <1>21, <1>t, KernelTyping DEF I_ResetSA
<1>22. CASE I_Clear  BY <1>22, <1>t, KernelTyping DEF I_Clear
<1>23. CASE I_CreateHighSB  BY <1>23, <1>t, KernelTyping DEF I_CreateHighSB, I_Create
<1>24. CASE I_PostStartSB  BY <1>24, <1>t, KernelTyping DEF I_PostStartSB, I_PostStart
<1>25. CASE I_WaitSB  BY <1>25, <1>t, KernelTyping DEF I_WaitSB
<1>26. CASE I_ResetSB  BY <1>26, <1>t, KernelTyping DEF I_ResetSB
<1>27. CASE I_ResumeSB  BY <1>27, <1>t, KernelTyping DEF I_ResumeSB, I_Resume
<1>28. CASE I_Signalize  BY <1>28, <1>t, KernelTyping DEF I_Signalize
<1>29. CASE \E d \in Dummies : I_CreateDummySA(d)
  BY <1>29, <1>t, KernelTyping DEF I_CreateDummySA, I_Create
<1>30. CASE \E d \in Dummies : I_AbortDummySA(d)
  BY <1>30, <1>t, KernelTyping DEF I_AbortDummySA, I_Abort
<1>31. CASE UNCHANGED vars
  BY <1>31 DEF vars, KernelTypeOK
<1>32. QED
  BY <1>1, <1>2, <1>3, <1>4, <1>5, <1>6, <1>7, <1>8, <1>9, <1>10, <1>11, <1>12, <1>13,
     <1>14, <1>15, <1>16, <1>17, <1>18, <1>19, <1>20, <1>21, <1>22, <1>23, <1>24, <1>25,
     <1>26, <1>27, <1>28, <1>29, <1>30, <1>31
  DEF Next, ThreadStep, ControlStep

\* What Step and the kernel operations do, thread by thread.
LEMMA StepEffect ==
    ASSUME InType, NEW t \in Task, NEW l, NEW m, Step(t, l, m)
    PROVE  /\ thread[t] = "ready" /\ pc[t] = l
           /\ \A u \in Task : thread[u] = "ready" => prio[t] <= prio[u]
           /\ \A u \in Task : pc'[u] = IF u = t THEN m ELSE pc[u]
           /\ primitive' = primitive /\ load' = load
BY DEF InType, Step, Runs, Ready, build

\* I_Task runs only when nothing else is ready.
LEMMA ControlEffect ==
    ASSUME InType, NEW l, NEW m, Step("I_Task", l, m)
    PROVE  /\ thread["I_Task"] = "ready" /\ pc["I_Task"] = l
           /\ \A u \in Task : thread[u] = "ready" => u = "I_Task"
           /\ \A u \in Task : pc'[u] = IF u = "I_Task" THEN m ELSE pc[u]
           /\ primitive' = primitive /\ load' = load
BY StepEffect, PrioAssumption, Threads

\* k_thread_create() makes one unborn thread ready.
LEMMA CreateEffect ==
    ASSUME InType, NEW t \in Task, Create(t)
    PROVE  /\ thread[t] = "none" /\ events' = events /\ count' = count
           /\ \A u \in Task : thread'[u] = IF u = t THEN "ready" ELSE thread[u]
BY DEF InType, KernelTypeOK, Create

\* k_thread_abort() ends one thread.
LEMMA AbortEffect ==
    ASSUME InType, NEW t \in Task, Abort(t)
    PROVE  /\ events' = events /\ count' = count
           /\ \A u \in Task : thread'[u] = IF u = t THEN "dead" ELSE thread[u]
BY DEF InType, KernelTypeOK, Abort

\* k_thread_suspend() suspends one thread.
LEMMA SuspendEffect ==
    ASSUME InType, NEW t \in Task, Suspend(t)
    PROVE  /\ events' = events /\ count' = count
           /\ \A u \in Task : thread'[u] = IF u = t THEN "suspended" ELSE thread[u]
BY DEF InType, KernelTypeOK, Suspend

\* k_thread_resume() of a suspended thread makes it ready.
LEMMA ResumeEffect ==
    ASSUME InType, NEW t \in Task, Resume(t), thread[t] = "suspended"
    PROVE  /\ events' = events /\ count' = count
           /\ \A u \in Task : thread'[u] = IF u = t THEN "ready" ELSE thread[u]
BY DEF InType, KernelTypeOK, Resume

\* k_sem_take() of an empty semaphore pends the caller.
LEMMA TakeEffect ==
    ASSUME InType, NEW t \in Task, SemTake(t, test_sem), count[test_sem] = 0
    PROVE  /\ \A u \in Task : thread'[u] = IF u = t THEN test_sem ELSE thread[u]
           /\ events' = events /\ count' = count
BY DEF InType, KernelTypeOK, SemTake

\* k_sem_give() with one waiter makes it ready.
LEMMA GiveEffect ==
    ASSUME InType, NEW t \in Task, \A u \in Task : thread[u] = test_sem <=> u = t,
           SemGive(test_sem)
    PROVE  /\ \A u \in Task : thread'[u] = IF u = t THEN "ready" ELSE thread[u]
           /\ events' = events /\ count' = count
BY DEF InType, KernelTypeOK, SemGive, IsHead, Waiters

\* k_sem_take() with K_NO_WAIT changes nothing when the semaphore is empty.
LEMMA TryEffect ==
    ASSUME InType, SemTry(test_sem), count[test_sem] = 0
    PROVE  thread' = thread /\ events' = events /\ count'[test_sem] = 0
BY DEF InType, KernelTypeOK, SemTry

\* k_sem_reset() with an empty wait queue only clears the count.
LEMMA ResetEffect ==
    ASSUME InType, SemReset(test_sem), \A t \in Task : thread[t] # test_sem
    PROVE  /\ \A u \in Task : thread'[u] = thread[u]
           /\ events' = events /\ count'[test_sem] = 0
BY DEF InType, KernelTypeOK, SemReset

\* k_event_wait_safe() consumes the bit or pends the caller.
LEMMA WaitEffect ==
    ASSUME InType, NEW t \in Task, NEW e, EventWait(t, e)
    PROVE  /\ \A u \in Task : thread'[u] = IF u = t /\ e \notin events THEN e ELSE thread[u]
           /\ events' = events \ {e} /\ count' = count
BY DEF InType, KernelTypeOK, EventWait

\* k_event_post() wakes every waiter of the bit, or leaves it posted.
LEMMA PostEffect ==
    ASSUME InType, NEW e, EventPost(e)
    PROVE  /\ \A u \in Task : thread'[u] = IF thread[u] = e THEN "ready" ELSE thread[u]
           /\ events' = IF \E u \in Task : thread[u] = e THEN events \ {e} ELSE events \cup {e}
           /\ count' = count
BY DEF InType, KernelTypeOK, EventPost, Waiters

\* A thread that pends is not ready.
LEMMA PendsEffect == HighPends => thread["H_Task_SA"] # "ready" /\ pc["H_Task_SA"] = "wait"
BY DEF HighPends, measured, Is

\* When H_Task_SA runs, scenario A is set up or a window is about to be opened.
LEMMA HighPhase ==
    ASSUME IInv, thread["H_Task_SA"] = "ready"
    PROVE  /\ PhaseA
           /\ pc["H_Task_SA"] = "wait_start" => A_Setup /\ events = {}
           /\ pc["H_Task_SA"] = "wait" => A_Pace /\ (A_First \/ A_Released)
<1>1. PhaseA
  BY DEF IInv, PhaseB
<1>2. A_Setup => pc["H_Task_SA"] = "wait_start" /\ events = {}
  BY DEF A_Setup, Is
<1>3. A_Loop => A_Pace /\ (A_First \/ A_Released)
  BY PendsEffect DEF A_Loop, A_Armed, A_Blocked, A_Recorded, A_Parked
<1>4. A_First \/ A_Released => pc["H_Task_SA"] = "wait"
  BY DEF A_First, A_Released, Is
<1>5. ~A_End
  BY PendsEffect DEF A_End
<1>6. QED  BY <1>1, <1>2, <1>3, <1>4, <1>5 DEF PhaseA

\* When I_Task runs, its label tells where the scenario is.
LEMMA ControlPhase ==
    ASSUME IInv, \A u \in Task : thread[u] = "ready" => u = "I_Task"
    PROVE  /\ pc["I_Task"] \in {"create_high_sa", "create_low_sa", "post_start_sa"} =>
                 PhaseA /\ A_Setup
           /\ pc["I_Task"] \in {"wait_sa", "resume_sa", "abort_low_sa"} =>
                 PhaseA /\ A_Pace /\ A_Parked
           /\ pc["I_Task"] \in {"abort_high_sa", "clear"} => PhaseA /\ A_End
           /\ pc["I_Task"] \in {"create_high_sb", "post_start_sb"} => PhaseB /\ B_Setup
           /\ pc["I_Task"] \in {"wait_sb", "reset_sb", "resume_sb", "signalize"} =>
                 PhaseB /\ B_Pace /\ B_Parked
<1>1. A_Setup => pc["I_Task"] \in {"create_high_sa", "create_low_sa", "post_start_sa"}
  BY DEF A_Setup
<1>2. A_Loop => pc["I_Task"] \in {"wait_sa", "resume_sa", "abort_low_sa"} /\ A_Pace /\ A_Parked
  BY Threads DEF A_Loop, A_Pace, A_First, A_Armed, A_Released, A_Blocked, A_Recorded, Is
<1>3. A_End => pc["I_Task"] \in {"abort_high_sa", "clear"}
  BY DEF A_End
<1>4. B_Setup => pc["I_Task"] \in {"create_high_sb", "post_start_sb"}
  BY DEF B_Setup
<1>5. B_Loop => /\ pc["I_Task"] \in {"wait_sb", "reset_sb", "resume_sb", "signalize"}
                /\ B_Pace /\ B_Parked
  BY Threads DEF B_Loop, B_Pace, Between, B_Armed, B_Tried, B_Recorded, Is
<1>6. QED  BY <1>1, <1>2, <1>3, <1>4, <1>5 DEF IInv, PhaseA, PhaseB

\* The inductive invariant holds when main() has returned.
LEMMA IInvInit == Init => IInv
<1> SUFFICES ASSUME Init PROVE IInv
  OBVIOUS
<1>1. Common
  BY TaskAssumption DEF Init, Common, Task, MainTasks
<1>2. A_Setup /\ Is("H_Task_SB", "none", "wait_start")
  BY TaskAssumption DEF Init, A_Setup, Is, Task, MainTasks
<1>3. QED  BY <1>1, <1>2, TypeInit DEF Init, IInv, PhaseA

\* Every step keeps the inductive invariant.
LEMMA IInvStep == IInv /\ [Next]_vars => IInv'
<1> SUFFICES ASSUME IInv, [Next]_vars PROVE IInv'
  OBVIOUS
<1>t. InType /\ InType' /\ count[test_sem] = 0
  BY TypeStep DEF IInv, Common
<1>1. CASE LowSA_Stop
  <2>1. /\ Step("L_Task_SA", "stop", "suspend")
        /\ EventPost(YIELD)
        /\ samples'["scenario_a"] = samples["scenario_a"] + 1
        /\ samples'["scenario_b"] = samples["scenario_b"]
        /\ window' = "closed" /\ i' = i
    BY <1>t, <1>1 DEF LowSA_Stop, RecordSample, InType, Series
  <2>2. /\ thread["L_Task_SA"] = "ready" /\ pc["L_Task_SA"] = "stop"
        /\ \A u \in Task : thread[u] = "ready" => prio["L_Task_SA"] <= prio[u]
        /\ \A u \in Task : pc'[u] = IF u = "L_Task_SA" THEN "suspend" ELSE pc[u]
        /\ primitive' = primitive /\ load' = load
    BY <1>t, <2>1, StepEffect, Threads
  <2>3. PhaseA /\ ((A_Setup /\ events = {}) \/ (A_Pace /\ A_Blocked))
    BY <2>2, PrioAssumption, Threads
    DEF IInv, PhaseA, PhaseB, A_Setup, A_Loop, A_Pace, A_First, A_Armed, A_Released,
        A_Blocked, A_Recorded, A_Parked, A_End, HighPends, measured, Is
  <2>4. /\ \A u \in Task : thread'[u] = thread[u]
        /\ events' = {YIELD} /\ count' = count
    <3>1. \A u \in Task : thread[u] # YIELD
      BY <1>t, <2>1, <2>2, <2>3, Threads
      DEF IInv, Common, InType, PhaseA, A_Setup, A_Blocked, HighPends, measured, Pended,
          Is, MainTasks
    <3>2. QED  BY <1>t, <2>1, <2>3, <3>1, PostEffect DEF A_Blocked
  <2>5. Common' /\ Is("H_Task_SB", "none", "wait_start")'
    BY <1>t, <2>2, <2>3, <2>4, Threads DEF IInv, Common, InType, PhaseA, Is, MainTasks
  <2>6. A_Setup' \/ (A_Pace' /\ A_Recorded')
    <3>1. CASE A_Setup /\ events = {}
      BY <1>t, <2>1, <2>2, <2>3, <2>4, <3>1, Threads, CountAssumption
      DEF A_Setup, Pended, InType, Is, MainTasks
    <3>2. CASE A_Pace /\ A_Blocked
      BY <1>t, <2>1, <2>2, <2>3, <2>4, <3>2, Threads, CountAssumption
      DEF A_Pace, RoundA, A_Blocked, A_Recorded, HighPends, measured, Pended, InType, Is,
          MainTasks
    <3>3. QED  BY <2>3, <3>1, <3>2
  <2>7. QED
    BY <1>t, <2>1, <2>3, <2>5, <2>6 DEF IInv, PhaseA, A_Loop
<1>2. CASE LowSA_Suspend
  <2>1. /\ Step("L_Task_SA", "suspend", "post")
        /\ Suspend("L_Task_SA")
        /\ window' = window /\ samples' = samples /\ i' = i
    BY <1>t, <1>2 DEF LowSA_Suspend, Quiet, NoSample
  <2>2. /\ thread["L_Task_SA"] = "ready" /\ pc["L_Task_SA"] = "suspend"
        /\ \A u \in Task : thread[u] = "ready" => prio["L_Task_SA"] <= prio[u]
        /\ \A u \in Task : pc'[u] = IF u = "L_Task_SA" THEN "post" ELSE pc[u]
        /\ primitive' = primitive /\ load' = load
    BY <1>t, <2>1, StepEffect, Threads
  <2>3. PhaseA /\ (A_Setup \/ (A_Pace /\ A_Recorded))
    BY <2>2, PrioAssumption, Threads
    DEF IInv, PhaseA, PhaseB, A_Setup, A_Loop, A_Pace, A_First, A_Armed, A_Released,
        A_Blocked, A_Recorded, A_Parked, A_End, HighPends, measured, Is
  <2>4. /\ \A u \in Task : thread'[u] = IF u = "L_Task_SA" THEN "suspended" ELSE thread[u]
        /\ events' = events /\ count' = count
    BY <1>t, <2>1, SuspendEffect, Threads
  <2>5. Common' /\ Is("H_Task_SB", "none", "wait_start")'
    BY <1>t, <2>2, <2>3, <2>4, Threads DEF IInv, Common, InType, PhaseA, Is, MainTasks
  <2>6. A_Setup' \/ (A_Pace' /\ A_Parked')
    <3>1. CASE A_Setup
      BY <1>t, <2>1, <2>2, <2>3, <2>4, <3>1, Threads, CountAssumption
      DEF A_Setup, Pended, InType, Is, MainTasks
    <3>2. CASE A_Pace /\ A_Recorded
      BY <1>t, <2>1, <2>2, <2>3, <2>4, <3>2, Threads, CountAssumption
      DEF A_Pace, RoundA, A_Recorded, A_Parked, HighPends, measured, Pended, InType, Is,
          MainTasks
    <3>3. QED  BY <2>3, <3>1, <3>2
  <2>7. QED
    BY <1>t, <2>1, <2>3, <2>5, <2>6 DEF IInv, PhaseA, A_Loop
<1>3. CASE LowSA_Give
  <2>1. /\ Step("L_Task_SA", "post", "stop")
        /\ SemGive(test_sem)
        /\ window' = window /\ samples' = samples /\ i' = i
        /\ primitive = "sem"
    BY <1>t, <1>3 DEF LowSA_Give, Quiet, NoSample
  <2>2. /\ thread["L_Task_SA"] = "ready" /\ pc["L_Task_SA"] = "post"
        /\ \A u \in Task : thread[u] = "ready" => prio["L_Task_SA"] <= prio[u]
        /\ \A u \in Task : pc'[u] = IF u = "L_Task_SA" THEN "stop" ELSE pc[u]
        /\ primitive' = primitive /\ load' = load
    BY <1>t, <2>1, StepEffect, Threads
  <2>3. PhaseA /\ A_Pace /\ A_Armed
    BY <2>2, PrioAssumption, Threads
    DEF IInv, PhaseA, PhaseB, A_Setup, A_Loop, A_Pace, A_First, A_Armed, A_Released,
        A_Blocked, A_Recorded, A_Parked, A_End, HighPends, measured, Is
  <2>4. /\ \A u \in Task : thread'[u] = IF u = "H_Task_SA" THEN "ready" ELSE thread[u]
        /\ events' = events /\ count' = count
    <3>1. \A u \in Task : thread[u] = test_sem <=> u = "H_Task_SA"
      BY <2>1, <2>2, <2>3, Threads
      DEF IInv, Common, PhaseA, A_Armed, HighPends, measured, Is, MainTasks
    <3>2. QED  BY <1>t, <2>1, <3>1, GiveEffect, Threads
  <2>5. Common' /\ Is("H_Task_SB", "none", "wait_start")'
    BY <1>t, <2>2, <2>3, <2>4, Threads DEF IInv, Common, InType, PhaseA, Is, MainTasks
  <2>6. A_Pace' /\ A_Released'
    BY <1>t, <2>1, <2>2, <2>3, <2>4, Threads, CountAssumption
    DEF A_Pace, RoundA, A_Armed, A_Released, HighPends, Pended, Woken, InType, Is, MainTasks
  <2>7. QED
    BY <1>t, <2>1, <2>3, <2>5, <2>6 DEF IInv, PhaseA, A_Loop
<1>4. CASE LowSA_Post
  <2>1. /\ Step("L_Task_SA", "post", "stop")
        /\ EventPost(A)
        /\ window' = window /\ samples' = samples /\ i' = i
        /\ primitive = "event"
    BY <1>t, <1>4 DEF LowSA_Post, Quiet, NoSample
  <2>2. /\ thread["L_Task_SA"] = "ready" /\ pc["L_Task_SA"] = "post"
        /\ \A u \in Task : thread[u] = "ready" => prio["L_Task_SA"] <= prio[u]
        /\ \A u \in Task : pc'[u] = IF u = "L_Task_SA" THEN "stop" ELSE pc[u]
        /\ primitive' = primitive /\ load' = load
    BY <1>t, <2>1, StepEffect, Threads
  <2>3. PhaseA /\ A_Pace /\ A_Armed /\ events = {}
    BY <2>2, PrioAssumption, Threads
    DEF IInv, PhaseA, PhaseB, A_Setup, A_Loop, A_Pace, A_First, A_Armed, A_Released,
        A_Blocked, A_Recorded, A_Parked, A_End, HighPends, measured, Is
  <2>4. /\ \A u \in Task :
              thread'[u] = IF u = "H_Task_SA" \/ u \in load THEN "ready" ELSE thread[u]
        /\ events' = {} /\ count' = count
    <3>1. \A u \in Task : thread[u] = A <=> u = "H_Task_SA" \/ u \in load
      BY <1>t, <2>1, <2>2, <2>3, Threads
      DEF IInv, Common, InType, PhaseA, A_Armed, HighPends, measured, Pended, Is,
          MainTasks
    <3>2. QED  BY <1>t, <2>1, <2>3, <3>1, PostEffect, Threads
  <2>5. Common' /\ Is("H_Task_SB", "none", "wait_start")'
    BY <1>t, <2>2, <2>3, <2>4, Threads DEF IInv, Common, InType, PhaseA, Is, MainTasks
  <2>6. A_Pace' /\ A_Released'
    BY <1>t, <2>1, <2>2, <2>3, <2>4, Threads, CountAssumption
    DEF A_Pace, RoundA, A_Armed, A_Released, HighPends, Pended, Woken, InType, Is, MainTasks
  <2>7. QED
    BY <1>t, <2>1, <2>3, <2>5, <2>6 DEF IInv, PhaseA, A_Loop
<1>5. CASE HighSA_WaitStart
  <2>1. /\ Step("H_Task_SA", "wait_start", "wait")
        /\ EventWait("H_Task_SA", START)
        /\ window' = window /\ samples' = samples /\ i' = i
    BY <1>t, <1>5 DEF HighSA_WaitStart, Quiet, NoSample
  <2>2. /\ thread["H_Task_SA"] = "ready" /\ pc["H_Task_SA"] = "wait_start"
        /\ \A u \in Task : thread[u] = "ready" => prio["H_Task_SA"] <= prio[u]
        /\ \A u \in Task : pc'[u] = IF u = "H_Task_SA" THEN "wait" ELSE pc[u]
        /\ primitive' = primitive /\ load' = load
    BY <1>t, <2>1, StepEffect, Threads
  <2>3. PhaseA /\ A_Setup /\ events = {}
    BY <2>2, HighPhase
  <2>4. /\ \A u \in Task : thread'[u] = IF u = "H_Task_SA" THEN START ELSE thread[u]
        /\ events' = events /\ count' = count
    BY <1>t, <2>1, <2>3, WaitEffect, Threads
  <2>5. Common' /\ Is("H_Task_SB", "none", "wait_start")'
    BY <1>t, <2>2, <2>3, <2>4, Threads DEF IInv, Common, InType, PhaseA, Is, MainTasks
  <2>6. A_Setup'
    BY <1>t, <2>1, <2>2, <2>3, <2>4, Threads, CountAssumption
    DEF A_Setup, Pended, InType, Is, MainTasks
  <2>7. QED
    BY <1>t, <2>1, <2>3, <2>5, <2>6 DEF IInv, PhaseA, A_Loop
<1>6. CASE HighSA_Take
  <2>1. /\ Step("H_Task_SA", "wait", "wait")
        /\ SemTake("H_Task_SA", test_sem)
        /\ window' = "scenario_a" /\ samples' = samples /\ i' = i
        /\ primitive = "sem"
    BY <1>t, <1>6 DEF HighSA_Take, OpenWindow
  <2>2. /\ thread["H_Task_SA"] = "ready" /\ pc["H_Task_SA"] = "wait"
        /\ \A u \in Task : thread[u] = "ready" => prio["H_Task_SA"] <= prio[u]
        /\ \A u \in Task : pc'[u] = pc[u]
        /\ primitive' = primitive /\ load' = load
    BY <1>t, <2>1, StepEffect, Threads
  <2>3. PhaseA /\ A_Pace /\ (A_First \/ A_Released) /\ Pended
    <3>1. PhaseA /\ A_Pace /\ (A_First \/ A_Released)
      BY <2>2, HighPhase
    <3>2. \A d \in Dummies : ~ prio["H_Task_SA"] <= prio[d]
      BY PrioAssumption, Threads
    <3>3. QED
      BY <1>t, <2>2, <3>1, <3>2, Threads DEF InType, A_First, A_Released, Pended, Woken
  <2>4. /\ \A u \in Task : thread'[u] = IF u = "H_Task_SA" THEN test_sem ELSE thread[u]
        /\ events' = events /\ count' = count
    BY <1>t, <2>1, TakeEffect, Threads
  <2>5. Common' /\ Is("H_Task_SB", "none", "wait_start")'
    BY <1>t, <2>2, <2>3, <2>4, Threads DEF IInv, Common, InType, PhaseA, Is, MainTasks
  <2>6. A_Pace' /\ (A_Parked' \/ A_Blocked')
    <3>1. HighPends' /\ Pended'
      BY <1>t, <2>1, <2>2, <2>3, <2>4, Threads
      DEF InType, HighPends, measured, Pended, Is, MainTasks
    <3>2. CASE A_First
      BY <1>t, <2>1, <2>2, <2>3, <2>4, <3>1, <3>2, Threads
      DEF A_Pace, RoundA, A_First, A_Parked, Is
    <3>3. CASE A_Released
      BY <1>t, <2>1, <2>2, <2>3, <2>4, <3>1, <3>3, Threads
      DEF A_Pace, RoundA, A_Released, A_Blocked, Is
    <3>4. QED  BY <2>3, <3>2, <3>3
  <2>7. QED
    BY <1>t, <2>1, <2>3, <2>5, <2>6 DEF IInv, PhaseA, A_Loop
<1>7. CASE HighSA_Wait
  <2>1. /\ Step("H_Task_SA", "wait", "wait")
        /\ EventWait("H_Task_SA", A)
        /\ window' = "scenario_a" /\ samples' = samples /\ i' = i
        /\ primitive = "event"
    BY <1>t, <1>7 DEF HighSA_Wait, OpenWindow
  <2>2. /\ thread["H_Task_SA"] = "ready" /\ pc["H_Task_SA"] = "wait"
        /\ \A u \in Task : thread[u] = "ready" => prio["H_Task_SA"] <= prio[u]
        /\ \A u \in Task : pc'[u] = pc[u]
        /\ primitive' = primitive /\ load' = load
    BY <1>t, <2>1, StepEffect, Threads
  <2>3. PhaseA /\ A_Pace /\ (A_First \/ A_Released) /\ Pended
    <3>1. PhaseA /\ A_Pace /\ (A_First \/ A_Released)
      BY <2>2, HighPhase
    <3>2. \A d \in Dummies : ~ prio["H_Task_SA"] <= prio[d]
      BY PrioAssumption, Threads
    <3>3. QED
      BY <1>t, <2>2, <3>1, <3>2, Threads DEF InType, A_First, A_Released, Pended, Woken
  <2>4. /\ \A u \in Task : thread'[u] = IF u = "H_Task_SA" THEN A ELSE thread[u]
        /\ events' = events /\ count' = count
    BY <1>t, <2>1, <2>3, WaitEffect, Threads DEF A_First, A_Released
  <2>5. Common' /\ Is("H_Task_SB", "none", "wait_start")'
    BY <1>t, <2>2, <2>3, <2>4, Threads DEF IInv, Common, InType, PhaseA, Is, MainTasks
  <2>6. A_Pace' /\ (A_Parked' \/ A_Blocked')
    <3>1. HighPends' /\ Pended'
      BY <1>t, <2>1, <2>2, <2>3, <2>4, Threads
      DEF InType, HighPends, measured, Pended, Is, MainTasks
    <3>2. CASE A_First
      BY <1>t, <2>1, <2>2, <2>3, <2>4, <3>1, <3>2, Threads
      DEF A_Pace, RoundA, A_First, A_Parked, Is
    <3>3. CASE A_Released
      BY <1>t, <2>1, <2>2, <2>3, <2>4, <3>1, <3>3, Threads
      DEF A_Pace, RoundA, A_Released, A_Blocked, Is
    <3>4. QED  BY <2>3, <3>2, <3>3
  <2>7. QED
    BY <1>t, <2>1, <2>3, <2>5, <2>6 DEF IInv, PhaseA, A_Loop
<1>8. CASE HighSB_WaitStart
  <2>1. /\ Step("H_Task_SB", "wait_start", "wait")
        /\ EventWait("H_Task_SB", START)
        /\ window' = window /\ samples' = samples /\ i' = i
    BY <1>t, <1>8 DEF HighSB_WaitStart, Quiet, NoSample
  <2>2. /\ thread["H_Task_SB"] = "ready" /\ pc["H_Task_SB"] = "wait_start"
        /\ \A u \in Task : thread[u] = "ready" => prio["H_Task_SB"] <= prio[u]
        /\ \A u \in Task : pc'[u] = IF u = "H_Task_SB" THEN "wait" ELSE pc[u]
        /\ primitive' = primitive /\ load' = load
    BY <1>t, <2>1, StepEffect, Threads
  <2>3. PhaseB /\ B_Setup
    BY <2>2, PrioAssumption, Threads
    DEF IInv, PhaseA, PhaseB, B_Setup, B_Loop, B_Pace, B_Armed, B_Tried, B_Recorded,
        B_Parked, Is
  <2>4. /\ \A u \in Task : thread'[u] = IF u = "H_Task_SB" THEN START ELSE thread[u]
        /\ events' = events /\ count' = count
    BY <1>t, <2>1, <2>3, WaitEffect, Threads DEF B_Setup
  <2>5. Common' /\ \A t \in load' \cup {"L_Task_SA", "H_Task_SA"} : thread'[t] = "dead"
    BY <1>t, <2>2, <2>3, <2>4, Threads DEF IInv, Common, InType, PhaseB, MainTasks
  <2>6. B_Setup'
    BY <1>t, <2>1, <2>2, <2>3, <2>4, Threads, CountAssumption DEF B_Setup, InType, Is, MainTasks
  <2>7. QED
    BY <1>t, <2>1, <2>3, <2>5, <2>6 DEF IInv, PhaseB, B_Loop
<1>9. CASE HighSB_Take
  <2>1. /\ Step("H_Task_SB", "wait", "stop")
        /\ SemTry(test_sem)
        /\ window' = "scenario_b" /\ samples' = samples /\ i' = i
        /\ primitive = "sem"
    BY <1>t, <1>9 DEF HighSB_Take, OpenWindow
  <2>2. /\ thread["H_Task_SB"] = "ready" /\ pc["H_Task_SB"] = "wait"
        /\ \A u \in Task : thread[u] = "ready" => prio["H_Task_SB"] <= prio[u]
        /\ \A u \in Task : pc'[u] = IF u = "H_Task_SB" THEN "stop" ELSE pc[u]
        /\ primitive' = primitive /\ load' = load
    BY <1>t, <2>1, StepEffect, Threads
  <2>3. PhaseB /\ B_Pace /\ B_Armed
    BY <2>2, PrioAssumption, Threads
    DEF IInv, PhaseA, PhaseB, B_Setup, B_Loop, B_Pace, B_Armed, B_Tried, B_Recorded,
        B_Parked, Is
  <2>4. /\ \A u \in Task : thread'[u] = thread[u]
        /\ events' = events /\ count'[test_sem] = 0
    BY <1>t, <2>1, TryEffect
  <2>5. Common' /\ \A t \in load' \cup {"L_Task_SA", "H_Task_SA"} : thread'[t] = "dead"
    BY <1>t, <2>2, <2>3, <2>4, Threads DEF IInv, Common, InType, PhaseB, MainTasks
  <2>6. B_Pace' /\ B_Tried'
    BY <1>t, <2>1, <2>2, <2>3, <2>4, Threads, CountAssumption
    DEF B_Pace, RoundB, Between, B_Armed, B_Tried, InType, Is, MainTasks
  <2>7. QED
    BY <1>t, <2>1, <2>3, <2>5, <2>6 DEF IInv, PhaseB, B_Loop
<1>10. CASE HighSB_Wait
  <2>1. /\ Step("H_Task_SB", "wait", "stop")
        /\ EventTry(B)
        /\ window' = "scenario_b" /\ samples' = samples /\ i' = i
        /\ primitive = "event"
    BY <1>t, <1>10 DEF HighSB_Wait, OpenWindow
  <2>2. /\ thread["H_Task_SB"] = "ready" /\ pc["H_Task_SB"] = "wait"
        /\ \A u \in Task : thread[u] = "ready" => prio["H_Task_SB"] <= prio[u]
        /\ \A u \in Task : pc'[u] = IF u = "H_Task_SB" THEN "stop" ELSE pc[u]
        /\ primitive' = primitive /\ load' = load
    BY <1>t, <2>1, StepEffect, Threads
  <2>3. PhaseB /\ B_Pace /\ B_Armed
    BY <2>2, PrioAssumption, Threads
    DEF IInv, PhaseA, PhaseB, B_Setup, B_Loop, B_Pace, B_Armed, B_Tried, B_Recorded,
        B_Parked, Is
  <2>4. /\ \A u \in Task : thread'[u] = thread[u]
        /\ events' = events /\ count' = count
    BY <2>1, <2>3 DEF EventTry, B_Armed
  <2>5. Common' /\ \A t \in load' \cup {"L_Task_SA", "H_Task_SA"} : thread'[t] = "dead"
    BY <1>t, <2>2, <2>3, <2>4, Threads DEF IInv, Common, InType, PhaseB, MainTasks
  <2>6. B_Pace' /\ B_Tried'
    BY <1>t, <2>1, <2>2, <2>3, <2>4, Threads, CountAssumption
    DEF B_Pace, RoundB, Between, B_Armed, B_Tried, InType, Is, MainTasks
  <2>7. QED
    BY <1>t, <2>1, <2>3, <2>5, <2>6 DEF IInv, PhaseB, B_Loop
<1>11. CASE HighSB_Stop
  <2>1. /\ Step("H_Task_SB", "stop", "suspend")
        /\ EventPost(YIELD)
        /\ samples'["scenario_b"] = samples["scenario_b"] + 1
        /\ samples'["scenario_a"] = samples["scenario_a"]
        /\ window' = "closed" /\ i' = i
    BY <1>t, <1>11 DEF HighSB_Stop, RecordSample, InType, Series
  <2>2. /\ thread["H_Task_SB"] = "ready" /\ pc["H_Task_SB"] = "stop"
        /\ \A u \in Task : thread[u] = "ready" => prio["H_Task_SB"] <= prio[u]
        /\ \A u \in Task : pc'[u] = IF u = "H_Task_SB" THEN "suspend" ELSE pc[u]
        /\ primitive' = primitive /\ load' = load
    BY <1>t, <2>1, StepEffect, Threads
  <2>3. PhaseB /\ B_Pace /\ B_Tried
    BY <2>2, PrioAssumption, Threads
    DEF IInv, PhaseA, PhaseB, B_Setup, B_Loop, B_Pace, B_Armed, B_Tried, B_Recorded,
        B_Parked, Is
  <2>4. /\ \A u \in Task : thread'[u] = thread[u]
        /\ events' = {YIELD} /\ count' = count
    <3>1. \A u \in Task : thread[u] # YIELD
      BY <1>t, <2>1, <2>2, <2>3, Threads
      DEF IInv, Common, InType, PhaseB, B_Tried, Is, MainTasks
    <3>2. thread' = thread /\ events' = events \cup {YIELD} /\ count' = count
      BY <2>1, <3>1 DEF EventPost, Waiters
    <3>3. QED  BY <2>3, <3>2 DEF B_Tried
  <2>5. Common' /\ \A t \in load' \cup {"L_Task_SA", "H_Task_SA"} : thread'[t] = "dead"
    BY <1>t, <2>2, <2>3, <2>4, Threads DEF IInv, Common, InType, PhaseB, MainTasks
  <2>6. B_Pace' /\ B_Recorded'
    BY <1>t, <2>1, <2>2, <2>3, <2>4, Threads, CountAssumption
    DEF B_Pace, RoundB, Between, B_Tried, B_Recorded, InType, Is, MainTasks
  <2>7. QED
    BY <1>t, <2>1, <2>3, <2>5, <2>6 DEF IInv, PhaseB, B_Loop
<1>12. CASE HighSB_Suspend
  <2>1. /\ Step("H_Task_SB", "suspend", "wait")
        /\ Suspend("H_Task_SB")
        /\ window' = window /\ samples' = samples /\ i' = i
    BY <1>t, <1>12 DEF HighSB_Suspend, Quiet, NoSample
  <2>2. /\ thread["H_Task_SB"] = "ready" /\ pc["H_Task_SB"] = "suspend"
        /\ \A u \in Task : thread[u] = "ready" => prio["H_Task_SB"] <= prio[u]
        /\ \A u \in Task : pc'[u] = IF u = "H_Task_SB" THEN "wait" ELSE pc[u]
        /\ primitive' = primitive /\ load' = load
    BY <1>t, <2>1, StepEffect, Threads
  <2>3. PhaseB /\ B_Pace /\ B_Recorded
    BY <2>2, PrioAssumption, Threads
    DEF IInv, PhaseA, PhaseB, B_Setup, B_Loop, B_Pace, B_Armed, B_Tried, B_Recorded,
        B_Parked, Is
  <2>4. /\ \A u \in Task : thread'[u] = IF u = "H_Task_SB" THEN "suspended" ELSE thread[u]
        /\ events' = events /\ count' = count
    BY <1>t, <2>1, SuspendEffect, Threads
  <2>5. Common' /\ \A t \in load' \cup {"L_Task_SA", "H_Task_SA"} : thread'[t] = "dead"
    BY <1>t, <2>2, <2>3, <2>4, Threads DEF IInv, Common, InType, PhaseB, MainTasks
  <2>6. B_Pace' /\ B_Parked'
    BY <1>t, <2>1, <2>2, <2>3, <2>4, Threads, CountAssumption
    DEF B_Pace, RoundB, Between, B_Recorded, B_Parked, InType, Is, MainTasks
  <2>7. QED
    BY <1>t, <2>1, <2>3, <2>5, <2>6 DEF IInv, PhaseB, B_Loop
<1>13. ASSUME NEW d \in Dummies, Dummy_Wait(d) PROVE IInv'
  <2>1. /\ Step(d, "wait", "wait") /\ EventWait(d, A)
        /\ window' = IF window = "scenario_a" THEN "closed" ELSE window
        /\ samples' = samples /\ i' = i
    BY <1>13 DEF Dummy_Wait
  <2>2. /\ thread[d] = "ready"
        /\ \A u \in Task : thread[u] = "ready" => prio[d] <= prio[u]
        /\ \A u \in Task : pc'[u] = pc[u]
        /\ primitive' = primitive /\ load' = load
    BY <1>t, <2>1, StepEffect, Threads
  <2>3. d \in load /\ PhaseA
    BY <2>2 DEF IInv, Common, PhaseB
  <2>4. \/ A_Setup /\ pc["I_Task"] = "create_high_sa" /\ events = {}
        \/ A_Pace /\ A_Released
    BY <2>2, <2>3, Threads
    DEF PhaseA, A_Setup, A_Loop, A_First, A_Armed, A_Blocked, A_Recorded, A_Parked, A_End,
        Pended, Is
  <2>5. /\ \A u \in Task : thread'[u] = IF u = d THEN A ELSE thread[u]
        /\ events' = events /\ count' = count
    BY <1>t, <2>1, <2>4, WaitEffect, Threads DEF A_Released
  <2>6. Common' /\ Is("H_Task_SB", "none", "wait_start")'
    BY <1>t, <2>2, <2>3, <2>5, Threads DEF IInv, Common, InType, PhaseA, Is, MainTasks
  <2>7. A_Setup' \/ (A_Pace' /\ A_Released')
    <3>1. CASE A_Setup /\ pc["I_Task"] = "create_high_sa"
      BY <1>t, <2>1, <2>2, <2>3, <2>5, <3>1, Threads DEF InType, A_Setup, Is, MainTasks
    <3>2. CASE A_Pace /\ A_Released
      BY <1>t, <2>1, <2>2, <2>5, <3>2, Threads
      DEF InType, A_Pace, A_Released, RoundA, Woken, Is, MainTasks
    <3>3. QED  BY <2>4, <3>1, <3>2
  <2>8. QED  BY <1>t, <2>1, <2>3, <2>6, <2>7 DEF IInv, PhaseA, A_Loop
<1>14. CASE I_CreateHighSA
  <2>1. /\ Step("I_Task", "create_high_sa", "create_low_sa")
        /\ Create("H_Task_SA")
        /\ \A d \in load : thread[d] # "none"
        /\ window' = window /\ samples' = samples /\ i' = i
    BY <1>t, <1>14 DEF I_CreateHighSA, I_Create, Quiet, NoSample
  <2>2. /\ thread["I_Task"] = "ready" /\ pc["I_Task"] = "create_high_sa"
        /\ \A u \in Task : thread[u] = "ready" => u = "I_Task"
        /\ \A u \in Task : pc'[u] = IF u = "I_Task" THEN "create_low_sa" ELSE pc[u]
        /\ primitive' = primitive /\ load' = load
    BY <1>t, <2>1, ControlEffect, Threads
  <2>3. PhaseA /\ A_Setup
    BY <2>2, ControlPhase, Threads DEF A_Setup, A_Parked, Is
  <2>4. /\ \A u \in Task : thread'[u] = IF u = "H_Task_SA" THEN "ready" ELSE thread[u]
        /\ events' = events /\ count' = count
    BY <1>t, <2>1, CreateEffect, Threads
  <2>5. Common' /\ Is("H_Task_SB", "none", "wait_start")'
    BY <1>t, <2>2, <2>3, <2>4, Threads DEF IInv, Common, InType, PhaseA, Is, MainTasks
  <2>6. A_Setup'
    BY <1>t, <2>1, <2>2, <2>3, <2>4, Threads, CountAssumption
    DEF A_Setup, Pended, InType, Is, MainTasks
  <2>7. QED
    BY <1>t, <2>1, <2>3, <2>5, <2>6 DEF IInv, PhaseA, A_Loop
<1>15. CASE I_CreateLowSA
  <2>1. /\ Step("I_Task", "create_low_sa", "post_start_sa")
        /\ Create("L_Task_SA")
        /\ window' = window /\ samples' = samples /\ i' = i
    BY <1>t, <1>15 DEF I_CreateLowSA, I_Create, Quiet, NoSample
  <2>2. /\ thread["I_Task"] = "ready" /\ pc["I_Task"] = "create_low_sa"
        /\ \A u \in Task : thread[u] = "ready" => u = "I_Task"
        /\ \A u \in Task : pc'[u] = IF u = "I_Task" THEN "post_start_sa" ELSE pc[u]
        /\ primitive' = primitive /\ load' = load
    BY <1>t, <2>1, ControlEffect, Threads
  <2>3. PhaseA /\ A_Setup /\ Is("H_Task_SA", START, "wait")
    BY <2>2, ControlPhase, Threads DEF A_Setup, A_Parked, Is
  <2>4. /\ \A u \in Task : thread'[u] = IF u = "L_Task_SA" THEN "ready" ELSE thread[u]
        /\ events' = events /\ count' = count
    BY <1>t, <2>1, CreateEffect, Threads
  <2>5. Common' /\ Is("H_Task_SB", "none", "wait_start")'
    BY <1>t, <2>2, <2>3, <2>4, Threads DEF IInv, Common, InType, PhaseA, Is, MainTasks
  <2>6. A_Setup'
    BY <1>t, <2>1, <2>2, <2>3, <2>4, Threads, CountAssumption
    DEF A_Setup, Pended, InType, Is, MainTasks
  <2>7. QED
    BY <1>t, <2>1, <2>3, <2>5, <2>6 DEF IInv, PhaseA, A_Loop
<1>16. CASE I_PostStartSA
  <2>1. /\ Step("I_Task", "post_start_sa", "wait_sa")
        /\ EventPost(START)
        /\ window' = window /\ samples' = samples /\ i' = i
    BY <1>t, <1>16 DEF I_PostStartSA, I_PostStart, Quiet, NoSample
  <2>2. /\ thread["I_Task"] = "ready" /\ pc["I_Task"] = "post_start_sa"
        /\ \A u \in Task : thread[u] = "ready" => u = "I_Task"
        /\ \A u \in Task : pc'[u] = IF u = "I_Task" THEN "wait_sa" ELSE pc[u]
        /\ primitive' = primitive /\ load' = load
    BY <1>t, <2>1, ControlEffect, Threads
  <2>3. PhaseA /\ A_Setup /\ Is("L_Task_SA", "suspended", "post") /\ events = {YIELD}
    BY <2>2, ControlPhase, Threads DEF A_Setup, A_Parked, Is
  <2>4. /\ \A u \in Task : thread'[u] = IF u = "H_Task_SA" THEN "ready" ELSE thread[u]
        /\ events' = {YIELD} /\ count' = count
    <3>1. \A u \in Task : thread[u] = START <=> u = "H_Task_SA"
      BY <1>t, <2>2, <2>3, Threads
      DEF IInv, Common, InType, PhaseA, A_Setup, Pended, Is, MainTasks
    <3>2. QED  BY <1>t, <2>1, <2>3, <3>1, PostEffect, Threads
  <2>5. Common' /\ Is("H_Task_SB", "none", "wait_start")'
    BY <1>t, <2>2, <2>3, <2>4, Threads DEF IInv, Common, InType, PhaseA, Is, MainTasks
  <2>6. A_Pace' /\ A_First'
    BY <1>t, <2>1, <2>2, <2>3, <2>4, Threads, CountAssumption
    DEF A_Pace, A_Setup, A_First, Pended, InType, Is, MainTasks
  <2>7. QED
    BY <1>t, <2>1, <2>3, <2>5, <2>6 DEF IInv, PhaseA, A_Loop
<1>17. CASE I_WaitSA
  <2>1. /\ Step("I_Task", "wait_sa", "resume_sa")
        /\ EventWait("I_Task", YIELD)
        /\ window' = window /\ samples' = samples /\ i' = i
    BY <1>t, <1>17 DEF I_WaitSA, Quiet, NoSample
  <2>2. /\ thread["I_Task"] = "ready" /\ pc["I_Task"] = "wait_sa"
        /\ \A u \in Task : thread[u] = "ready" => u = "I_Task"
        /\ \A u \in Task : pc'[u] = IF u = "I_Task" THEN "resume_sa" ELSE pc[u]
        /\ primitive' = primitive /\ load' = load
    BY <1>t, <2>1, ControlEffect, Threads
  <2>3. PhaseA /\ A_Pace /\ A_Parked /\ events = {YIELD}
    BY <2>2, ControlPhase, Threads DEF A_Setup, A_Parked, Is
  <2>4. /\ \A u \in Task : thread'[u] = thread[u]
        /\ events' = {} /\ count' = count
    BY <1>t, <2>1, <2>3, WaitEffect, Threads
  <2>5. Common' /\ Is("H_Task_SB", "none", "wait_start")'
    BY <1>t, <2>2, <2>3, <2>4, Threads DEF IInv, Common, InType, PhaseA, Is, MainTasks
  <2>6. A_Pace' /\ A_Parked'
    BY <1>t, <2>1, <2>2, <2>3, <2>4, Threads, CountAssumption
    DEF A_Pace, RoundA, A_Parked, HighPends, measured, Pended, InType, Is, MainTasks
  <2>7. QED
    BY <1>t, <2>1, <2>3, <2>5, <2>6 DEF IInv, PhaseA, A_Loop
<1>18. CASE I_AbortLowSA
  <2>1. /\ Step("I_Task", "abort_low_sa", "abort_high_sa")
        /\ Abort("L_Task_SA")
        /\ window' = window /\ samples' = samples /\ i' = i
    BY <1>t, <1>18 DEF I_AbortLowSA, I_Abort, Quiet, NoSample
  <2>2. /\ thread["I_Task"] = "ready" /\ pc["I_Task"] = "abort_low_sa"
        /\ \A u \in Task : thread[u] = "ready" => u = "I_Task"
        /\ \A u \in Task : pc'[u] = IF u = "I_Task" THEN "abort_high_sa" ELSE pc[u]
        /\ primitive' = primitive /\ load' = load
    BY <1>t, <2>1, ControlEffect, Threads
  <2>3. PhaseA /\ A_Pace /\ A_Parked
    BY <2>2, ControlPhase, Threads DEF A_Setup, A_Parked, Is
  <2>4. /\ \A u \in Task : thread'[u] = IF u = "L_Task_SA" THEN "dead" ELSE thread[u]
        /\ events' = events /\ count' = count
    BY <1>t, <2>1, AbortEffect, Threads
  <2>5. Common' /\ Is("H_Task_SB", "none", "wait_start")'
    BY <1>t, <2>2, <2>3, <2>4, Threads DEF IInv, Common, InType, PhaseA, Is, MainTasks
  <2>6. A_End'
    BY <1>t, <2>1, <2>2, <2>3, <2>4, Threads, CountAssumption
    DEF A_Pace, RoundA, A_Parked, A_End, HighPends, measured, Pended, InType, Is, MainTasks
  <2>7. QED
    BY <1>t, <2>1, <2>3, <2>5, <2>6 DEF IInv, PhaseA, A_Loop
<1>19. CASE I_AbortHighSA
  <2>1. /\ Step("I_Task", "abort_high_sa", "clear")
        /\ Abort("H_Task_SA")
        /\ window' = window /\ samples' = samples /\ i' = i
    BY <1>t, <1>19 DEF I_AbortHighSA, I_Abort, Quiet, NoSample
  <2>2. /\ thread["I_Task"] = "ready" /\ pc["I_Task"] = "abort_high_sa"
        /\ \A u \in Task : thread[u] = "ready" => u = "I_Task"
        /\ \A u \in Task : pc'[u] = IF u = "I_Task" THEN "clear" ELSE pc[u]
        /\ primitive' = primitive /\ load' = load
    BY <1>t, <2>1, ControlEffect, Threads
  <2>3. PhaseA /\ A_End
    BY <2>2, ControlPhase, Threads DEF A_Setup, A_Parked, Is
  <2>4. /\ \A u \in Task : thread'[u] = IF u = "H_Task_SA" THEN "dead" ELSE thread[u]
        /\ events' = events /\ count' = count
    BY <1>t, <2>1, AbortEffect, Threads
  <2>5. Common' /\ Is("H_Task_SB", "none", "wait_start")'
    BY <1>t, <2>2, <2>3, <2>4, Threads DEF IInv, Common, InType, PhaseA, Is, MainTasks
  <2>6. A_End'
    BY <1>t, <2>1, <2>2, <2>3, <2>4, Threads, CountAssumption
    DEF A_End, Pended, InType, Is, MainTasks
  <2>7. QED
    BY <1>t, <2>1, <2>3, <2>5, <2>6 DEF IInv, PhaseA, A_Loop
<1>20. CASE I_ResetSA
  <2>1. /\ Step("I_Task", "clear", "create_high_sb") /\ SemReset(test_sem)
        /\ window' = window /\ samples' = samples /\ i' = i
        /\ primitive = "sem"
    BY <1>20 DEF I_ResetSA, Quiet, NoSample
  <2>2. /\ thread["I_Task"] = "ready" /\ pc["I_Task"] = "clear"
        /\ \A u \in Task : pc'[u] = IF u = "I_Task" THEN "create_high_sb" ELSE pc[u]
        /\ primitive' = primitive /\ load' = load
    BY <1>t, <2>1, ControlEffect
  <2>3. PhaseA /\ A_End
    BY <1>t, <2>1, ControlEffect, ControlPhase
  <2>4. \A t \in load \cup {"L_Task_SA", "H_Task_SA"} : thread[t] = "dead"
    BY <2>1, <2>2, <2>3 DEF IInv, Common, A_End
  <2>5. /\ \A u \in Task : thread'[u] = thread[u]
        /\ events' = events /\ count'[test_sem] = 0
    <3>1. \A u \in Task : thread[u] # test_sem
      BY <2>1, <2>2, <2>3, <2>4, Threads DEF IInv, Common, PhaseA, Is, MainTasks
    <3>2. QED  BY <1>t, <2>1, <3>1, ResetEffect
  <2>6. Common'
    BY <2>2, <2>5, Threads DEF IInv, Common, MainTasks
  <2>7. B_Setup'
    BY <2>1, <2>2, <2>3, <2>5, Threads DEF PhaseA, A_End, B_Setup, Is
  <2>8. \A t \in load' \cup {"L_Task_SA", "H_Task_SA"} : thread'[t] = "dead"
    BY <1>t, <2>2, <2>4, <2>5, Threads DEF InType
  <2>9. QED  BY <1>t, <2>1, <2>3, <2>6, <2>7, <2>8 DEF IInv, PhaseB, A_End
<1>21. CASE I_Clear
  <2>1. /\ Step("I_Task", "clear", "create_high_sb") /\ EventClear(A)
        /\ window' = window /\ samples' = samples /\ i' = i
        /\ primitive = "event"
        /\ \A d \in load : thread[d] = "dead"
    BY <1>21 DEF I_Clear, Quiet, NoSample
  <2>2. /\ thread["I_Task"] = "ready" /\ pc["I_Task"] = "clear"
        /\ \A u \in Task : pc'[u] = IF u = "I_Task" THEN "create_high_sb" ELSE pc[u]
        /\ primitive' = primitive /\ load' = load
    BY <1>t, <2>1, ControlEffect
  <2>3. PhaseA /\ A_End
    BY <1>t, <2>1, ControlEffect, ControlPhase
  <2>4. \A t \in load \cup {"L_Task_SA", "H_Task_SA"} : thread[t] = "dead"
    BY <2>1, <2>2, <2>3 DEF A_End
  <2>5. /\ \A u \in Task : thread'[u] = thread[u]
        /\ events' = events /\ count'[test_sem] = 0
    BY <1>t, <2>1, <2>3 DEF EventClear, A_End
  <2>6. Common'
    BY <2>2, <2>5, Threads DEF IInv, Common, MainTasks
  <2>7. B_Setup'
    BY <2>1, <2>2, <2>3, <2>5, Threads DEF PhaseA, A_End, B_Setup, Is
  <2>8. \A t \in load' \cup {"L_Task_SA", "H_Task_SA"} : thread'[t] = "dead"
    BY <1>t, <2>2, <2>4, <2>5, Threads DEF InType
  <2>9. QED  BY <1>t, <2>1, <2>3, <2>6, <2>7, <2>8 DEF IInv, PhaseB, A_End
<1>22. CASE I_CreateHighSB
  <2>1. /\ Step("I_Task", "create_high_sb", "post_start_sb")
        /\ Create("H_Task_SB")
        /\ window' = window /\ samples' = samples /\ i' = i
    BY <1>t, <1>22 DEF I_CreateHighSB, I_Create, Quiet, NoSample
  <2>2. /\ thread["I_Task"] = "ready" /\ pc["I_Task"] = "create_high_sb"
        /\ \A u \in Task : thread[u] = "ready" => u = "I_Task"
        /\ \A u \in Task : pc'[u] = IF u = "I_Task" THEN "post_start_sb" ELSE pc[u]
        /\ primitive' = primitive /\ load' = load
    BY <1>t, <2>1, ControlEffect, Threads
  <2>3. PhaseB /\ B_Setup
    BY <2>2, ControlPhase, Threads DEF B_Setup, B_Parked, Between, Is
  <2>4. /\ \A u \in Task : thread'[u] = IF u = "H_Task_SB" THEN "ready" ELSE thread[u]
        /\ events' = events /\ count' = count
    BY <1>t, <2>1, CreateEffect, Threads
  <2>5. Common' /\ \A t \in load' \cup {"L_Task_SA", "H_Task_SA"} : thread'[t] = "dead"
    BY <1>t, <2>2, <2>3, <2>4, Threads DEF IInv, Common, InType, PhaseB, MainTasks
  <2>6. B_Setup'
    BY <1>t, <2>1, <2>2, <2>3, <2>4, Threads, CountAssumption DEF B_Setup, InType, Is, MainTasks
  <2>7. QED
    BY <1>t, <2>1, <2>3, <2>5, <2>6 DEF IInv, PhaseB, B_Loop
<1>23. CASE I_PostStartSB
  <2>1. /\ Step("I_Task", "post_start_sb",
                IF MEASUREMENT_COUNT > 1 THEN "wait_sb" ELSE "signalize")
        /\ EventPost(START)
        /\ window' = window /\ samples' = samples /\ i' = i
    BY <1>t, <1>23 DEF I_PostStartSB, I_PostStart, Quiet, NoSample
  <2>2. /\ thread["I_Task"] = "ready" /\ pc["I_Task"] = "post_start_sb"
        /\ \A u \in Task : thread[u] = "ready" => u = "I_Task"
        /\ \A u \in Task : pc'[u] = 
              IF u = "I_Task"
              THEN IF MEASUREMENT_COUNT > 1 THEN "wait_sb" ELSE "signalize"
              ELSE pc[u]
        /\ primitive' = primitive /\ load' = load
    BY <1>t, <2>1, ControlEffect, Threads
  <2>3. PhaseB /\ B_Setup /\ Is("H_Task_SB", START, "wait")
    BY <2>2, ControlPhase, Threads DEF B_Setup, B_Parked, Between, Is
  <2>4. /\ \A u \in Task : thread'[u] = IF u = "H_Task_SB" THEN "ready" ELSE thread[u]
        /\ events' = {YIELD} /\ count' = count
    <3>1. \A u \in Task : thread[u] = START <=> u = "H_Task_SB"
      BY <1>t, <2>2, <2>3, Threads DEF IInv, Common, InType, PhaseB, B_Setup, Is, MainTasks
    <3>2. QED  BY <1>t, <2>1, <2>3, <3>1, PostEffect, Threads DEF B_Setup
  <2>5. Common' /\ \A t \in load' \cup {"L_Task_SA", "H_Task_SA"} : thread'[t] = "dead"
    BY <1>t, <2>2, <2>3, <2>4, Threads DEF IInv, Common, InType, PhaseB, MainTasks
  <2>6. B_Pace' /\ B_Armed'
    BY <1>t, <2>1, <2>2, <2>3, <2>4, Threads, CountAssumption
    DEF B_Pace, RoundB, Between, B_Setup, B_Armed, InType, Is, MainTasks
  <2>7. QED
    BY <1>t, <2>1, <2>3, <2>5, <2>6 DEF IInv, PhaseB, B_Loop
<1>24. CASE I_WaitSB
  <2>1. /\ Step("I_Task", "wait_sb",
                IF primitive = "sem" THEN "reset_sb" ELSE "resume_sb")
        /\ EventWait("I_Task", YIELD)
        /\ window' = window /\ samples' = samples /\ i' = i
    BY <1>t, <1>24 DEF I_WaitSB, Quiet, NoSample
  <2>2. /\ thread["I_Task"] = "ready" /\ pc["I_Task"] = "wait_sb"
        /\ \A u \in Task : thread[u] = "ready" => u = "I_Task"
        /\ \A u \in Task : pc'[u] = 
              IF u = "I_Task"
              THEN IF primitive = "sem" THEN "reset_sb" ELSE "resume_sb"
              ELSE pc[u]
        /\ primitive' = primitive /\ load' = load
    BY <1>t, <2>1, ControlEffect, Threads
  <2>3. PhaseB /\ B_Pace /\ B_Parked /\ events = {YIELD}
    BY <2>2, ControlPhase, Threads DEF B_Setup, B_Parked, Between, Is
  <2>4. /\ \A u \in Task : thread'[u] = thread[u]
        /\ events' = {} /\ count' = count
    BY <1>t, <2>1, <2>3, WaitEffect, Threads
  <2>5. Common' /\ \A t \in load' \cup {"L_Task_SA", "H_Task_SA"} : thread'[t] = "dead"
    BY <1>t, <2>2, <2>3, <2>4, Threads DEF IInv, Common, InType, PhaseB, MainTasks
  <2>6. B_Pace' /\ B_Parked'
    BY <1>t, <2>1, <2>2, <2>3, <2>4, Threads, CountAssumption
    DEF B_Pace, RoundB, Between, B_Parked, InType, Is, MainTasks
  <2>7. QED
    BY <1>t, <2>1, <2>3, <2>5, <2>6 DEF IInv, PhaseB, B_Loop
<1>25. CASE I_ResetSB
  <2>1. /\ Step("I_Task", "reset_sb", "resume_sb")
        /\ SemReset(test_sem)
        /\ window' = window /\ samples' = samples /\ i' = i
    BY <1>t, <1>25 DEF I_ResetSB, Quiet, NoSample
  <2>2. /\ thread["I_Task"] = "ready" /\ pc["I_Task"] = "reset_sb"
        /\ \A u \in Task : thread[u] = "ready" => u = "I_Task"
        /\ \A u \in Task : pc'[u] = IF u = "I_Task" THEN "resume_sb" ELSE pc[u]
        /\ primitive' = primitive /\ load' = load
    BY <1>t, <2>1, ControlEffect, Threads
  <2>3. PhaseB /\ B_Pace /\ B_Parked
    BY <2>2, ControlPhase, Threads DEF B_Setup, B_Parked, Between, Is
  <2>4. /\ \A u \in Task : thread'[u] = thread[u]
        /\ events' = events /\ count'[test_sem] = 0
    <3>1. \A u \in Task : thread[u] # test_sem
      BY <1>t, <2>1, <2>2, <2>3, Threads
      DEF IInv, Common, InType, PhaseB, B_Parked, Is, MainTasks
    <3>2. QED  BY <1>t, <2>1, <3>1, ResetEffect
  <2>5. Common' /\ \A t \in load' \cup {"L_Task_SA", "H_Task_SA"} : thread'[t] = "dead"
    BY <1>t, <2>2, <2>3, <2>4, Threads DEF IInv, Common, InType, PhaseB, MainTasks
  <2>6. B_Pace' /\ B_Parked'
    BY <1>t, <2>1, <2>2, <2>3, <2>4, Threads, CountAssumption
    DEF B_Pace, RoundB, Between, B_Parked, InType, Is, MainTasks
  <2>7. QED
    BY <1>t, <2>1, <2>3, <2>5, <2>6 DEF IInv, PhaseB, B_Loop
<1>26. CASE I_Signalize
  <2>1. /\ Step("I_Task", "signalize", "signalize")
        /\ NoCall
        /\ window' = window /\ samples' = samples /\ i' = i
    BY <1>t, <1>26 DEF I_Signalize, Quiet, NoSample
  <2>2. /\ thread["I_Task"] = "ready" /\ pc["I_Task"] = "signalize"
        /\ \A u \in Task : thread[u] = "ready" => u = "I_Task"
        /\ \A u \in Task : pc'[u] = pc[u]
        /\ primitive' = primitive /\ load' = load
    BY <1>t, <2>1, ControlEffect, Threads
  <2>3. PhaseB /\ B_Pace /\ B_Parked
    BY <2>2, ControlPhase, Threads DEF B_Setup, B_Parked, Between, Is
  <2>4. /\ \A u \in Task : thread'[u] = thread[u]
        /\ events' = events /\ count' = count
    BY <2>1 DEF NoCall, kvars
  <2>5. Common' /\ \A t \in load' \cup {"L_Task_SA", "H_Task_SA"} : thread'[t] = "dead"
    BY <1>t, <2>2, <2>3, <2>4, Threads DEF IInv, Common, InType, PhaseB, MainTasks
  <2>6. B_Pace' /\ B_Parked'
    BY <1>t, <2>1, <2>2, <2>3, <2>4, Threads, CountAssumption
    DEF B_Pace, RoundB, Between, B_Parked, InType, Is, MainTasks
  <2>7. QED
    BY <1>t, <2>1, <2>3, <2>5, <2>6 DEF IInv, PhaseB, B_Loop
<1>27. CASE I_ResumeSA
  <2>1. PICK m \in {"wait_sa", "abort_low_sa"} :
          /\ Step("I_Task", "resume_sa", m)
          /\ m = "wait_sa" => i + 1 < MEASUREMENT_COUNT /\ i' = i + 1
          /\ m = "abort_low_sa" => i + 1 >= MEASUREMENT_COUNT /\ i' = 0
    BY <1>27 DEF I_ResumeSA, I_Resume
  <2>2. Resume("L_Task_SA") /\ window' = window /\ samples' = samples
    BY <1>27 DEF I_ResumeSA, I_Resume, NoSample
  <2>3. /\ thread["I_Task"] = "ready" /\ pc["I_Task"] = "resume_sa"
        /\ \A u \in Task : thread[u] = "ready" => u = "I_Task"
        /\ \A u \in Task : pc'[u] = IF u = "I_Task" THEN m ELSE pc[u]
        /\ primitive' = primitive /\ load' = load
    BY <1>t, <2>1, ControlEffect
  <2>4. PhaseA /\ A_Pace /\ A_Parked /\ i \in Nat
    BY <1>t, <2>3, ControlPhase, CountAssumption DEF InType
  <2>5. /\ \A u \in Task : thread'[u] = IF u = "L_Task_SA" THEN "ready" ELSE thread[u]
        /\ events' = events /\ count' = count
    BY <1>t, <2>2, <2>4, ResumeEffect, Threads DEF A_Parked, Is
  <2>6. Common' /\ Is("H_Task_SB", "none", "wait_start")'
    BY <1>t, <2>3, <2>4, <2>5, Threads DEF IInv, Common, PhaseA, Is, MainTasks
  <2>7. A_Pace' /\ A_Armed'
    <3>1. pc'["I_Task"] = m
      BY <2>3, Threads
    <3>2. RoundA' = i + 1
      <4>1. i < MEASUREMENT_COUNT
        BY <2>3, <2>4, CountAssumption DEF A_Pace
      <4>2. CASE m = "wait_sa"
        BY <2>1, <2>4, <3>1, <4>2 DEF RoundA
      <4>3. CASE m = "abort_low_sa"
        <5>1. MEASUREMENT_COUNT = i + 1
          BY <2>1, <2>4, <4>1, <4>3, CountAssumption
        <5>2. QED  BY <2>4, <3>1, <4>3, <5>1, CountAssumption DEF RoundA
      <4>4. QED  BY <4>2, <4>3
    <3>3. A_Pace'
      BY <2>1, <2>3, <2>4, <3>1, CountAssumption DEF A_Pace
    <3>4. A_Armed'
      BY <2>1, <2>2, <2>3, <2>4, <2>5, <3>1, <3>2, <1>t, Threads
      DEF A_Pace, RoundA, A_Parked, A_Armed, HighPends, measured, Pended, InType, Is,
          MainTasks
    <3>5. QED  BY <3>3, <3>4
  <2>8. QED  BY <1>t, <2>2, <2>4, <2>5, <2>6, <2>7 DEF IInv, PhaseA, A_Loop
<1>28. CASE I_ResumeSB
  <2>1. PICK m \in {"wait_sb", "signalize"} :
          /\ Step("I_Task", "resume_sb", m)
          /\ m = "wait_sb" => i + 1 < MEASUREMENT_COUNT - 1 /\ i' = i + 1
          /\ m = "signalize" => i + 1 >= MEASUREMENT_COUNT - 1 /\ i' = 0
    BY <1>28 DEF I_ResumeSB, I_Resume
  <2>2. Resume("H_Task_SB") /\ window' = window /\ samples' = samples
    BY <1>28 DEF I_ResumeSB, I_Resume, NoSample
  <2>3. /\ thread["I_Task"] = "ready" /\ pc["I_Task"] = "resume_sb"
        /\ \A u \in Task : thread[u] = "ready" => u = "I_Task"
        /\ \A u \in Task : pc'[u] = IF u = "I_Task" THEN m ELSE pc[u]
        /\ primitive' = primitive /\ load' = load
    BY <1>t, <2>1, ControlEffect
  <2>4. PhaseB /\ B_Pace /\ B_Parked /\ i \in Nat
    BY <1>t, <2>3, ControlPhase, CountAssumption DEF InType
  <2>5. /\ \A u \in Task : thread'[u] = IF u = "H_Task_SB" THEN "ready" ELSE thread[u]
        /\ events' = events /\ count' = count
    BY <1>t, <2>2, <2>4, ResumeEffect, Threads DEF B_Parked, Is
  <2>6. Common' /\ \A u \in load' \cup {"L_Task_SA", "H_Task_SA"} : thread'[u] = "dead"
    BY <1>t, <2>3, <2>4, <2>5, Threads DEF IInv, Common, InType, PhaseB, MainTasks
  <2>7. B_Pace' /\ B_Armed'
    <3>1. pc'["I_Task"] = m
      BY <2>3, Threads
    <3>2. RoundB' = i + 2
      <4>1. i < MEASUREMENT_COUNT - 1
        BY <2>3, <2>4, CountAssumption DEF B_Pace, Between
      <4>2. CASE m = "wait_sb"
        BY <2>1, <2>4, <3>1, <4>2 DEF RoundB
      <4>3. CASE m = "signalize"
        <5>1. MEASUREMENT_COUNT - 1 = i + 1
          BY <2>1, <2>4, <4>1, <4>3, CountAssumption
        <5>2. QED  BY <2>4, <3>1, <4>3, <5>1, CountAssumption DEF RoundB
      <4>4. QED  BY <4>2, <4>3
    <3>3. B_Pace'
      BY <2>1, <2>3, <2>4, <3>1, CountAssumption DEF B_Pace, Between
    <3>4. B_Armed'
      BY <2>1, <2>2, <2>3, <2>4, <2>5, <3>1, <3>2, <1>t, Threads
      DEF B_Pace, RoundB, B_Parked, B_Armed, Between, Is
    <3>5. QED  BY <3>3, <3>4
  <2>8. QED  BY <1>t, <2>2, <2>4, <2>5, <2>6, <2>7 DEF IInv, PhaseB, B_Loop
<1>29. ASSUME NEW d \in Dummies, I_CreateDummySA(d) PROVE IInv'
  <2>1. /\ Step("I_Task", "create_high_sa", "create_high_sa")
        /\ Create(d) /\ d \in load
        /\ window' = window /\ samples' = samples /\ i' = i
    BY <1>t, <1>29 DEF I_CreateDummySA, I_Create, Quiet, NoSample
  <2>2. /\ thread["I_Task"] = "ready" /\ pc["I_Task"] = "create_high_sa"
        /\ \A u \in Task : thread[u] = "ready" => u = "I_Task"
        /\ \A u \in Task : pc'[u] = pc[u]
        /\ primitive' = primitive /\ load' = load
    BY <1>t, <2>1, ControlEffect, Threads
  <2>3. PhaseA /\ A_Setup
    BY <2>2, ControlPhase, Threads DEF A_Setup, A_Parked, Is
  <2>4. /\ events' = events /\ count' = count
        /\ \A u \in Task : thread'[u] = IF u = d THEN "ready" ELSE thread[u]
    BY <1>t, <2>1, CreateEffect, Threads
  <2>5. Common' /\ Is("H_Task_SB", "none", "wait_start")'
    BY <2>1, <1>t, <2>2, <2>3, <2>4, Threads DEF IInv, Common, InType, PhaseA, Is, MainTasks
  <2>6. A_Setup'
    BY <1>t, <2>1, <2>2, <2>3, <2>4, Threads, CountAssumption DEF A_Setup, InType, Is, MainTasks
  <2>7. QED
    BY <1>t, <2>1, <2>3, <2>5, <2>6 DEF IInv, PhaseA, A_Loop
<1>30. ASSUME NEW d \in Dummies, I_AbortDummySA(d) PROVE IInv'
  <2>1. /\ Step("I_Task", "clear", "clear")
        /\ Abort(d) /\ d \in load
        /\ window' = window /\ samples' = samples /\ i' = i
    BY <1>t, <1>30 DEF I_AbortDummySA, I_Abort, Quiet, NoSample
  <2>2. /\ thread["I_Task"] = "ready" /\ pc["I_Task"] = "clear"
        /\ \A u \in Task : thread[u] = "ready" => u = "I_Task"
        /\ \A u \in Task : pc'[u] = pc[u]
        /\ primitive' = primitive /\ load' = load
    BY <1>t, <2>1, ControlEffect, Threads
  <2>3. PhaseA /\ A_End
    BY <2>2, ControlPhase, Threads DEF A_Setup, A_Parked, Is
  <2>4. /\ events' = events /\ count' = count
        /\ \A u \in Task : thread'[u] = IF u = d THEN "dead" ELSE thread[u]
    BY <1>t, <2>1, AbortEffect, Threads
  <2>5. Common' /\ Is("H_Task_SB", "none", "wait_start")'
    BY <2>1, <1>t, <2>2, <2>3, <2>4, Threads DEF IInv, Common, InType, PhaseA, Is, MainTasks
  <2>6. A_End'
    BY <1>t, <2>1, <2>2, <2>3, <2>4, Threads, CountAssumption DEF A_End, InType, Is, MainTasks
  <2>7. QED
    BY <1>t, <2>1, <2>3, <2>5, <2>6 DEF IInv, PhaseA, A_Loop
<1>31. CASE UNCHANGED vars
  BY <1>t, <1>31
  DEF vars, IInv, Common, PhaseA, PhaseB, A_Setup, A_Loop, A_Pace, A_First, A_Armed,
      A_Released, A_Blocked, A_Recorded, A_Parked, A_End, RoundA, B_Setup, B_Loop, B_Pace,
      B_Armed, B_Tried, B_Recorded, B_Parked, RoundB, Between, HighPends, measured, Is,
      Pended, Woken
<1>32. QED
  BY <1>1, <1>2, <1>3, <1>4, <1>5, <1>6, <1>7, <1>8, <1>9, <1>10, <1>11, <1>12, <1>13, <1>14,
     <1>15, <1>16, <1>17, <1>18, <1>19, <1>20, <1>21, <1>22, <1>23, <1>24, <1>25, <1>26,
     <1>27, <1>28, <1>29, <1>30, <1>31
  DEF Next, ThreadStep, ControlStep

\* Every reachable state satisfies the inductive invariant.
THEOREM Invariance == Spec => []IInv
BY IInvInit, IInvStep, PTL DEF Spec

-----------------------------------------------------------------------------
\* The inductive invariant bounds the samples.
LEMMA TypeFromIInv == IInv => TypeOK
<1> SUFFICES ASSUME IInv PROVE TypeOK
  OBVIOUS
<1>t. InType
  BY DEF IInv
<1>1. CASE PhaseA
  <2>1. samples["scenario_a"] \in 0..(MEASUREMENT_COUNT + 1)
    <3>1. CASE A_Setup
      BY <3>1, CountAssumption DEF A_Setup
    <3>2. CASE A_Loop
      <4>1. RoundA \in 0..MEASUREMENT_COUNT
        BY <1>t, CountAssumption DEF InType, RoundA
      <4>2. samples["scenario_a"] \in {RoundA, RoundA + 1}
        BY <3>2 DEF A_Loop, A_First, A_Armed, A_Released, A_Blocked, A_Recorded, A_Parked, RoundA
      <4>3. QED  BY <4>1, <4>2, CountAssumption
    <3>3. CASE A_End
      BY <3>3, CountAssumption DEF A_End
    <3>4. QED  BY <1>1, <3>1, <3>2, <3>3 DEF PhaseA
  <2>2. samples["scenario_b"] \in 0..MEASUREMENT_COUNT
    BY <1>1, CountAssumption DEF PhaseA
  <2>3. QED  BY <1>t, <2>1, <2>2 DEF InType, TypeOK, Series
<1>2. CASE PhaseB
  <2>1. samples["scenario_a"] \in 0..(MEASUREMENT_COUNT + 1)
    BY <1>2, CountAssumption DEF PhaseB
  <2>2. samples["scenario_b"] \in 0..MEASUREMENT_COUNT
    <3>1. CASE B_Setup
      BY <3>1, CountAssumption DEF B_Setup
    <3>2. CASE B_Loop
      <4>1. RoundB \in 0..MEASUREMENT_COUNT
        BY <1>t, CountAssumption DEF InType, RoundB
      <4>2. samples["scenario_b"] = RoundB \/ samples["scenario_b"] + 1 = RoundB
        BY <3>2 DEF B_Loop, B_Armed, B_Tried, B_Recorded, B_Parked
      <4>3. samples["scenario_b"] \in Nat
        BY <1>t DEF InType, Series
      <4>4. QED  BY <4>1, <4>2, <4>3, CountAssumption
    <3>3. QED  BY <1>2, <3>1, <3>2 DEF PhaseB
  <2>3. QED  BY <1>t, <2>1, <2>2 DEF InType, TypeOK, Series
<1>3. QED  BY <1>1, <1>2 DEF IInv

\* H_Task_SB runs only in scenario B, and then alone.
LEMMA HighSBPhase ==
    ASSUME IInv
    PROVE  /\ window = "scenario_b" => PhaseB /\ B_Tried
           /\ thread["H_Task_SB"] = "ready" /\ pc["H_Task_SB"] = "wait" => PhaseB /\ B_Armed
           /\ PhaseB => \A u \in Task :
                 u \in {"I_Task", "H_Task_SB"} \/ thread[u] \in {"dead", "none"}
<1>1. PhaseA => window # "scenario_b" /\ thread["H_Task_SB"] # "ready"
  BY DEF PhaseA, Is
<1>2. B_Setup => window = "closed" /\ ~(thread["H_Task_SB"] = "ready" /\ pc["H_Task_SB"] = "wait")
  BY DEF B_Setup, Is
<1>3. B_Loop /\ window = "scenario_b" => B_Tried
  BY DEF B_Loop, B_Armed, B_Recorded, B_Parked
<1>4. B_Loop /\ thread["H_Task_SB"] = "ready" /\ pc["H_Task_SB"] = "wait" => B_Armed
  BY DEF B_Loop, B_Tried, B_Recorded, B_Parked, Is
<1>5. PhaseB => \A u \in Task : u \in {"I_Task", "H_Task_SB"} \/ thread[u] \in {"dead", "none"}
  BY Threads DEF IInv, Common, PhaseB, MainTasks
<1>6. QED  BY <1>1, <1>2, <1>3, <1>4, <1>5 DEF IInv, PhaseB

\* In scenario A only H_Task_SA and the dummies pend on what is measured.
LEMMA Queue ==
    ASSUME IInv, PhaseA, Pended
    PROVE  \A u \in Task \ {"L_Task_SA", "H_Task_SA"} : thread[u] = measured <=> u \in load
<1>1. CASE primitive = "sem"
  <2>1. load = {} /\ measured = test_sem
    BY <1>1 DEF IInv, Common, measured
  <2>2. QED  BY <2>1, Threads DEF IInv, Common, PhaseA, Is, MainTasks
<1>2. CASE primitive = "event"
  <2>1. measured = A
    BY <1>2 DEF measured
  <2>2. QED  BY <2>1, Threads DEF IInv, InType, Common, PhaseA, Pended, Is, MainTasks
<1>3. QED  BY <1>1, <1>2 DEF IInv, InType

\* The inductive invariant implies the isolation of the windows.
LEMMA IsolationFromIInv == IInv => WindowIsolation
<1> SUFFICES ASSUME IInv PROVE WindowIsolation
  OBVIOUS
<1>1. ASSUME Runs("L_Task_SA"), pc["L_Task_SA"] = "stop", samples["scenario_a"] > 0
      PROVE  window = "scenario_a" /\ Waiters(measured) = {"H_Task_SA"} \cup load
  <2>1. thread["L_Task_SA"] = "ready" /\ thread["H_Task_SA"] # "ready"
    BY <1>1, PrioAssumption, Threads DEF Runs, Ready
  <2>2. PhaseA
    BY <2>1 DEF IInv, PhaseB
  <2>3. A_Blocked
    BY <1>1, <2>1, <2>2
    DEF PhaseA, A_Setup, A_Loop, A_First, A_Armed, A_Released, A_Recorded, A_Parked, A_End, Is
  <2>4. \A u \in Task : thread[u] = measured <=> u = "H_Task_SA" \/ u \in load
    <3>1. thread["H_Task_SA"] = measured /\ thread["L_Task_SA"] # measured
      BY <2>1, <2>3 DEF A_Blocked, HighPends, Is, measured
    <3>2. "L_Task_SA" \notin load /\ "H_Task_SA" \notin load
      BY Threads DEF IInv, InType, MainTasks
    <3>3. \A u \in Task \ {"L_Task_SA", "H_Task_SA"} : thread[u] = measured <=> u \in load
      BY <2>2, <2>3, Queue DEF A_Blocked
    <3>4. QED  BY <3>1, <3>2, <3>3
  <2>5. load \subseteq Task
    BY Threads DEF IInv, InType
  <2>6. QED  BY <2>3, <2>4, <2>5, Threads DEF A_Blocked, Waiters
<1>2. ASSUME window = "scenario_b"
      PROVE  Runs("H_Task_SB") /\ pc["H_Task_SB"] = "stop"
  <2>1. PhaseB /\ B_Tried
    BY <1>2, HighSBPhase
  <2>2. \A u \in Task : thread[u] = "ready" => u \in {"I_Task", "H_Task_SB"}
    BY <2>1, HighSBPhase
  <2>3. QED
    BY <2>1, <2>2, PrioAssumption, Threads DEF B_Tried, Is, Runs, Ready
<1>3. QED  BY <1>1, <1>2 DEF WindowIsolation

\* The inductive invariant implies that the windows open on the same state.
LEMMA ConditionsFromIInv == IInv => SameConditions
<1> SUFFICES ASSUME IInv PROVE SameConditions
  OBVIOUS
<1> DEFINE nothing == count[test_sem] = 0 /\ events \cap {A, B} = {}
<1>1. ASSUME Runs("H_Task_SA"), pc["H_Task_SA"] = "wait"
      PROVE  Waiters(measured) = load /\ nothing
  <2>1. /\ thread["H_Task_SA"] = "ready"
        /\ \A d \in Dummies : thread[d] # "ready"
    BY <1>1, PrioAssumption, Threads DEF Runs, Ready
  <2>2. PhaseA /\ (A_First \/ A_Released)
    BY <1>1, <2>1, HighPhase
  <2>3. Pended
    BY <2>1, <2>2 DEF IInv, InType, A_First, A_Released, Pended, Woken
  <2>4. \A u \in Task : thread[u] = measured <=> u \in load
    <3>1. thread["H_Task_SA"] # measured /\ thread["L_Task_SA"] # measured
      BY <2>2 DEF A_First, A_Released, Is, measured
    <3>2. "L_Task_SA" \notin load /\ "H_Task_SA" \notin load
      BY Threads DEF IInv, InType, MainTasks
    <3>3. \A u \in Task \ {"L_Task_SA", "H_Task_SA"} : thread[u] = measured <=> u \in load
      BY <2>2, <2>3, Queue
    <3>4. QED  BY <3>1, <3>2, <3>3
  <2>5. load \subseteq Task
    BY Threads DEF IInv, InType
  <2>6. Waiters(measured) = load
    BY <2>4, <2>5 DEF Waiters
  <2>7. nothing
    BY <2>2 DEF IInv, Common, A_First, A_Released
  <2>8. QED  BY <2>6, <2>7
<1>2. ASSUME Runs("H_Task_SB"), pc["H_Task_SB"] = "wait"
      PROVE  /\ nothing
             /\ \A c \in {START, YIELD, A, B, test_sem} : Waiters(c) = {}
             /\ \A t \in load \cup {"L_Task_SA", "H_Task_SA"} : thread[t] = "dead"
  <2>1. PhaseB /\ B_Armed
    BY <1>2, HighSBPhase DEF Runs, Ready
  <2>2. nothing
    BY <2>1 DEF IInv, Common, B_Armed
  <2>3. \A u \in Task : thread[u] \in {"ready", "dead", "none"}
    BY <2>1, HighSBPhase DEF IInv, Common, B_Armed, Is
  <2>4. \A c \in {START, YIELD, A, B, test_sem} : Waiters(c) = {}
    BY <2>3 DEF Waiters
  <2>5. QED  BY <2>1, <2>2, <2>4 DEF PhaseB
<1>3. QED  BY <1>1, <1>2 DEF SameConditions

\* The inductive invariant implies that no resume is lost.
LEMMA ResumeFromIInv == IInv => NoLostResume
<1> SUFFICES ASSUME IInv PROVE NoLostResume
  OBVIOUS
<1>1. ASSUME Runs("I_Task")
      PROVE  \A u \in Task : thread[u] = "ready" => u = "I_Task"
  BY <1>1, PrioAssumption, Threads DEF Runs, Ready
<1>2. ASSUME Runs("I_Task"), pc["I_Task"] = "resume_sa"
      PROVE  thread["L_Task_SA"] = "suspended"
  BY <1>1, <1>2, ControlPhase DEF A_Parked, Is
<1>3. ASSUME Runs("I_Task"), pc["I_Task"] = "resume_sb"
      PROVE  thread["H_Task_SB"] = "suspended"
  BY <1>1, <1>3, ControlPhase DEF B_Parked, Is
<1>4. QED  BY <1>2, <1>3 DEF NoLostResume

\* Every variable keeps its type, and L_Task_SA records at most one sample
\* more than I_Task asks for.
THEOREM Types == Spec => []TypeOK
BY Invariance, TypeFromIInv, PTL

\* The window of scenario A holds the switch and nothing else; in a window of
\* scenario B only H_Task_SB runs.
THEOREM Isolation == Spec => []WindowIsolation
BY Invariance, IsolationFromIInv, PTL

\* The measured call of scenario A always pends behind the dummies, and that
\* of scenario B finds neither a count, nor a bit, nor a thread of scenario A.
THEOREM Conditions == Spec => []SameConditions
BY Invariance, ConditionsFromIInv, PTL

\* No resume comes before the suspend that it answers.
THEOREM Resumes == Spec => []NoLostResume
BY Invariance, ResumeFromIInv, PTL
=============================================================================
