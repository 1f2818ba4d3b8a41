-------------------------- MODULE SemPreemptProofs --------------------------
(***************************************************************************)
(* Theorems about SemPreempt, for every number of iterations, every pool   *)
(* of dummies and every assignment of priorities that has the order which  *)
(* the sources ask for.                                                    *)
(***************************************************************************)
EXTENDS SemPreempt, TLAPS

USE DEF START, YIELD, test_sem

\* The kernel operations keep the kernel's state well typed.
LEMMA KernelTyping ==
    ASSUME KernelTypeOK, NEW t \in Task, NEW e \in {START, YIELD},
           \/ Create(t) \/ Abort(t) \/ Suspend(t) \/ Resume(t)
           \/ SemTake(t, test_sem) \/ SemGive(test_sem) \/ SemReset(test_sem)
           \/ EventWait(t, e) \/ EventPost(e) \/ NoCall
    PROVE  KernelTypeOK'
<1> USE DEF KernelTypeOK, ThreadState
<1>1. CASE Create(t)  BY <1>1 DEF Create
<1>2. CASE Abort(t)  BY <1>2 DEF Abort
<1>3. CASE Suspend(t)  BY <1>3 DEF Suspend
<1>4. CASE Resume(t)  BY <1>4 DEF Resume
<1>5. CASE SemTake(t, test_sem)  BY <1>5 DEF SemTake
<1>6. CASE SemGive(test_sem)  BY <1>6 DEF SemGive
<1>7. CASE SemReset(test_sem)  BY <1>7 DEF SemReset
<1>8. CASE EventWait(t, e)  BY <1>8 DEF EventWait
<1>9. CASE EventPost(e)  BY <1>9 DEF EventPost
<1>10. CASE NoCall  BY <1>10 DEF NoCall, kvars
<1>11. QED  BY <1>1, <1>2, <1>3, <1>4, <1>5, <1>6, <1>7, <1>8, <1>9, <1>10

\* The initial states are well typed.
LEMMA TypeInit == Init => TypeOK
<1>1. SUFFICES ASSUME Init PROVE TypeOK
  OBVIOUS
<1>2. KernelTypeOK
  BY <1>1 DEF Init, KernelTypeOK, ThreadState
<1>3. pc \in [Task -> Labels]
  BY <1>1 DEF Init, Entry, Labels, Task, MainTasks, Dummies
<1>4. i \in 0..(MEASUREMENT_COUNT - 1)
  BY <1>1, CountAssumption DEF Init
<1>5. QED  BY <1>1, <1>2, <1>3, <1>4 DEF Init, TypeOK

\* Every step keeps the state well typed.
LEMMA TypeStep == TypeOK /\ [Next]_vars => TypeOK'
<1> SUFFICES ASSUME TypeOK, [Next]_vars PROVE TypeOK'
  OBVIOUS
<1> USE CountAssumption DEF Step, Quiet, NoSample, OpenWindow, RecordSample, build, TypeOK, Labels
<1>t. /\ {"I_Task", "L_Task_SA", "H_Task_SA", "L_Task_SB", "H_Task_SB"} \subseteq Task
      /\ Dummies \subseteq Task
  BY DEF Task, MainTasks
<1>1. CASE LowSA_WaitStart  BY <1>1, <1>t, KernelTyping DEF LowSA_WaitStart
<1>2. CASE LowSA_Give  BY <1>2, <1>t, KernelTyping DEF LowSA_Give
<1>3. CASE LowSA_Suspend  BY <1>3, <1>t, KernelTyping DEF LowSA_Suspend
<1>4. CASE HighSA_PostStart  BY <1>4, <1>t, KernelTyping DEF HighSA_PostStart
<1>5. CASE HighSA_Take  BY <1>5, <1>t, KernelTyping DEF HighSA_Take
<1>6. CASE HighSA_Stop  BY <1>6, <1>t, KernelTyping DEF HighSA_Stop
<1>7. CASE HighSB_WaitStart  BY <1>7, <1>t, KernelTyping DEF HighSB_WaitStart
<1>8. CASE HighSB_Suspend  BY <1>8, <1>t, KernelTyping DEF HighSB_Suspend
<1>9. CASE HighSB_Give  BY <1>9, <1>t, KernelTyping DEF HighSB_Give
<1>10. CASE HighSB_Stop  BY <1>10, <1>t, KernelTyping DEF HighSB_Stop
<1>11. CASE LowSB_PostStart  BY <1>11, <1>t, KernelTyping DEF LowSB_PostStart
<1>12. CASE LowSB_PostYield  BY <1>12, <1>t, KernelTyping DEF LowSB_PostYield
<1>13. CASE LowSB_Park  BY <1>13, <1>t, KernelTyping DEF LowSB_Park
<1>14. CASE \E d \in Dummies : Dummy_Take(d)
  BY <1>14, <1>t, KernelTyping DEF Dummy_Take
<1>15. CASE I_CreateHighSA  BY <1>15, <1>t, KernelTyping DEF I_CreateHighSA, I_Create
<1>16. CASE I_CreateLowSA
  BY <1>16, <1>t, KernelTyping DEF I_CreateLowSA, AfterLowSA, I_Create
<1>17. CASE I_WaitSA  BY <1>17, <1>t, KernelTyping DEF I_WaitSA
<1>18. CASE I_ResumeSA  BY <1>18, <1>t, KernelTyping DEF I_ResumeSA, I_Resume
<1>19. CASE I_AbortLowSA  BY <1>19, <1>t, KernelTyping DEF I_AbortLowSA, I_Abort
<1>20. CASE I_AbortHighSA  BY <1>20, <1>t, KernelTyping DEF I_AbortHighSA, I_Abort
<1>21. CASE I_Reset  BY <1>21, <1>t, KernelTyping DEF I_Reset
<1>22. CASE I_CreateHighSB  BY <1>22, <1>t, KernelTyping DEF I_CreateHighSB, I_Create
<1>23. CASE I_CreateLowSB  BY <1>23, <1>t, KernelTyping DEF I_CreateLowSB, I_Create
<1>24. CASE I_WaitSB  BY <1>24, <1>t, KernelTyping DEF I_WaitSB
<1>25. CASE I_ResumeSB  BY <1>25, <1>t, KernelTyping DEF I_ResumeSB, I_Resume
<1>26. CASE I_AbortLowSB  BY <1>26, <1>t, KernelTyping DEF I_AbortLowSB, I_Abort
<1>27. CASE I_AbortHighSB  BY <1>27, <1>t, KernelTyping DEF I_AbortHighSB, I_Abort
<1>28. CASE I_Signalize  BY <1>28, <1>t, KernelTyping DEF I_Signalize
<1>29. CASE \E d \in Dummies : I_CreateDummySA(d)
  BY <1>29, <1>t, KernelTyping DEF I_CreateDummySA, I_Create
<1>30. CASE \E d \in Dummies : I_AbortDummySA(d)
  BY <1>30, <1>t, KernelTyping DEF I_AbortDummySA, I_Abort
<1>31. CASE \E d \in Dummies : I_CreateDummySB(d)
  BY <1>31, <1>t, KernelTyping DEF I_CreateDummySB, I_Create
<1>32. CASE UNCHANGED vars
  BY <1>32 DEF vars, KernelTypeOK
<1>33. QED
  BY <1>1, <1>2, <1>3, <1>4, <1>5, <1>6, <1>7, <1>8, <1>9, <1>10, <1>11, <1>12, <1>13,
     <1>14, <1>15, <1>16, <1>17, <1>18, <1>19, <1>20, <1>21, <1>22, <1>23, <1>24, <1>25,
     <1>26, <1>27, <1>28, <1>29, <1>30, <1>31, <1>32
  DEF Next, ThreadStep, ControlStep

\* Type correctness.
THEOREM TypeCorrect == Spec => []TypeOK
<1>1. QED  BY TypeInit, TypeStep, PTL DEF Spec

-----------------------------------------------------------------------------
(***************************************************************************)
(* The inductive invariant follows I_Task through the test.  I_Task is     *)
(* always ready and runs only when nothing else is, so each label of       *)
(* I_Task comes with the few positions that the pair of the scenario can   *)
(* be in: that is what makes both hand-offs safe.                          *)
(***************************************************************************)
Is(t, state, label) == thread[t] = state /\ pc[t] = label

Fresh(T) == \A t \in T : Is(t, "none", Entry[t])
Gone(T) == \A t \in T : thread[t] \in {"none", "dead"}
Pended(T) == \A d \in T : thread[d] = test_sem

TasksSA == {"L_Task_SA", "H_Task_SA"} \cup SaDummies
TasksSB == {"L_Task_SB", "H_Task_SB"} \cup SbDummies

\* What holds at every label.
Common ==
    /\ thread["I_Task"] = "ready"
    /\ \A d \in Dummies : pc[d] = "take" /\ (d \notin load => thread[d] = "none")

\* Scenario A before L_Task_SA exists.
A_Setup ==
    /\ window = "closed" /\ i = 0 /\ samples["scenario_a"] = 0
    /\ Is("L_Task_SA", "none", "wait_start")
    /\ \/ /\ pc["I_Task"] = "create_high_sa"
          /\ Is("H_Task_SA", "none", "post_start")
          /\ Fresh(SaDummies)
          /\ events = {}
       \/ /\ pc["I_Task"] = "create_low_sa"
          /\ \/ Is("H_Task_SA", "ready", "post_start") /\ events = {} /\ Fresh(SaDummies)
             \/ Is("H_Task_SA", "ready", "take") /\ events = {START} /\ Fresh(SaDummies)
             \/ /\ Is("H_Task_SA", test_sem, "stop")
                /\ events = {START}
                /\ \A d \in SaLoad : thread[d] \in {"none", "ready", test_sem}

\* The number of windows of scenario A that I_Task has asked for; L_Task_SA
\* opens one more, unasked.
RoundA == IF pc["I_Task"] = "abort_low_sa" THEN MEASUREMENT_COUNT - 1 ELSE i

A_Pace ==
    /\ \/ pc["I_Task"] \in {"wait_sa", "resume_sa"} /\ i < MEASUREMENT_COUNT - 1
       \/ pc["I_Task"] = "abort_low_sa" /\ i = 0
    /\ Pended(SaLoad)

\* L_Task_SA is about to open a window.
A_Armed ==
    /\ pc["I_Task"] # "resume_sa"
    /\ window = "closed" /\ samples["scenario_a"] = RoundA
    /\ Is("H_Task_SA", test_sem, "stop")
    /\ \/ Is("L_Task_SA", "ready", "wait_start") /\ events = {START}
       \/ Is("L_Task_SA", "ready", "give") /\ events = {}

\* The give has switched to H_Task_SA.
A_Given ==
    /\ pc["I_Task"] # "resume_sa"
    /\ window = "scenario_a" /\ samples["scenario_a"] = RoundA
    /\ Is("H_Task_SA", "ready", "stop")
    /\ Is("L_Task_SA", "ready", "suspend") /\ events = {}

\* The sample is recorded and L_Task_SA has not suspended itself yet.
A_Recorded ==
    /\ pc["I_Task"] # "resume_sa"
    /\ window = "closed" /\ samples["scenario_a"] = RoundA + 1
    /\ Is("H_Task_SA", "ready", "take") \/ Is("H_Task_SA", test_sem, "stop")
    /\ Is("L_Task_SA", "ready", "suspend") /\ events = {YIELD}

\* Both threads are parked: I_Task runs.
A_Parked ==
    /\ window = "closed" /\ samples["scenario_a"] = RoundA + 1
    /\ Is("H_Task_SA", test_sem, "stop")
    /\ Is("L_Task_SA", "suspended", "give")
    /\ events = IF pc["I_Task"] = "resume_sa" THEN {} ELSE {YIELD}

A_Loop == A_Pace /\ (A_Armed \/ A_Given \/ A_Recorded \/ A_Parked)

\* Scenario A is being dismantled; the last YIELD is left unconsumed.
A_End ==
    /\ window = "closed" /\ i = 0 /\ samples["scenario_a"] = MEASUREMENT_COUNT
    /\ events = {YIELD}
    /\ thread["L_Task_SA"] = "dead"
    /\ \/ pc["I_Task"] = "abort_high_sa" /\ thread["H_Task_SA"] = test_sem /\ Pended(SaLoad)
       \/ /\ pc["I_Task"] = "reset"
          /\ thread["H_Task_SA"] = "dead"
          /\ \A d \in SaLoad : thread[d] \in {test_sem, "dead"}

PhaseA ==
    /\ Fresh(TasksSB)
    /\ count[test_sem] = 0
    /\ samples["scenario_b"] = 0
    /\ A_Setup \/ A_Loop \/ A_End

\* Scenario B before L_Task_SB exists.
B_Setup ==
    /\ window = "closed" /\ i = 0 /\ samples["scenario_b"] = 0 /\ count[test_sem] = 0
    /\ Is("L_Task_SB", "none", "post_start") /\ Fresh(SbDummies)
    /\ events = {YIELD}
    /\ \/ pc["I_Task"] = "create_high_sb" /\ Is("H_Task_SB", "none", "wait_start")
       \/ /\ pc["I_Task"] = "create_low_sb"
          /\ Is("H_Task_SB", "ready", "wait_start") \/ Is("H_Task_SB", START, "suspend")

\* The number of windows of scenario B that I_Task has asked for.
RoundB == IF pc["I_Task"] = "abort_low_sb" THEN MEASUREMENT_COUNT ELSE i

\* The count after n gives of scenario B.
CountAfter(n) == IF hasWaiter \/ SbLoad # {} THEN 0 ELSE n

\* Where L_Task_SB stands between two iterations.
Parked == Is("L_Task_SB", IF hasWaiter THEN test_sem ELSE "suspended", "post_yield")

B_Pace ==
    /\ \/ pc["I_Task"] \in {"wait_sb", "resume_sb"} /\ i < MEASUREMENT_COUNT
       \/ pc["I_Task"] = "abort_low_sb" /\ i = 0
    /\ \A d \in SbLoad :
          \/ thread[d] \in {"ready", test_sem}
          \/ thread[d] = "none" /\ pc["I_Task"] = "wait_sb" /\ i = 0

\* L_Task_SB starts the pair.
B_Start ==
    /\ pc["I_Task"] = "wait_sb" /\ i = 0
    /\ window = "closed" /\ samples["scenario_b"] = 0 /\ count[test_sem] = 0
    /\ events = {YIELD}
    /\ \/ Is("H_Task_SB", START, "suspend") /\ Is("L_Task_SB", "ready", "post_start")
       \/ Is("H_Task_SB", "ready", "suspend") /\ Is("L_Task_SB", "ready", "post_yield")

\* H_Task_SB is about to open a window.
B_Armed ==
    /\ pc["I_Task"] # "resume_sb" /\ RoundB > 0
    /\ window = "closed" /\ samples["scenario_b"] = RoundB - 1
    /\ count[test_sem] = CountAfter(RoundB - 1)
    /\ Is("H_Task_SB", "ready", "give") /\ Parked /\ events = {}
    /\ Pended(SbLoad)

\* The give is done and has not switched.
B_Given ==
    /\ pc["I_Task"] # "resume_sb" /\ RoundB > 0
    /\ window = "scenario_b" /\ samples["scenario_b"] = RoundB - 1
    /\ count[test_sem] = CountAfter(RoundB)
    /\ Is("H_Task_SB", "ready", "stop")
    /\ Is("L_Task_SB", IF hasWaiter THEN "ready" ELSE "suspended", "post_yield")
    /\ events = {}

\* No window is open and RoundB samples are recorded.
B_Counted ==
    /\ window = "closed" /\ samples["scenario_b"] = RoundB
    /\ count[test_sem] = CountAfter(RoundB)

\* The sample is recorded and H_Task_SB has not suspended itself yet.
B_Recorded ==
    /\ B_Counted /\ pc["I_Task"] # "resume_sb" /\ RoundB > 0
    /\ Is("H_Task_SB", "ready", "suspend")
    /\ Is("L_Task_SB", "ready", "post_yield") /\ events = {}

\* L_Task_SB is on its way to the place where it is parked.
B_Parking ==
    /\ B_Counted /\ pc["I_Task"] # "resume_sb"
    /\ Is("H_Task_SB", "suspended", "give")
    /\ \/ Is("L_Task_SB", "ready", "post_yield") /\ events \subseteq {YIELD}
       \/ Is("L_Task_SB", "ready", "park") /\ events = {YIELD}

\* Both threads are parked: the dummies and then I_Task run.
B_Parked ==
    /\ B_Counted
    /\ Is("H_Task_SB", "suspended", "give") /\ Parked
    /\ events = IF pc["I_Task"] = "resume_sb" THEN {} ELSE {YIELD}
    /\ pc["I_Task"] = "resume_sb" => Pended(SbLoad)

B_Loop ==
    B_Pace /\ (B_Start \/ B_Armed \/ B_Given \/ B_Recorded \/ B_Parking \/ B_Parked)

B_End ==
    /\ window = "closed" /\ samples["scenario_b"] = MEASUREMENT_COUNT
    /\ count[test_sem] = CountAfter(MEASUREMENT_COUNT)
    /\ Pended(SbLoad)
    /\ thread["L_Task_SB"] = "dead"
    /\ \/ pc["I_Task"] = "abort_high_sb" /\ thread["H_Task_SB"] = "suspended"
       \/ pc["I_Task"] = "signalize" /\ thread["H_Task_SB"] = "dead"

PhaseB ==
    /\ Gone(TasksSA)
    /\ samples["scenario_a"] = MEASUREMENT_COUNT
    /\ B_Setup \/ B_Loop \/ B_End

IInv == TypeOK /\ Common /\ (PhaseA \/ PhaseB)

\* The named threads are threads, and no dummy is one of them.
LEMMA Threads ==
    /\ "I_Task" \in Task /\ "L_Task_SA" \in Task /\ "H_Task_SA" \in Task
    /\ "L_Task_SB" \in Task /\ "H_Task_SB" \in Task
    /\ \A d \in Dummies : d \in Task /\ d \notin MainTasks
    /\ \A d \in SaDummies : d \in Dummies /\ d \notin SbDummies
    /\ \A d \in SbDummies : d \in Dummies /\ d \notin SaDummies
    /\ \A d \in SaLoad : d \in SaDummies /\ d \in load
    /\ \A d \in SbLoad : d \in SbDummies /\ d \in load
    /\ \A t \in Task : t \in MainTasks \/ t \in SaDummies \/ t \in SbDummies
BY TaskAssumption DEF Task, MainTasks, Dummies, SaLoad, SbLoad

\* What Step and the kernel operations do, thread by thread.
LEMMA StepEffect ==
    ASSUME TypeOK, NEW t \in Task, NEW l, NEW m, Step(t, l, m)
    PROVE  /\ thread[t] = "ready" /\ pc[t] = l
           /\ \A u \in Task : thread[u] = "ready" => prio[t] <= prio[u]
           /\ \A u \in Task : pc'[u] = IF u = t THEN m ELSE pc[u]
           /\ hasWaiter' = hasWaiter /\ load' = load
BY DEF TypeOK, Step, Runs, Ready, build

\* I_Task runs only when nothing else is ready.
LEMMA ControlEffect ==
    ASSUME TypeOK, NEW l, NEW m, Step("I_Task", l, m)
    PROVE  /\ thread["I_Task"] = "ready" /\ pc["I_Task"] = l
           /\ \A u \in Task : thread[u] = "ready" => u = "I_Task"
           /\ \A u \in Task : pc'[u] = IF u = "I_Task" THEN m ELSE pc[u]
           /\ hasWaiter' = hasWaiter /\ load' = load
BY StepEffect, PrioAssumption, Threads

\* k_thread_create() makes one unborn thread ready.
LEMMA CreateEffect ==
    ASSUME TypeOK, NEW t \in Task, Create(t)
    PROVE  /\ thread[t] = "none"
           /\ \A u \in Task : thread'[u] = IF u = t THEN "ready" ELSE thread[u]
           /\ events' = events /\ count' = count
BY DEF TypeOK, KernelTypeOK, Create

\* k_thread_abort() ends one thread.
LEMMA AbortEffect ==
    ASSUME TypeOK, NEW t \in Task, Abort(t)
    PROVE  /\ \A u \in Task : thread'[u] = IF u = t THEN "dead" ELSE thread[u]
           /\ events' = events /\ count' = count
BY DEF TypeOK, KernelTypeOK, Abort

\* k_thread_suspend() suspends one thread.
LEMMA SuspendEffect ==
    ASSUME TypeOK, NEW t \in Task, Suspend(t)
    PROVE  /\ \A u \in Task : thread'[u] = IF u = t THEN "suspended" ELSE thread[u]
           /\ events' = events /\ count' = count
BY DEF TypeOK, KernelTypeOK, Suspend

\* k_thread_resume() of a suspended thread makes it ready.
LEMMA ResumeEffect ==
    ASSUME TypeOK, NEW t \in Task, Resume(t), thread[t] = "suspended"
    PROVE  /\ \A u \in Task : thread'[u] = IF u = t THEN "ready" ELSE thread[u]
           /\ events' = events /\ count' = count
BY DEF TypeOK, KernelTypeOK, Resume

\* k_sem_take() of an empty semaphore pends the caller.
LEMMA TakeEffect ==
    ASSUME TypeOK, NEW t \in Task, SemTake(t, test_sem), count[test_sem] = 0
    PROVE  /\ \A u \in Task : thread'[u] = IF u = t THEN test_sem ELSE thread[u]
           /\ events' = events /\ count' = count
BY DEF TypeOK, KernelTypeOK, SemTake

\* k_sem_give() to a wait queue that is not empty makes its head ready.
LEMMA GiveEffect ==
    ASSUME TypeOK, NEW t \in Task, thread[t] = test_sem, SemGive(test_sem)
    PROVE  \E w \in Task :
              /\ thread[w] = test_sem
              /\ \A u \in Task : thread[u] = test_sem => prio[w] <= prio[u]
              /\ \A u \in Task : thread'[u] = IF u = w THEN "ready" ELSE thread[u]
              /\ events' = events /\ count' = count
BY DEF TypeOK, KernelTypeOK, SemGive, IsHead, Waiters

\* k_sem_give() to an empty wait queue counts.
LEMMA GiveCountEffect ==
    ASSUME TypeOK, \A t \in Task : thread[t] # test_sem, SemGive(test_sem),
           count[test_sem] < K_SEM_MAX_LIMIT
    PROVE  /\ thread' = thread /\ events' = events
           /\ count'[test_sem] = count[test_sem] + 1
BY CountAssumption DEF TypeOK, KernelTypeOK, SemGive, IsHead, Waiters

\* k_sem_reset() with an empty wait queue only clears the count.
LEMMA ResetEffect ==
    ASSUME TypeOK, SemReset(test_sem), \A t \in Task : thread[t] # test_sem
    PROVE  /\ \A u \in Task : thread'[u] = thread[u]
           /\ events' = events /\ count'[test_sem] = 0
BY DEF TypeOK, KernelTypeOK, SemReset

\* k_event_wait_safe() consumes the bit or pends the caller.
LEMMA WaitEffect ==
    ASSUME TypeOK, NEW t \in Task, NEW e \in {START, YIELD}, EventWait(t, e)
    PROVE  /\ \A u \in Task : thread'[u] = IF u = t /\ e \notin events THEN e ELSE thread[u]
           /\ events' = events \ {e}
           /\ count' = count
BY DEF TypeOK, KernelTypeOK, EventWait

\* k_event_post() wakes every waiter of the bit, or leaves it posted.
LEMMA PostEffect ==
    ASSUME TypeOK, NEW e \in {START, YIELD}, EventPost(e)
    PROVE  /\ \A u \in Task : thread'[u] = IF thread[u] = e THEN "ready" ELSE thread[u]
           /\ events' = IF \E u \in Task : thread[u] = e THEN events \ {e} ELSE events \cup {e}
           /\ count' = count
BY DEF TypeOK, KernelTypeOK, EventPost, Waiters

\* When I_Task runs, its label tells where the pair of the scenario is.
LEMMA ControlPhase ==
    ASSUME IInv, \A u \in Task : thread[u] = "ready" => u = "I_Task"
    PROVE  /\ pc["I_Task"] \in {"create_high_sa", "create_low_sa"} => PhaseA /\ A_Setup
           /\ pc["I_Task"] \in {"wait_sa", "resume_sa", "abort_low_sa"} =>
                 PhaseA /\ A_Pace /\ A_Parked
           /\ pc["I_Task"] \in {"abort_high_sa", "reset"} => PhaseA /\ A_End
           /\ pc["I_Task"] \in {"create_high_sb", "create_low_sb"} => PhaseB /\ B_Setup
           /\ pc["I_Task"] \in {"wait_sb", "resume_sb", "abort_low_sb"} =>
                 PhaseB /\ B_Pace /\ B_Parked
           /\ pc["I_Task"] \in {"abort_high_sb", "signalize"} => PhaseB /\ B_End
<1>1. A_Setup => pc["I_Task"] \in {"create_high_sa", "create_low_sa"}
  BY DEF A_Setup
<1>2. A_Loop => pc["I_Task"] \in {"wait_sa", "resume_sa", "abort_low_sa"} /\ A_Pace /\ A_Parked
  BY Threads DEF A_Loop, A_Pace, A_Armed, A_Given, A_Recorded, Is
<1>3. A_End => pc["I_Task"] \in {"abort_high_sa", "reset"}
  BY DEF A_End
<1>4. B_Setup => pc["I_Task"] \in {"create_high_sb", "create_low_sb"}
  BY DEF B_Setup
<1>5. B_Loop => pc["I_Task"] \in {"wait_sb", "resume_sb", "abort_low_sb"} /\ B_Pace /\ B_Parked
  BY Threads DEF B_Loop, B_Pace, B_Start, B_Armed, B_Given, B_Recorded, B_Parking, Is
<1>6. B_End => pc["I_Task"] \in {"abort_high_sb", "signalize"}
  BY DEF B_End
<1>7. QED  BY <1>1, <1>2, <1>3, <1>4, <1>5, <1>6 DEF IInv, PhaseA, PhaseB

\* The inductive invariant holds when main() has returned.
LEMMA IInvInit == Init => IInv
<1> SUFFICES ASSUME Init PROVE IInv
  OBVIOUS
<1>1. Common /\ Fresh(TasksSB) /\ Fresh(TasksSA)
  BY TaskAssumption DEF Init, Common, Fresh, Is, Entry, Task, MainTasks, Dummies, TasksSA, TasksSB
<1>2. A_Setup
  BY <1>1, TaskAssumption
  DEF Init, A_Setup, Is, Fresh, Entry, Task, MainTasks, TasksSA, Dummies
<1>3. QED  BY <1>1, <1>2, TypeInit DEF Init, IInv, PhaseA

\* Every step keeps the inductive invariant.
LEMMA IInvStep == IInv /\ [Next]_vars => IInv'
<1> SUFFICES ASSUME IInv, [Next]_vars PROVE IInv'
  OBVIOUS
<1>t. TypeOK /\ TypeOK'
  BY TypeStep DEF IInv
<1>1. ASSUME LowSA_WaitStart PROVE IInv'
  <2>1. /\ Step("L_Task_SA", "wait_start", "give") /\ EventWait("L_Task_SA", START)
        /\ window' = window /\ samples' = samples /\ i' = i
    BY <1>t, <1>1 DEF LowSA_WaitStart, Quiet, NoSample
  <2>2. /\ thread["L_Task_SA"] = "ready" /\ pc["L_Task_SA"] = "wait_start"
        /\ \A u \in Task : thread[u] = "ready" => prio["L_Task_SA"] <= prio[u]
        /\ \A u \in Task : pc'[u] = IF u = "L_Task_SA" THEN "give" ELSE pc[u]
        /\ hasWaiter' = hasWaiter /\ load' = load
    BY <1>t, <2>1, StepEffect, Threads
  <2>3. PhaseA /\ A_Pace /\ A_Armed /\ events = {START}
    BY <2>2, Threads
    DEF IInv, PhaseA, PhaseB, Gone, TasksSA, A_Setup, A_Loop, A_Pace, A_Armed, A_Given,
       A_Recorded, A_Parked, A_End, RoundA, Is
  <2>4. /\ \A u \in Task : thread'[u] = thread[u]
        /\ events' = {} /\ count' = count
    BY <1>t, <2>1, <2>3, WaitEffect, Threads
  <2>5. Common'
    BY <2>2, <2>3, <2>4, Threads DEF IInv, Common, MainTasks, Pended, PhaseA, PhaseB, Gone,
       TasksSA
  <2>6. Fresh(TasksSB)'
    BY <2>2, <2>3, <2>4, Threads DEF PhaseA, Fresh, TasksSB, Is, MainTasks
  <2>7. A_Pace' /\ A_Armed'
    BY <2>1, <2>2, <2>3, <2>4, Threads, CountAssumption
    DEF A_Pace, RoundA, A_Armed, Is, MainTasks, Pended, SaLoad, SbLoad
  <2>8. QED
    BY <1>t, <2>1, <2>3, <2>4, <2>5, <2>6, <2>7 DEF IInv, PhaseA, A_Loop
<1>2. ASSUME LowSA_Give PROVE IInv'
  <2>1. /\ Step("L_Task_SA", "give", "suspend") /\ SemGive(test_sem)
        /\ window' = "scenario_a" /\ samples' = samples /\ i' = i
    BY <1>t, <1>2 DEF LowSA_Give, OpenWindow
  <2>2. /\ thread["L_Task_SA"] = "ready" /\ pc["L_Task_SA"] = "give"
        /\ \A u \in Task : thread[u] = "ready" => prio["L_Task_SA"] <= prio[u]
        /\ \A u \in Task : pc'[u] = IF u = "L_Task_SA" THEN "suspend" ELSE pc[u]
        /\ hasWaiter' = hasWaiter /\ load' = load
    BY <1>t, <2>1, StepEffect, Threads
  <2>3. PhaseA /\ A_Pace /\ A_Armed /\ events = {}
    BY <2>2, Threads
    DEF IInv, PhaseA, PhaseB, Gone, TasksSA, A_Setup, A_Loop, A_Pace, A_Armed, A_Given,
       A_Recorded, A_Parked, A_End, RoundA, Is
  <2>4. /\ \A u \in Task : thread'[u] = IF u = "H_Task_SA" THEN "ready" ELSE thread[u]
        /\ events' = events /\ count' = count
    <3>1. \A u \in Task : thread[u] = test_sem => u = "H_Task_SA" \/ u \in SaDummies
      BY <2>2, <2>3, Threads DEF IInv, Common, PhaseA, Fresh, TasksSB, Is, MainTasks
    <3>2. PICK w \in Task :
            /\ thread[w] = test_sem
            /\ \A u \in Task : thread[u] = test_sem => prio[w] <= prio[u]
            /\ \A u \in Task : thread'[u] = IF u = w THEN "ready" ELSE thread[u]
            /\ events' = events /\ count' = count
      BY <1>t, <2>1, <2>3, GiveEffect, Threads DEF A_Armed, Is
    <3>3. w = "H_Task_SA"
      BY <2>3, <3>1, <3>2, PrioAssumption, Threads DEF A_Armed, Is
    <3>4. QED  BY <3>2, <3>3
  <2>5. Common'
    BY <2>2, <2>3, <2>4, Threads DEF IInv, Common, MainTasks, Pended, PhaseA, PhaseB, Gone,
       TasksSA
  <2>6. Fresh(TasksSB)'
    BY <2>2, <2>3, <2>4, Threads DEF PhaseA, Fresh, TasksSB, Is, MainTasks
  <2>7. A_Pace' /\ A_Given'
    BY <2>1, <2>2, <2>3, <2>4, Threads, CountAssumption
    DEF A_Pace, RoundA, A_Armed, A_Given, Is, MainTasks, Pended, SaLoad, SbLoad
  <2>8. QED
    BY <1>t, <2>1, <2>3, <2>4, <2>5, <2>6, <2>7 DEF IInv, PhaseA, A_Loop
<1>3. ASSUME LowSA_Suspend PROVE IInv'
  <2>1. /\ Step("L_Task_SA", "suspend", "give") /\ Suspend("L_Task_SA")
        /\ window' = window /\ samples' = samples /\ i' = i
    BY <1>t, <1>3 DEF LowSA_Suspend, Quiet, NoSample
  <2>2. /\ thread["L_Task_SA"] = "ready" /\ pc["L_Task_SA"] = "suspend"
        /\ \A u \in Task : thread[u] = "ready" => prio["L_Task_SA"] <= prio[u]
        /\ \A u \in Task : pc'[u] = IF u = "L_Task_SA" THEN "give" ELSE pc[u]
        /\ hasWaiter' = hasWaiter /\ load' = load
    BY <1>t, <2>1, StepEffect, Threads
  <2>3. PhaseA /\ A_Pace /\ A_Recorded /\ thread["H_Task_SA"] = test_sem
    BY <2>2, PrioAssumption, Threads
    DEF IInv, PhaseA, PhaseB, Gone, TasksSA, A_Setup, A_Loop, A_Pace, A_Armed, A_Given,
       A_Recorded, A_Parked, A_End, RoundA, Is
  <2>4. /\ \A u \in Task : thread'[u] = IF u = "L_Task_SA" THEN "suspended" ELSE thread[u]
        /\ events' = events /\ count' = count
    BY <1>t, <2>1, SuspendEffect, Threads
  <2>5. Common'
    BY <2>2, <2>3, <2>4, Threads DEF IInv, Common, MainTasks, Pended, PhaseA, PhaseB, Gone,
       TasksSA
  <2>6. Fresh(TasksSB)'
    BY <2>2, <2>3, <2>4, Threads DEF PhaseA, Fresh, TasksSB, Is, MainTasks
  <2>7. A_Pace' /\ A_Parked'
    BY <2>1, <2>2, <2>3, <2>4, Threads, CountAssumption
    DEF A_Pace, RoundA, A_Recorded, A_Parked, Is, MainTasks, Pended, SaLoad, SbLoad
  <2>8. QED
    BY <1>t, <2>1, <2>3, <2>4, <2>5, <2>6, <2>7 DEF IInv, PhaseA, A_Loop
<1>4. ASSUME HighSA_PostStart PROVE IInv'
  <2>1. /\ Step("H_Task_SA", "post_start", "take") /\ EventPost(START)
        /\ window' = window /\ samples' = samples /\ i' = i
    BY <1>t, <1>4 DEF HighSA_PostStart, Quiet, NoSample
  <2>2. /\ thread["H_Task_SA"] = "ready" /\ pc["H_Task_SA"] = "post_start"
        /\ \A u \in Task : thread[u] = "ready" => prio["H_Task_SA"] <= prio[u]
        /\ \A u \in Task : pc'[u] = IF u = "H_Task_SA" THEN "take" ELSE pc[u]
        /\ hasWaiter' = hasWaiter /\ load' = load
    BY <1>t, <2>1, StepEffect, Threads
  <2>3. PhaseA /\ A_Setup /\ events = {} /\ Fresh(SaDummies)
    BY <2>2, Threads
    DEF IInv, PhaseA, PhaseB, Gone, TasksSA, A_Setup, A_Loop, A_Pace, A_Armed, A_Given,
       A_Recorded, A_Parked, A_End, RoundA, Is
  <2>4. /\ \A u \in Task : thread'[u] = thread[u]
        /\ events' = {START} /\ count' = count
    BY <1>t, <2>1, <2>2, <2>3, PostEffect, Threads
    DEF IInv, Common, PhaseA, A_Setup, Fresh, TasksSB, Is, MainTasks
  <2>5. Common'
    BY <2>2, <2>3, <2>4, Threads DEF IInv, Common, MainTasks, Pended, PhaseA, PhaseB, Gone,
       TasksSA
  <2>6. Fresh(TasksSB)'
    BY <2>2, <2>3, <2>4, Threads DEF PhaseA, Fresh, TasksSB, Is, MainTasks
  <2>7. A_Setup'
    BY <2>1, <2>2, <2>3, <2>4, Threads, CountAssumption
    DEF A_Setup, Fresh, Entry, Is, MainTasks, Pended, SaLoad, SbLoad
  <2>8. QED
    BY <1>t, <2>1, <2>3, <2>4, <2>5, <2>6, <2>7 DEF IInv, PhaseA, A_Loop
<1>5. ASSUME HighSA_Take PROVE IInv'
  <2>1. /\ Step("H_Task_SA", "take", "stop") /\ SemTake("H_Task_SA", test_sem)
        /\ window' = window /\ samples' = samples /\ i' = i
    BY <1>t, <1>5 DEF HighSA_Take, Quiet, NoSample
  <2>2. /\ thread["H_Task_SA"] = "ready" /\ pc["H_Task_SA"] = "take"
        /\ \A u \in Task : thread[u] = "ready" => prio["H_Task_SA"] <= prio[u]
        /\ \A u \in Task : pc'[u] = IF u = "H_Task_SA" THEN "stop" ELSE pc[u]
        /\ hasWaiter' = hasWaiter /\ load' = load
    BY <1>t, <2>1, StepEffect, Threads
  <2>3. PhaseA /\ (A_Setup \/ (A_Pace /\ A_Recorded))
    <3>1. PhaseA
      BY <2>2, Threads DEF IInv, PhaseB, Gone, TasksSA
    <3>2. QED
      BY <2>2, <3>1, Threads
      DEF PhaseA, A_Setup, A_Loop, A_Armed, A_Given, A_Recorded, A_Parked, A_End, Is
  <2>4. /\ \A u \in Task : thread'[u] = IF u = "H_Task_SA" THEN test_sem ELSE thread[u]
        /\ events' = events /\ count' = count
    BY <1>t, <2>1, <2>3, TakeEffect, Threads DEF PhaseA
  <2>5. Common'
    BY <2>2, <2>3, <2>4, Threads DEF IInv, Common, MainTasks, Pended, PhaseA, PhaseB, Gone,
       TasksSA
  <2>6. Fresh(TasksSB)'
    BY <2>2, <2>3, <2>4, Threads DEF PhaseA, Fresh, TasksSB, Is, MainTasks
  <2>7. A_Setup' \/ (A_Pace' /\ A_Recorded')
    <3>1. CASE A_Setup
      BY <2>1, <2>2, <2>4, <3>1, Threads DEF A_Setup, Fresh, Is, MainTasks, SaLoad
    <3>2. CASE A_Pace /\ A_Recorded
      BY <2>1, <2>2, <2>4, <3>2, Threads
      DEF A_Pace, RoundA, A_Recorded, Pended, Is, MainTasks, SaLoad
    <3>3. QED  BY <2>3, <3>1, <3>2
  <2>8. QED
    BY <1>t, <2>1, <2>3, <2>4, <2>5, <2>6, <2>7 DEF IInv, PhaseA, A_Loop
<1>6. ASSUME HighSA_Stop PROVE IInv'
  <2>1. /\ Step("H_Task_SA", "stop", "take") /\ EventPost(YIELD)
        /\ /\ samples'["scenario_a"] = samples["scenario_a"] + 1
        /\ samples'["scenario_b"] = samples["scenario_b"]
        /\ window' = "closed" /\ i' = i
    BY <1>t, <1>6 DEF HighSA_Stop, RecordSample, TypeOK
  <2>2. /\ thread["H_Task_SA"] = "ready" /\ pc["H_Task_SA"] = "stop"
        /\ \A u \in Task : thread[u] = "ready" => prio["H_Task_SA"] <= prio[u]
        /\ \A u \in Task : pc'[u] = IF u = "H_Task_SA" THEN "take" ELSE pc[u]
        /\ hasWaiter' = hasWaiter /\ load' = load
    BY <1>t, <2>1, StepEffect, Threads
  <2>3. PhaseA /\ A_Pace /\ A_Given
    BY <2>2, Threads
    DEF IInv, PhaseA, PhaseB, Gone, TasksSA, A_Setup, A_Loop, A_Pace, A_Armed, A_Given,
       A_Recorded, A_Parked, A_End, RoundA, Is
  <2>4. /\ \A u \in Task : thread'[u] = thread[u]
        /\ events' = {YIELD} /\ count' = count
    BY <1>t, <2>1, <2>2, <2>3, PostEffect, Threads
    DEF IInv, Common, PhaseA, A_Pace, A_Given, Fresh, TasksSB, Is, MainTasks, Pended, SaLoad,
       Dummies
  <2>5. Common'
    BY <2>2, <2>3, <2>4, Threads DEF IInv, Common, MainTasks, Pended, PhaseA, PhaseB, Gone,
       TasksSA
  <2>6. Fresh(TasksSB)'
    BY <2>2, <2>3, <2>4, Threads DEF PhaseA, Fresh, TasksSB, Is, MainTasks
  <2>7. A_Pace' /\ A_Recorded'
    BY <2>1, <2>2, <2>3, <2>4, Threads, CountAssumption
    DEF A_Pace, RoundA, A_Given, A_Recorded, Is, MainTasks, Pended, SaLoad, SbLoad
  <2>8. QED
    BY <1>t, <2>1, <2>3, <2>4, <2>5, <2>6, <2>7 DEF IInv, PhaseA, A_Loop
<1>7. ASSUME HighSB_WaitStart PROVE IInv'
  <2>1. /\ Step("H_Task_SB", "wait_start", "suspend") /\ EventWait("H_Task_SB", START)
        /\ window' = window /\ samples' = samples /\ i' = i
    BY <1>t, <1>7 DEF HighSB_WaitStart, Quiet, NoSample
  <2>2. /\ thread["H_Task_SB"] = "ready" /\ pc["H_Task_SB"] = "wait_start"
        /\ \A u \in Task : thread[u] = "ready" => prio["H_Task_SB"] <= prio[u]
        /\ \A u \in Task : pc'[u] = IF u = "H_Task_SB" THEN "suspend" ELSE pc[u]
        /\ hasWaiter' = hasWaiter /\ load' = load
    BY <1>t, <2>1, StepEffect, Threads
  <2>3. PhaseB /\ B_Setup
    BY <2>2, Threads
    DEF IInv, PhaseA, PhaseB, Fresh, TasksSB, B_Setup, B_Loop, B_Pace, B_Start, B_Armed,
       B_Given, B_Counted, B_Recorded, B_Parking, B_Parked, B_End, Parked, Is
  <2>4. /\ \A u \in Task : thread'[u] = IF u = "H_Task_SB" THEN START ELSE thread[u]
        /\ events' = events /\ count' = count
    BY <1>t, <2>1, <2>3, WaitEffect, Threads DEF B_Setup
  <2>5. Common'
    BY <2>2, <2>3, <2>4, Threads DEF IInv, Common, MainTasks, Pended, PhaseA, PhaseB, Gone,
       TasksSA
  <2>6. Gone(TasksSA)'
    BY <2>2, <2>3, <2>4, Threads DEF PhaseB, Gone, TasksSA, MainTasks
  <2>7. B_Setup'
    BY <2>1, <2>2, <2>3, <2>4, Threads, CountAssumption
    DEF B_Setup, Fresh, Entry, Is, MainTasks, Pended, SaLoad, SbLoad
  <2>8. QED
    BY <1>t, <2>1, <2>3, <2>4, <2>5, <2>6, <2>7 DEF IInv, PhaseB, B_Loop
<1>8. ASSUME HighSB_Suspend PROVE IInv'
  <2>1. /\ Step("H_Task_SB", "suspend", "give") /\ Suspend("H_Task_SB")
        /\ window' = window /\ samples' = samples /\ i' = i
    BY <1>t, <1>8 DEF HighSB_Suspend, Quiet, NoSample
  <2>2. /\ thread["H_Task_SB"] = "ready" /\ pc["H_Task_SB"] = "suspend"
        /\ \A u \in Task : thread[u] = "ready" => prio["H_Task_SB"] <= prio[u]
        /\ \A u \in Task : pc'[u] = IF u = "H_Task_SB" THEN "give" ELSE pc[u]
        /\ hasWaiter' = hasWaiter /\ load' = load
    BY <1>t, <2>1, StepEffect, Threads
  <2>3. PhaseB /\ B_Pace /\ (B_Start \/ B_Recorded)
    BY <2>2, Threads
    DEF IInv, PhaseA, PhaseB, Fresh, TasksSB, B_Setup, B_Loop, B_Pace, B_Start, B_Armed,
       B_Given, B_Counted, B_Recorded, B_Parking, B_Parked, B_End, Parked, Is
  <2>4. /\ \A u \in Task : thread'[u] = IF u = "H_Task_SB" THEN "suspended" ELSE thread[u]
        /\ events' = events /\ count' = count
    BY <1>t, <2>1, SuspendEffect, Threads
  <2>5. Common'
    BY <2>2, <2>3, <2>4, Threads DEF IInv, Common, MainTasks, Pended, PhaseA, PhaseB, Gone,
       TasksSA
  <2>6. Gone(TasksSA)'
    BY <2>2, <2>3, <2>4, Threads DEF PhaseB, Gone, TasksSA, MainTasks
  <2>7. B_Pace' /\ B_Parking'
    BY <2>1, <2>2, <2>3, <2>4, Threads, CountAssumption
    DEF B_Pace, RoundB, B_Counted, Parked, CountAfter, B_Start, B_Recorded, B_Parking, Is,
        MainTasks, Pended, SaLoad, SbLoad
  <2>8. QED
    BY <1>t, <2>1, <2>3, <2>4, <2>5, <2>6, <2>7 DEF IInv, PhaseB, B_Loop
<1>9. ASSUME HighSB_Give PROVE IInv'
  <2>1. /\ Step("H_Task_SB", "give", "stop") /\ SemGive(test_sem)
        /\ window' = "scenario_b" /\ samples' = samples /\ i' = i
    BY <1>t, <1>9 DEF HighSB_Give, OpenWindow
  <2>2. /\ thread["H_Task_SB"] = "ready" /\ pc["H_Task_SB"] = "give"
        /\ \A u \in Task : thread[u] = "ready" => prio["H_Task_SB"] <= prio[u]
        /\ \A u \in Task : pc'[u] = IF u = "H_Task_SB" THEN "stop" ELSE pc[u]
        /\ hasWaiter' = hasWaiter /\ load' = load
    BY <1>t, <2>1, StepEffect, Threads
  <2>3. PhaseB /\ B_Pace /\ B_Armed
    BY <2>2, Threads
    DEF IInv, PhaseA, PhaseB, Fresh, TasksSB, B_Setup, B_Loop, B_Pace, B_Start, B_Armed,
       B_Given, B_Counted, B_Recorded, B_Parking, B_Parked, B_End, Parked, Is
  <2>4. /\ events' = events
        /\ count'[test_sem] = CountAfter(RoundB)
        /\ \A u \in Task : u \notin SbLoad /\ u # "L_Task_SB" => thread'[u] = thread[u]
        /\ \A d \in SbLoad : thread'[d] \in {"ready", test_sem}
        /\ thread'["L_Task_SB"] = IF hasWaiter THEN "ready" ELSE "suspended"
    <3>1. \A u \in Task : thread[u] = test_sem <=> u \in SbLoad \/ (u = "L_Task_SB" /\ hasWaiter)
      BY <2>2, <2>3, Threads
      DEF IInv, Common, PhaseB, Gone, TasksSA, B_Armed, Parked, Pended, Is, MainTasks, SbLoad
    <3>2. ASSUME NEW t \in Task, thread[t] = test_sem
          PROVE  \E w \in Task :
                    /\ thread[w] = test_sem /\ (hasWaiter => w = "L_Task_SB")
                    /\ \A u \in Task : thread'[u] = IF u = w THEN "ready" ELSE thread[u]
                    /\ events' = events /\ count' = count
      <4>1. PICK w \in Task :
              /\ thread[w] = test_sem
              /\ \A u \in Task : thread[u] = test_sem => prio[w] <= prio[u]
              /\ \A u \in Task : thread'[u] = IF u = w THEN "ready" ELSE thread[u]
              /\ events' = events /\ count' = count
        BY <1>t, <2>1, <3>2, GiveEffect
      <4>2. hasWaiter => w = "L_Task_SB"
        BY <3>1, <4>1, PrioAssumption, Threads
      <4>3. QED  BY <4>1, <4>2
    <3>3. CASE hasWaiter \/ SbLoad # {}
      <4>1. \E t \in Task : thread[t] = test_sem
        BY <3>1, <3>3, Threads
      <4>2. QED
        BY <2>3, <3>1, <3>2, <3>3, <4>1, Threads
        DEF CountAfter, B_Armed, Parked, Pended, Is, MainTasks
    <3>4. CASE ~hasWaiter /\ SbLoad = {}
      <4>1. count[test_sem] = RoundB - 1 /\ RoundB \in 1..MEASUREMENT_COUNT
        BY <1>t, <2>3, <3>4, CountAssumption DEF CountAfter, B_Pace, B_Armed, RoundB, TypeOK
      <4>2. QED
        BY <1>t, <2>1, <2>3, <3>1, <3>4, <4>1, GiveCountEffect, CountAssumption, Threads
        DEF CountAfter, B_Armed, Parked, Is
    <3>5. QED  BY <3>3, <3>4
  <2>5. Common'
    BY <2>2, <2>3, <2>4, Threads DEF IInv, Common, MainTasks, Pended, PhaseA, PhaseB, Gone,
       TasksSA
  <2>6. Gone(TasksSA)'
    BY <2>2, <2>3, <2>4, Threads DEF PhaseB, Gone, TasksSA, MainTasks
  <2>7. B_Pace' /\ B_Given'
    BY <2>1, <2>2, <2>3, <2>4, Threads, CountAssumption
    DEF B_Pace, RoundB, B_Counted, Parked, CountAfter, B_Armed, B_Given, Is, MainTasks, Pended,
        SaLoad, SbLoad
  <2>8. QED
    BY <1>t, <2>1, <2>3, <2>4, <2>5, <2>6, <2>7 DEF IInv, PhaseB, B_Loop
<1>10. ASSUME HighSB_Stop PROVE IInv'
  <2>1. /\ Step("H_Task_SB", "stop", "suspend")
        /\ IF hasWaiter THEN NoCall ELSE Resume("L_Task_SB")
        /\ /\ samples'["scenario_b"] = samples["scenario_b"] + 1
        /\ samples'["scenario_a"] = samples["scenario_a"]
        /\ window' = "closed" /\ i' = i
    BY <1>t, <1>10 DEF HighSB_Stop, RecordSample, TypeOK
  <2>2. /\ thread["H_Task_SB"] = "ready" /\ pc["H_Task_SB"] = "stop"
        /\ \A u \in Task : thread[u] = "ready" => prio["H_Task_SB"] <= prio[u]
        /\ \A u \in Task : pc'[u] = IF u = "H_Task_SB" THEN "suspend" ELSE pc[u]
        /\ hasWaiter' = hasWaiter /\ load' = load
    BY <1>t, <2>1, StepEffect, Threads
  <2>3. PhaseB /\ B_Pace /\ B_Given
    BY <2>2, Threads
    DEF IInv, PhaseA, PhaseB, Fresh, TasksSB, B_Setup, B_Loop, B_Pace, B_Start, B_Armed,
       B_Given, B_Counted, B_Recorded, B_Parking, B_Parked, B_End, Parked, Is
  <2>4. /\ \A u \in Task : thread'[u] = IF u = "L_Task_SB" THEN "ready" ELSE thread[u]
        /\ events' = events /\ count' = count
    <3>1. thread["L_Task_SB"] = IF hasWaiter THEN "ready" ELSE "suspended"
      BY <2>3 DEF B_Given, Is
    <3>2. QED  BY <1>t, <2>1, <3>1, ResumeEffect, Threads DEF NoCall, kvars
  <2>5. Common'
    BY <2>2, <2>3, <2>4, Threads DEF IInv, Common, MainTasks, Pended, PhaseA, PhaseB, Gone,
       TasksSA
  <2>6. Gone(TasksSA)'
    BY <2>2, <2>3, <2>4, Threads DEF PhaseB, Gone, TasksSA, MainTasks
  <2>7. B_Pace' /\ B_Recorded'
    <3>1. B_Pace'
      BY <2>1, <2>2, <2>3, <2>4, Threads DEF B_Pace, MainTasks, SbLoad
    <3>2. RoundB' = RoundB /\ SbLoad' = SbLoad
      BY <2>1, <2>2, Threads DEF RoundB, SbLoad
    <3>3. B_Counted'
      BY <1>t, <2>1, <2>2, <2>3, <2>4, <3>2, CountAssumption
      DEF B_Counted, B_Pace, B_Given, CountAfter, RoundB, TypeOK
    <3>4. QED
      BY <2>1, <2>2, <2>3, <2>4, <3>1, <3>2, <3>3, Threads DEF B_Given, B_Recorded, Is
  <2>8. QED
    BY <1>t, <2>1, <2>3, <2>4, <2>5, <2>6, <2>7 DEF IInv, PhaseB, B_Loop
<1>11. ASSUME LowSB_PostStart PROVE IInv'
  <2>1. /\ Step("L_Task_SB", "post_start", "post_yield") /\ EventPost(START)
        /\ window' = window /\ samples' = samples /\ i' = i
    BY <1>t, <1>11 DEF LowSB_PostStart, Quiet, NoSample
  <2>2. /\ thread["L_Task_SB"] = "ready" /\ pc["L_Task_SB"] = "post_start"
        /\ \A u \in Task : thread[u] = "ready" => prio["L_Task_SB"] <= prio[u]
        /\ \A u \in Task : pc'[u] = IF u = "L_Task_SB" THEN "post_yield" ELSE pc[u]
        /\ hasWaiter' = hasWaiter /\ load' = load
    BY <1>t, <2>1, StepEffect, Threads
  <2>3. PhaseB /\ B_Pace /\ B_Start /\ thread["H_Task_SB"] = START
    BY <2>2, Threads
    DEF IInv, PhaseA, PhaseB, Fresh, TasksSB, B_Setup, B_Loop, B_Pace, B_Start, B_Armed,
       B_Given, B_Counted, B_Recorded, B_Parking, B_Parked, B_End, Parked, Is
  <2>4. /\ \A u \in Task : thread'[u] = IF u = "H_Task_SB" THEN "ready" ELSE thread[u]
        /\ events' = events /\ count' = count
    <3>1. \A d \in SbDummies : thread[d] # START
      BY <2>3, Threads DEF IInv, Common, B_Pace, PhaseB, Pended, SbLoad
    <3>2. \A u \in TasksSA : thread[u] # START
      BY <2>3 DEF PhaseB, Gone
    <3>3. \A u \in Task : thread[u] = START <=> u = "H_Task_SB"
      BY <2>2, <2>3, <3>1, <3>2, Threads DEF IInv, Common, MainTasks, TasksSA
    <3>4. START \notin events /\ \E u \in Task : thread[u] = START
      BY <2>3, Threads DEF B_Start
    <3>5. QED  BY <1>t, <2>1, <3>3, <3>4, PostEffect
  <2>5. Common'
    BY <2>2, <2>3, <2>4, Threads DEF IInv, Common, MainTasks, Pended, PhaseA, PhaseB, Gone,
       TasksSA
  <2>6. Gone(TasksSA)'
    BY <2>2, <2>3, <2>4, Threads DEF PhaseB, Gone, TasksSA, MainTasks
  <2>7. B_Pace' /\ B_Start'
    BY <2>1, <2>2, <2>3, <2>4, Threads, CountAssumption
    DEF B_Pace, RoundB, B_Counted, Parked, CountAfter, B_Start, Is, MainTasks, Pended, SaLoad,
        SbLoad
  <2>8. QED
    BY <1>t, <2>1, <2>3, <2>4, <2>5, <2>6, <2>7 DEF IInv, PhaseB, B_Loop
<1>12. ASSUME LowSB_PostYield PROVE IInv'
  <2>1. /\ Step("L_Task_SB", "post_yield", "park") /\ EventPost(YIELD)
        /\ window' = window /\ samples' = samples /\ i' = i
    BY <1>t, <1>12 DEF LowSB_PostYield, Quiet, NoSample
  <2>2. /\ thread["L_Task_SB"] = "ready" /\ pc["L_Task_SB"] = "post_yield"
        /\ \A u \in Task : thread[u] = "ready" => prio["L_Task_SB"] <= prio[u]
        /\ \A u \in Task : pc'[u] = IF u = "L_Task_SB" THEN "park" ELSE pc[u]
        /\ hasWaiter' = hasWaiter /\ load' = load
    BY <1>t, <2>1, StepEffect, Threads
  <2>3. PhaseB /\ B_Pace /\ B_Parking
    BY <2>2, PrioAssumption, Threads
    DEF IInv, PhaseA, PhaseB, Fresh, TasksSB, B_Setup, B_Loop, B_Pace, B_Start, B_Armed,
       B_Given, B_Counted, B_Recorded, B_Parking, B_Parked, B_End, Parked, Is
  <2>4. /\ \A u \in Task : thread'[u] = thread[u]
        /\ events' = {YIELD} /\ count' = count
    <3>1. \A u \in Task : thread[u] # YIELD
      BY <2>2, <2>3, Threads
      DEF IInv, Common, PhaseB, B_Pace, B_Parking, Gone, TasksSA, Is, MainTasks, SbLoad, Dummies
    <3>2. QED  BY <1>t, <2>1, <2>2, <2>3, <3>1, PostEffect DEF B_Parking
  <2>5. Common'
    BY <2>2, <2>3, <2>4, Threads DEF IInv, Common, MainTasks, Pended, PhaseA, PhaseB, Gone,
       TasksSA
  <2>6. Gone(TasksSA)'
    BY <2>2, <2>3, <2>4, Threads DEF PhaseB, Gone, TasksSA, MainTasks
  <2>7. B_Pace' /\ B_Parking'
    BY <2>1, <2>2, <2>3, <2>4, Threads, CountAssumption
    DEF B_Pace, RoundB, B_Counted, Parked, CountAfter, B_Parking, Is, MainTasks, Pended, SaLoad,
        SbLoad
  <2>8. QED
    BY <1>t, <2>1, <2>3, <2>4, <2>5, <2>6, <2>7 DEF IInv, PhaseB, B_Loop
<1>13. ASSUME LowSB_Park PROVE IInv'
  <2>1. /\ Step("L_Task_SB", "park", "post_yield")
        /\ IF hasWaiter THEN SemTake("L_Task_SB", test_sem) ELSE Suspend("L_Task_SB")
        /\ window' = window /\ samples' = samples /\ i' = i
    BY <1>t, <1>13 DEF LowSB_Park, Quiet, NoSample
  <2>2. /\ thread["L_Task_SB"] = "ready" /\ pc["L_Task_SB"] = "park"
        /\ \A u \in Task : thread[u] = "ready" => prio["L_Task_SB"] <= prio[u]
        /\ \A u \in Task : pc'[u] = IF u = "L_Task_SB" THEN "post_yield" ELSE pc[u]
        /\ hasWaiter' = hasWaiter /\ load' = load
    BY <1>t, <2>1, StepEffect, Threads
  <2>3. PhaseB /\ B_Pace /\ B_Parking
    BY <2>2, Threads
    DEF IInv, PhaseA, PhaseB, Fresh, TasksSB, B_Setup, B_Loop, B_Pace, B_Start, B_Armed,
       B_Given, B_Counted, B_Recorded, B_Parking, B_Parked, B_End, Parked, Is
  <2>4. /\ \A u \in Task : thread'[u] = IF u = "L_Task_SB"
              THEN IF hasWaiter THEN test_sem ELSE "suspended"
              ELSE thread[u]
        /\ events' = events /\ count' = count
    BY <1>t, <2>1, <2>3, TakeEffect, SuspendEffect, Threads DEF B_Parking, B_Counted, CountAfter
  <2>5. Common'
    BY <2>2, <2>3, <2>4, Threads DEF IInv, Common, MainTasks, Pended, PhaseA, PhaseB, Gone,
       TasksSA
  <2>6. Gone(TasksSA)'
    BY <2>2, <2>3, <2>4, Threads DEF PhaseB, Gone, TasksSA, MainTasks
  <2>7. B_Pace' /\ B_Parked'
    BY <2>1, <2>2, <2>3, <2>4, Threads, CountAssumption
    DEF B_Pace, RoundB, B_Counted, Parked, CountAfter, B_Parking, B_Parked, Is, MainTasks,
        Pended, SaLoad, SbLoad
  <2>8. QED
    BY <1>t, <2>1, <2>3, <2>4, <2>5, <2>6, <2>7 DEF IInv, PhaseB, B_Loop
<1>14. ASSUME NEW d \in Dummies, Dummy_Take(d) PROVE IInv'
  <2>1. /\ Step(d, "take", "take") /\ SemTake(d, test_sem)
        /\ window' = window /\ samples' = samples /\ i' = i
    BY <1>14 DEF Dummy_Take, Quiet, NoSample
  <2>2. /\ thread[d] = "ready"
        /\ \A u \in Task : thread[u] = "ready" => prio[d] <= prio[u]
        /\ \A u \in Task : pc'[u] = pc[u]
        /\ hasWaiter' = hasWaiter /\ load' = load
    BY <1>t, <2>1, StepEffect, Threads
  <2>3. d \in load
    BY <2>2 DEF IInv, Common
  <2>4. CASE d \in SaDummies
    <3>1. PhaseA /\ A_Setup /\ Is("H_Task_SA", test_sem, "stop") /\ pc["I_Task"] = "create_low_sa"
      <4>1. PhaseA
        BY <2>2, <2>4 DEF IInv, PhaseB, Gone, TasksSA
      <4>2. QED
        BY <2>2, <2>3, <2>4, <4>1, Threads
        DEF PhaseA, A_Setup, A_Loop, A_Pace, A_End, Fresh, Pended, Is, SaLoad
    <3>2. /\ \A u \in Task : thread'[u] = IF u = d THEN test_sem ELSE thread[u]
          /\ events' = events /\ count' = count
      BY <1>t, <2>1, <3>1, TakeEffect, Threads DEF PhaseA
    <3>3. Common' /\ Fresh(TasksSB)'
      BY <2>2, <2>3, <2>4, <3>1, <3>2, Threads
      DEF IInv, Common, PhaseA, Fresh, TasksSB, Is, MainTasks
    <3>4. A_Setup'
      BY <2>1, <2>2, <2>4, <3>1, <3>2, Threads DEF A_Setup, Is, MainTasks, SaLoad
    <3>5. QED  BY <1>t, <2>1, <3>1, <3>2, <3>3, <3>4 DEF IInv, PhaseA
  <2>5. CASE d \in SbDummies
    <3>1. PhaseB /\ B_Pace /\ B_Parked /\ pc["I_Task"] # "resume_sb" /\ count[test_sem] = 0
      <4>1. PhaseB
        BY <2>2, <2>5 DEF IInv, PhaseA, Fresh, TasksSB, Is
      <4>2. B_Loop /\ pc["I_Task"] # "resume_sb"
        BY <2>2, <2>3, <2>5, <4>1, Threads
        DEF PhaseB, B_Setup, B_End, B_Loop, B_Start, B_Armed, B_Given, B_Recorded, B_Parking,
            B_Parked, Fresh, Pended, Is, SbLoad
      <4>3. B_Parked
        BY <2>2, <2>5, <4>2, PrioAssumption, Threads
        DEF B_Loop, B_Start, B_Armed, B_Given, B_Recorded, B_Parking, Is
      <4>4. QED
        BY <2>3, <2>5, <4>1, <4>2, <4>3 DEF B_Loop, B_Parked, B_Counted, CountAfter, SbLoad
    <3>2. /\ \A u \in Task : thread'[u] = IF u = d THEN test_sem ELSE thread[u]
          /\ events' = events /\ count' = count
      BY <1>t, <2>1, <3>1, TakeEffect, Threads
    <3>3. Common' /\ Gone(TasksSA)'
      BY <2>2, <2>3, <2>5, <3>1, <3>2, Threads
      DEF IInv, Common, PhaseB, Gone, TasksSA, Is, MainTasks
    <3>4. B_Pace' /\ B_Parked'
      BY <2>1, <2>2, <2>5, <3>1, <3>2, Threads
      DEF B_Pace, B_Parked, B_Counted, RoundB, CountAfter, Parked, Is, MainTasks, SbLoad
    <3>5. QED  BY <1>t, <2>1, <3>1, <3>2, <3>3, <3>4 DEF IInv, PhaseB, B_Loop
  <2>6. QED  BY <2>4, <2>5 DEF Dummies
<1>15. ASSUME I_CreateHighSA PROVE IInv'
  <2>1. /\ Step("I_Task", "create_high_sa", "create_low_sa") /\ Create("H_Task_SA")
        /\ window' = window /\ samples' = samples /\ i' = i
    BY <1>t, <1>15 DEF I_CreateHighSA, I_Create, Quiet, NoSample
  <2>2. /\ thread["I_Task"] = "ready" /\ pc["I_Task"] = "create_high_sa"
        /\ \A u \in Task : thread[u] = "ready" => u = "I_Task"
        /\ \A u \in Task : pc'[u] = IF u = "I_Task" THEN "create_low_sa" ELSE pc[u]
        /\ hasWaiter' = hasWaiter /\ load' = load
    BY <1>t, <2>1, ControlEffect, Threads
  <2>3. PhaseA /\ A_Setup
    BY <2>2, ControlPhase, Threads DEF A_Setup, A_Parked, Is
  <2>4. /\ \A u \in Task : thread'[u] = IF u = "H_Task_SA" THEN "ready" ELSE thread[u]
        /\ events' = events /\ count' = count
    BY <1>t, <2>1, CreateEffect, Threads
  <2>5. Common'
    BY <2>2, <2>3, <2>4, Threads DEF IInv, Common, MainTasks, Pended, PhaseA, PhaseB, Gone,
       TasksSA
  <2>6. Fresh(TasksSB)'
    BY <2>2, <2>3, <2>4, Threads DEF PhaseA, Fresh, TasksSB, Is, MainTasks
  <2>7. A_Setup'
    BY <2>1, <2>2, <2>3, <2>4, Threads, CountAssumption
    DEF A_Setup, Fresh, Entry, Is, MainTasks, Pended, SaLoad, SbLoad
  <2>8. QED
    BY <1>t, <2>1, <2>3, <2>4, <2>5, <2>6, <2>7 DEF IInv, PhaseA, A_Loop
<1>16. ASSUME I_CreateLowSA PROVE IInv'
  <2>1. /\ Step("I_Task", "create_low_sa", AfterLowSA)
        /\ Create("L_Task_SA")
        /\ \A d \in SaLoad : thread[d] # "none"
        /\ window' = window /\ samples' = samples /\ i' = i
    BY <1>t, <1>16 DEF I_CreateLowSA, I_Create, Quiet, NoSample
  <2>2. /\ thread["I_Task"] = "ready" /\ pc["I_Task"] = "create_low_sa"
        /\ \A u \in Task : thread[u] = "ready" => u = "I_Task"
        /\ \A u \in Task : pc'[u] = IF u = "I_Task" THEN AfterLowSA ELSE pc[u]
        /\ hasWaiter' = hasWaiter /\ load' = load
    BY <1>t, <2>1, ControlEffect, Threads
  <2>3. PhaseA /\ A_Setup /\ Is("H_Task_SA", test_sem, "stop") /\ events = {START}
    BY <2>2, ControlPhase, Threads DEF A_Setup, A_Parked, Is
  <2>4. /\ \A u \in Task : thread'[u] = IF u = "L_Task_SA" THEN "ready" ELSE thread[u]
        /\ events' = events /\ count' = count
    BY <1>t, <2>1, CreateEffect, Threads
  <2>5. Common'
    BY <2>2, <2>3, <2>4, Threads DEF IInv, Common, MainTasks, Pended, PhaseA, PhaseB, Gone,
       TasksSA
  <2>6. Fresh(TasksSB)'
    BY <2>2, <2>3, <2>4, Threads DEF PhaseA, Fresh, TasksSB, Is, MainTasks
  <2>7. A_Pace' /\ A_Armed'
    <3>1. Pended(SaLoad)'
      BY <2>1, <2>2, <2>3, <2>4, Threads DEF A_Setup, Pended, Is, MainTasks, SaLoad
    <3>2. QED
      BY <2>1, <2>2, <2>3, <2>4, <3>1, Threads, CountAssumption
      DEF A_Pace, RoundA, A_Setup, A_Armed, AfterLowSA, Is
  <2>8. QED
    BY <1>t, <2>1, <2>3, <2>4, <2>5, <2>6, <2>7 DEF IInv, PhaseA, A_Loop
<1>17. ASSUME I_WaitSA PROVE IInv'
  <2>1. /\ Step("I_Task", "wait_sa", "resume_sa") /\ EventWait("I_Task", YIELD)
        /\ window' = window /\ samples' = samples /\ i' = i
    BY <1>t, <1>17 DEF I_WaitSA, Quiet, NoSample
  <2>2. /\ thread["I_Task"] = "ready" /\ pc["I_Task"] = "wait_sa"
        /\ \A u \in Task : thread[u] = "ready" => u = "I_Task"
        /\ \A u \in Task : pc'[u] = IF u = "I_Task" THEN "resume_sa" ELSE pc[u]
        /\ hasWaiter' = hasWaiter /\ load' = load
    BY <1>t, <2>1, ControlEffect, Threads
  <2>3. PhaseA /\ A_Pace /\ A_Parked /\ events = {YIELD}
    BY <2>2, ControlPhase, Threads DEF A_Setup, A_Parked, Is
  <2>4. /\ \A u \in Task : thread'[u] = thread[u]
        /\ events' = {} /\ count' = count
    BY <1>t, <2>1, <2>3, WaitEffect, Threads
  <2>5. Common'
    BY <2>2, <2>3, <2>4, Threads DEF IInv, Common, MainTasks, Pended, PhaseA, PhaseB, Gone,
       TasksSA
  <2>6. Fresh(TasksSB)'
    BY <2>2, <2>3, <2>4, Threads DEF PhaseA, Fresh, TasksSB, Is, MainTasks
  <2>7. A_Pace' /\ A_Parked'
    BY <2>1, <2>2, <2>3, <2>4, Threads, CountAssumption
    DEF A_Pace, RoundA, A_Parked, Is, MainTasks, Pended, SaLoad, SbLoad
  <2>8. QED
    BY <1>t, <2>1, <2>3, <2>4, <2>5, <2>6, <2>7 DEF IInv, PhaseA, A_Loop
<1>18. ASSUME I_AbortLowSA PROVE IInv'
  <2>1. /\ Step("I_Task", "abort_low_sa", "abort_high_sa") /\ Abort("L_Task_SA")
        /\ window' = window /\ samples' = samples /\ i' = i
    BY <1>t, <1>18 DEF I_AbortLowSA, I_Abort, Quiet, NoSample
  <2>2. /\ thread["I_Task"] = "ready" /\ pc["I_Task"] = "abort_low_sa"
        /\ \A u \in Task : thread[u] = "ready" => u = "I_Task"
        /\ \A u \in Task : pc'[u] = IF u = "I_Task" THEN "abort_high_sa" ELSE pc[u]
        /\ hasWaiter' = hasWaiter /\ load' = load
    BY <1>t, <2>1, ControlEffect, Threads
  <2>3. PhaseA /\ A_Pace /\ A_Parked
    BY <2>2, ControlPhase, Threads DEF A_Setup, A_Parked, Is
  <2>4. /\ \A u \in Task : thread'[u] = IF u = "L_Task_SA" THEN "dead" ELSE thread[u]
        /\ events' = events /\ count' = count
    BY <1>t, <2>1, AbortEffect, Threads
  <2>5. Common'
    BY <2>2, <2>3, <2>4, Threads DEF IInv, Common, MainTasks, Pended, PhaseA, PhaseB, Gone,
       TasksSA
  <2>6. Fresh(TasksSB)'
    BY <2>2, <2>3, <2>4, Threads DEF PhaseA, Fresh, TasksSB, Is, MainTasks
  <2>7. A_End'
    BY <2>1, <2>2, <2>3, <2>4, Threads, CountAssumption
    DEF A_Pace, RoundA, A_Parked, A_End, Is, MainTasks, Pended, SaLoad, SbLoad
  <2>8. QED
    BY <1>t, <2>1, <2>3, <2>4, <2>5, <2>6, <2>7 DEF IInv, PhaseA, A_Loop
<1>19. ASSUME I_AbortHighSA PROVE IInv'
  <2>1. /\ Step("I_Task", "abort_high_sa", "reset") /\ Abort("H_Task_SA")
        /\ window' = window /\ samples' = samples /\ i' = i
    BY <1>t, <1>19 DEF I_AbortHighSA, I_Abort, Quiet, NoSample
  <2>2. /\ thread["I_Task"] = "ready" /\ pc["I_Task"] = "abort_high_sa"
        /\ \A u \in Task : thread[u] = "ready" => u = "I_Task"
        /\ \A u \in Task : pc'[u] = IF u = "I_Task" THEN "reset" ELSE pc[u]
        /\ hasWaiter' = hasWaiter /\ load' = load
    BY <1>t, <2>1, ControlEffect, Threads
  <2>3. PhaseA /\ A_End
    BY <2>2, ControlPhase, Threads DEF A_Setup, A_Parked, Is
  <2>4. /\ \A u \in Task : thread'[u] = IF u = "H_Task_SA" THEN "dead" ELSE thread[u]
        /\ events' = events /\ count' = count
    BY <1>t, <2>1, AbortEffect, Threads
  <2>5. Common'
    BY <2>2, <2>3, <2>4, Threads DEF IInv, Common, MainTasks, Pended, PhaseA, PhaseB, Gone,
       TasksSA
  <2>6. Fresh(TasksSB)'
    BY <2>2, <2>3, <2>4, Threads DEF PhaseA, Fresh, TasksSB, Is, MainTasks
  <2>7. A_End'
    BY <2>1, <2>2, <2>3, <2>4, Threads, CountAssumption
    DEF A_End, Is, MainTasks, Pended, SaLoad, SbLoad
  <2>8. QED
    BY <1>t, <2>1, <2>3, <2>4, <2>5, <2>6, <2>7 DEF IInv, PhaseA, A_Loop
<1>20. ASSUME I_CreateHighSB PROVE IInv'
  <2>1. /\ Step("I_Task", "create_high_sb", "create_low_sb") /\ Create("H_Task_SB")
        /\ window' = window /\ samples' = samples /\ i' = i
    BY <1>t, <1>20 DEF I_CreateHighSB, I_Create, Quiet, NoSample
  <2>2. /\ thread["I_Task"] = "ready" /\ pc["I_Task"] = "create_high_sb"
        /\ \A u \in Task : thread[u] = "ready" => u = "I_Task"
        /\ \A u \in Task : pc'[u] = IF u = "I_Task" THEN "create_low_sb" ELSE pc[u]
        /\ hasWaiter' = hasWaiter /\ load' = load
    BY <1>t, <2>1, ControlEffect, Threads
  <2>3. PhaseB /\ B_Setup
    BY <2>2, ControlPhase, Threads DEF B_Setup, B_Parked, Is
  <2>4. /\ \A u \in Task : thread'[u] = IF u = "H_Task_SB" THEN "ready" ELSE thread[u]
        /\ events' = events /\ count' = count
    BY <1>t, <2>1, CreateEffect, Threads
  <2>5. Common'
    BY <2>2, <2>3, <2>4, Threads DEF IInv, Common, MainTasks, Pended, PhaseA, PhaseB, Gone,
       TasksSA
  <2>6. Gone(TasksSA)'
    BY <2>2, <2>3, <2>4, Threads DEF PhaseB, Gone, TasksSA, MainTasks
  <2>7. B_Setup'
    BY <2>1, <2>2, <2>3, <2>4, Threads, CountAssumption
    DEF B_Setup, Fresh, Entry, Is, MainTasks, Pended, SaLoad, SbLoad
  <2>8. QED
    BY <1>t, <2>1, <2>3, <2>4, <2>5, <2>6, <2>7 DEF IInv, PhaseB, B_Loop
<1>21. ASSUME I_CreateLowSB PROVE IInv'
  <2>1. /\ Step("I_Task", "create_low_sb", "wait_sb") /\ Create("L_Task_SB")
        /\ window' = window /\ samples' = samples /\ i' = i
    BY <1>t, <1>21 DEF I_CreateLowSB, I_Create, Quiet, NoSample
  <2>2. /\ thread["I_Task"] = "ready" /\ pc["I_Task"] = "create_low_sb"
        /\ \A u \in Task : thread[u] = "ready" => u = "I_Task"
        /\ \A u \in Task : pc'[u] = IF u = "I_Task" THEN "wait_sb" ELSE pc[u]
        /\ hasWaiter' = hasWaiter /\ load' = load
    BY <1>t, <2>1, ControlEffect, Threads
  <2>3. PhaseB /\ B_Setup /\ Is("H_Task_SB", START, "suspend")
    BY <2>2, ControlPhase, Threads DEF B_Setup, B_Parked, Is
  <2>4. /\ \A u \in Task : thread'[u] = IF u = "L_Task_SB" THEN "ready" ELSE thread[u]
        /\ events' = events /\ count' = count
    BY <1>t, <2>1, CreateEffect, Threads
  <2>5. Common'
    BY <2>2, <2>3, <2>4, Threads DEF IInv, Common, MainTasks, Pended, PhaseA, PhaseB, Gone,
       TasksSA
  <2>6. Gone(TasksSA)'
    BY <2>2, <2>3, <2>4, Threads DEF PhaseB, Gone, TasksSA, MainTasks
  <2>7. B_Pace' /\ B_Start'
    BY <2>1, <2>2, <2>3, <2>4, Threads, CountAssumption
    DEF B_Pace, RoundB, B_Counted, Parked, CountAfter, B_Setup, B_Start, Fresh, Is, MainTasks,
        Pended, SaLoad, SbLoad
  <2>8. QED
    BY <1>t, <2>1, <2>3, <2>4, <2>5, <2>6, <2>7 DEF IInv, PhaseB, B_Loop
<1>22. ASSUME I_WaitSB PROVE IInv'
  <2>1. /\ Step("I_Task", "wait_sb", "resume_sb")
        /\ EventWait("I_Task", YIELD)
        /\ \A d \in SbLoad : thread[d] # "none"
        /\ window' = window /\ samples' = samples /\ i' = i
    BY <1>t, <1>22 DEF I_WaitSB, Quiet, NoSample
  <2>2. /\ thread["I_Task"] = "ready" /\ pc["I_Task"] = "wait_sb"
        /\ \A u \in Task : thread[u] = "ready" => u = "I_Task"
        /\ \A u \in Task : pc'[u] = IF u = "I_Task" THEN "resume_sb" ELSE pc[u]
        /\ hasWaiter' = hasWaiter /\ load' = load
    BY <1>t, <2>1, ControlEffect, Threads
  <2>3. PhaseB /\ B_Pace /\ B_Parked /\ events = {YIELD}
    BY <2>2, ControlPhase, Threads DEF B_Setup, B_Parked, Is
  <2>4. /\ \A u \in Task : thread'[u] = thread[u]
        /\ events' = {} /\ count' = count
    BY <1>t, <2>1, <2>3, WaitEffect, Threads
  <2>5. Common'
    BY <2>2, <2>3, <2>4, Threads DEF IInv, Common, MainTasks, Pended, PhaseA, PhaseB, Gone,
       TasksSA
  <2>6. Gone(TasksSA)'
    BY <2>2, <2>3, <2>4, Threads DEF PhaseB, Gone, TasksSA, MainTasks
  <2>7. B_Pace' /\ B_Parked'
    <3>1. Pended(SbLoad)'
      BY <2>1, <2>2, <2>3, <2>4, Threads DEF B_Pace, Pended, Is, MainTasks, SbLoad
    <3>2. RoundB' = RoundB /\ SbLoad' = SbLoad
      BY <2>1, <2>2, Threads DEF RoundB, SbLoad
    <3>3. QED
      BY <2>1, <2>2, <2>3, <2>4, <3>1, <3>2, Threads
      DEF B_Pace, B_Parked, B_Counted, Parked, CountAfter, Pended, Is, MainTasks
  <2>8. QED
    BY <1>t, <2>1, <2>3, <2>4, <2>5, <2>6, <2>7 DEF IInv, PhaseB, B_Loop
<1>23. ASSUME I_AbortLowSB PROVE IInv'
  <2>1. /\ Step("I_Task", "abort_low_sb", "abort_high_sb") /\ Abort("L_Task_SB")
        /\ window' = window /\ samples' = samples /\ i' = i
    BY <1>t, <1>23 DEF I_AbortLowSB, I_Abort, Quiet, NoSample
  <2>2. /\ thread["I_Task"] = "ready" /\ pc["I_Task"] = "abort_low_sb"
        /\ \A u \in Task : thread[u] = "ready" => u = "I_Task"
        /\ \A u \in Task : pc'[u] = IF u = "I_Task" THEN "abort_high_sb" ELSE pc[u]
        /\ hasWaiter' = hasWaiter /\ load' = load
    BY <1>t, <2>1, ControlEffect, Threads
  <2>3. PhaseB /\ B_Pace /\ B_Parked
    BY <2>2, ControlPhase, Threads DEF B_Setup, B_Parked, Is
  <2>4. /\ \A u \in Task : thread'[u] = IF u = "L_Task_SB" THEN "dead" ELSE thread[u]
        /\ events' = events /\ count' = count
    BY <1>t, <2>1, AbortEffect, Threads
  <2>5. Common'
    BY <2>2, <2>3, <2>4, Threads DEF IInv, Common, MainTasks, Pended, PhaseA, PhaseB, Gone,
       TasksSA
  <2>6. Gone(TasksSA)'
    BY <2>2, <2>3, <2>4, Threads DEF PhaseB, Gone, TasksSA, MainTasks
  <2>7. B_End'
    BY <2>1, <2>2, <2>3, <2>4, Threads, CountAssumption
    DEF B_Pace, RoundB, B_Counted, Parked, CountAfter, B_Parked, B_End, Is, MainTasks, Pended,
        SaLoad, SbLoad
  <2>8. QED
    BY <1>t, <2>1, <2>3, <2>4, <2>5, <2>6, <2>7 DEF IInv, PhaseB, B_Loop
<1>24. ASSUME I_AbortHighSB PROVE IInv'
  <2>1. /\ Step("I_Task", "abort_high_sb", "signalize") /\ Abort("H_Task_SB")
        /\ window' = window /\ samples' = samples /\ i' = i
    BY <1>t, <1>24 DEF I_AbortHighSB, I_Abort, Quiet, NoSample
  <2>2. /\ thread["I_Task"] = "ready" /\ pc["I_Task"] = "abort_high_sb"
        /\ \A u \in Task : thread[u] = "ready" => u = "I_Task"
        /\ \A u \in Task : pc'[u] = IF u = "I_Task" THEN "signalize" ELSE pc[u]
        /\ hasWaiter' = hasWaiter /\ load' = load
    BY <1>t, <2>1, ControlEffect, Threads
  <2>3. PhaseB /\ B_End
    BY <2>2, ControlPhase, Threads DEF B_Setup, B_Parked, Is
  <2>4. /\ \A u \in Task : thread'[u] = IF u = "H_Task_SB" THEN "dead" ELSE thread[u]
        /\ events' = events /\ count' = count
    BY <1>t, <2>1, AbortEffect, Threads
  <2>5. Common'
    BY <2>2, <2>3, <2>4, Threads DEF IInv, Common, MainTasks, Pended, PhaseA, PhaseB, Gone,
       TasksSA
  <2>6. Gone(TasksSA)'
    BY <2>2, <2>3, <2>4, Threads DEF PhaseB, Gone, TasksSA, MainTasks
  <2>7. B_End'
    BY <2>1, <2>2, <2>3, <2>4, Threads, CountAssumption
    DEF B_Pace, RoundB, B_Counted, Parked, CountAfter, B_End, Is, MainTasks, Pended, SaLoad,
        SbLoad
  <2>8. QED
    BY <1>t, <2>1, <2>3, <2>4, <2>5, <2>6, <2>7 DEF IInv, PhaseB, B_Loop
<1>25. ASSUME I_ResumeSA PROVE IInv'
  <2>1. PICK m \in {"wait_sa", "abort_low_sa"} :
          /\ Step("I_Task", "resume_sa", m)
          /\ m = "wait_sa" => i + 1 < MEASUREMENT_COUNT - 1 /\ i' = i + 1
          /\ m = "abort_low_sa" => i + 1 >= MEASUREMENT_COUNT - 1 /\ i' = 0
    BY <1>25 DEF I_ResumeSA, I_Resume
  <2>2. Resume("L_Task_SA") /\ window' = window /\ samples' = samples
    BY <1>25 DEF I_ResumeSA, I_Resume, NoSample
  <2>3. /\ thread["I_Task"] = "ready" /\ pc["I_Task"] = "resume_sa"
        /\ \A u \in Task : thread[u] = "ready" => u = "I_Task"
        /\ \A u \in Task : pc'[u] = IF u = "I_Task" THEN m ELSE pc[u]
        /\ hasWaiter' = hasWaiter /\ load' = load
    BY <1>t, <2>1, ControlEffect
  <2>4. PhaseA /\ A_Pace /\ A_Parked /\ i \in Nat
    BY <1>t, <2>3, ControlPhase, CountAssumption DEF TypeOK
  <2>5. /\ \A u \in Task : thread'[u] = IF u = "L_Task_SA" THEN "ready" ELSE thread[u]
        /\ events' = events /\ count' = count
    BY <1>t, <2>2, <2>4, ResumeEffect, Threads DEF A_Parked, Is
  <2>6. Common' /\ Fresh(TasksSB)'
    BY <2>3, <2>4, <2>5, Threads DEF IInv, Common, PhaseA, Fresh, TasksSB, Is, MainTasks
  <2>7. A_Pace' /\ A_Armed'
    <3>1. pc'["I_Task"] = m
      BY <2>3, Threads
    <3>2. RoundA' = i + 1
      <4>1. i < MEASUREMENT_COUNT - 1
        BY <2>3, <2>4 DEF A_Pace
      <4>2. CASE m = "wait_sa"
        BY <2>1, <3>1, <4>2 DEF RoundA
      <4>3. CASE m = "abort_low_sa"
        <5>1. MEASUREMENT_COUNT - 1 = i + 1
          BY <2>1, <2>4, <4>1, <4>3, CountAssumption
        <5>2. QED  BY <3>1, <4>3, <5>1 DEF RoundA
      <4>4. QED  BY <4>2, <4>3
    <3>3. A_Pace'
      BY <2>1, <2>3, <2>4, <2>5, <3>1, Threads, CountAssumption
      DEF A_Pace, RoundA, A_Parked, A_Armed, Pended, Is, MainTasks, SaLoad
    <3>4. A_Armed'
      BY <2>1, <2>2, <2>3, <2>4, <2>5, <3>1, <3>2, Threads
      DEF A_Pace, RoundA, A_Parked, A_Armed, Pended, Is, MainTasks, SaLoad
    <3>5. QED  BY <3>3, <3>4
  <2>8. QED  BY <1>t, <2>2, <2>4, <2>5, <2>6, <2>7 DEF IInv, PhaseA, A_Loop
<1>26. ASSUME I_ResumeSB PROVE IInv'
  <2>1. PICK m \in {"wait_sb", "abort_low_sb"} :
          /\ Step("I_Task", "resume_sb", m)
          /\ m = "wait_sb" => i + 1 < MEASUREMENT_COUNT /\ i' = i + 1
          /\ m = "abort_low_sb" => i + 1 >= MEASUREMENT_COUNT /\ i' = 0
    BY <1>26 DEF I_ResumeSB, I_Resume
  <2>2. Resume("H_Task_SB") /\ window' = window /\ samples' = samples
    BY <1>26 DEF I_ResumeSB, I_Resume, NoSample
  <2>3. /\ thread["I_Task"] = "ready" /\ pc["I_Task"] = "resume_sb"
        /\ \A u \in Task : thread[u] = "ready" => u = "I_Task"
        /\ \A u \in Task : pc'[u] = IF u = "I_Task" THEN m ELSE pc[u]
        /\ hasWaiter' = hasWaiter /\ load' = load
    BY <1>t, <2>1, ControlEffect
  <2>4. PhaseB /\ B_Pace /\ B_Parked /\ i \in Nat
    BY <1>t, <2>3, ControlPhase, CountAssumption DEF TypeOK
  <2>5. /\ \A u \in Task : thread'[u] = IF u = "H_Task_SB" THEN "ready" ELSE thread[u]
        /\ events' = events /\ count' = count
    BY <1>t, <2>2, <2>4, ResumeEffect, Threads DEF B_Parked, Is
  <2>6. Common' /\ Gone(TasksSA)'
    BY <2>3, <2>4, <2>5, Threads DEF IInv, Common, PhaseB, Gone, TasksSA, MainTasks
  <2>7. B_Pace' /\ B_Armed'
    <3>1. pc'["I_Task"] = m
      BY <2>3, Threads
    <3>2. RoundB' = i + 1
      <4>1. i < MEASUREMENT_COUNT
        BY <2>3, <2>4 DEF B_Pace
      <4>2. CASE m = "wait_sb"
        BY <2>1, <3>1, <4>2 DEF RoundB
      <4>3. CASE m = "abort_low_sb"
        <5>1. MEASUREMENT_COUNT = i + 1
          BY <2>1, <2>4, <4>1, <4>3, CountAssumption
        <5>2. QED  BY <3>1, <4>3, <5>1 DEF RoundB
      <4>4. QED  BY <4>2, <4>3
    <3>3. B_Pace'
      BY <2>1, <2>3, <2>4, <2>5, <3>1, Threads, CountAssumption
      DEF B_Pace, RoundB, B_Parked, B_Armed, B_Counted, CountAfter, Parked, Pended, Is,
          MainTasks, SbLoad
    <3>4. B_Armed'
      BY <2>1, <2>2, <2>3, <2>4, <2>5, <3>1, <3>2, Threads
      DEF B_Pace, RoundB, B_Parked, B_Armed, B_Counted, CountAfter, Parked, Pended, Is,
          MainTasks, SbLoad
    <3>5. QED  BY <3>3, <3>4
  <2>8. QED  BY <1>t, <2>2, <2>4, <2>5, <2>6, <2>7 DEF IInv, PhaseB, B_Loop
<1>27. ASSUME I_Reset PROVE IInv'
  <2>1. /\ Step("I_Task", "reset", "create_high_sb") /\ SemReset(test_sem)
        /\ \A d \in SaLoad : thread[d] = "dead"
        /\ window' = window /\ samples' = samples /\ i' = i
    BY <1>27 DEF I_Reset, Quiet, NoSample
  <2>2. /\ thread["I_Task"] = "ready" /\ pc["I_Task"] = "reset"
        /\ \A u \in Task : thread[u] = "ready" => u = "I_Task"
        /\ \A u \in Task : pc'[u] = IF u = "I_Task" THEN "create_high_sb" ELSE pc[u]
        /\ hasWaiter' = hasWaiter /\ load' = load
    BY <1>t, <2>1, ControlEffect
  <2>3. PhaseA /\ A_End
    BY <2>2, ControlPhase
  <2>4. /\ \A t \in TasksSA : thread[t] \in {"none", "dead"}
        /\ \A t \in TasksSB : thread[t] = "none"
    BY <2>1, <2>2, <2>3, Threads
    DEF IInv, Common, PhaseA, A_End, Fresh, Is, TasksSA, TasksSB, SaLoad
  <2>5. \A u \in Task : thread[u] # test_sem
    BY <2>2, <2>4, Threads DEF MainTasks, TasksSA, TasksSB
  <2>6. /\ \A u \in Task : thread'[u] = thread[u]
        /\ events' = events /\ count'[test_sem] = 0
    BY <1>t, <2>1, <2>5, ResetEffect
  <2>7. Common' /\ Gone(TasksSA)'
    BY <2>2, <2>4, <2>6, Threads DEF IInv, Common, Gone, TasksSA, MainTasks
  <2>8. B_Setup'
    <3>1. /\ Fresh(SbDummies)' /\ Is("L_Task_SB", "none", "post_start")'
          /\ Is("H_Task_SB", "none", "wait_start")'
      BY <2>2, <2>3, <2>6, Threads
      DEF PhaseA, Fresh, Is, Entry, TasksSB, Task, MainTasks, Dummies
    <3>2. QED
      BY <2>1, <2>2, <2>3, <2>6, <3>1, Threads DEF PhaseA, A_End, B_Setup
  <2>9. QED  BY <1>t, <2>1, <2>3, <2>7, <2>8 DEF IInv, PhaseB, A_End
<1>28. ASSUME I_Signalize PROVE IInv'
  <2>1. /\ Step("I_Task", "signalize", "signalize") /\ NoCall
        /\ window' = window /\ samples' = samples /\ i' = i
    BY <1>t, <1>28 DEF I_Signalize, Quiet, NoSample
  <2>2. /\ thread["I_Task"] = "ready" /\ pc["I_Task"] = "signalize"
        /\ \A u \in Task : thread[u] = "ready" => u = "I_Task"
        /\ \A u \in Task : pc'[u] = IF u = "I_Task" THEN "signalize" ELSE pc[u]
        /\ hasWaiter' = hasWaiter /\ load' = load
    BY <1>t, <2>1, ControlEffect, Threads
  <2>3. PhaseB /\ B_End
    BY <2>2, ControlPhase, Threads DEF B_Setup, B_Parked, Is
  <2>4. /\ \A u \in Task : thread'[u] = thread[u]
        /\ events' = events /\ count' = count
    BY <2>1 DEF NoCall, kvars
  <2>5. Common'
    BY <2>2, <2>3, <2>4, Threads DEF IInv, Common, MainTasks, Pended, PhaseA, PhaseB, Gone,
       TasksSA
  <2>6. Gone(TasksSA)'
    BY <2>2, <2>3, <2>4, Threads DEF PhaseB, Gone, TasksSA, MainTasks
  <2>7. B_End'
    BY <2>1, <2>2, <2>3, <2>4, Threads, CountAssumption
    DEF B_Pace, RoundB, B_Counted, Parked, CountAfter, B_End, Is, MainTasks, Pended, SaLoad,
        SbLoad
  <2>8. QED
    BY <1>t, <2>1, <2>3, <2>4, <2>5, <2>6, <2>7 DEF IInv, PhaseB, B_Loop
<1>29. ASSUME NEW d \in Dummies, I_CreateDummySA(d) PROVE IInv'
  <2>1. /\ Step("I_Task", "create_low_sa", "create_low_sa") /\ Create(d) /\ d \in SaLoad
        /\ window' = window /\ samples' = samples /\ i' = i
    BY <1>29 DEF I_CreateDummySA, I_Create, Quiet, NoSample
  <2>2. /\ thread["I_Task"] = "ready" /\ pc["I_Task"] = "create_low_sa"
        /\ \A u \in Task : thread[u] = "ready" => u = "I_Task"
        /\ \A u \in Task : pc'[u] = pc[u]
        /\ hasWaiter' = hasWaiter /\ load' = load
    BY <1>t, <2>1, ControlEffect
  <2>3. PhaseA /\ A_Setup /\ Is("H_Task_SA", test_sem, "stop")
    BY <2>2, ControlPhase, Threads DEF A_Setup, Is
  <2>4. /\ \A u \in Task : thread'[u] = IF u = d THEN "ready" ELSE thread[u]
        /\ events' = events /\ count' = count
        /\ thread[d] = "none"
    BY <1>t, <2>1, CreateEffect, Threads
  <2>5. Common' /\ Fresh(TasksSB)'
    BY <2>1, <2>2, <2>3, <2>4, Threads DEF IInv, Common, PhaseA, Fresh, TasksSB, Is, SaLoad,
       MainTasks
  <2>6. A_Setup'
    BY <2>1, <2>2, <2>3, <2>4, Threads DEF A_Setup, Fresh, Is, MainTasks, SaLoad
  <2>7. QED  BY <1>t, <2>1, <2>3, <2>4, <2>5, <2>6 DEF IInv, PhaseA
<1>30. ASSUME NEW d \in Dummies, I_AbortDummySA(d) PROVE IInv'
  <2>1. /\ Step("I_Task", "reset", "reset") /\ Abort(d) /\ d \in SaLoad
        /\ window' = window /\ samples' = samples /\ i' = i
    BY <1>30 DEF I_AbortDummySA, I_Abort, Quiet, NoSample
  <2>2. /\ thread["I_Task"] = "ready" /\ pc["I_Task"] = "reset"
        /\ \A u \in Task : thread[u] = "ready" => u = "I_Task"
        /\ \A u \in Task : pc'[u] = pc[u]
        /\ hasWaiter' = hasWaiter /\ load' = load
    BY <1>t, <2>1, ControlEffect
  <2>3. PhaseA /\ A_End
    BY <2>2, ControlPhase, Threads DEF A_Setup, Is
  <2>4. /\ \A u \in Task : thread'[u] = IF u = d THEN "dead" ELSE thread[u]
        /\ events' = events /\ count' = count
        /\ TRUE
    BY <1>t, <2>1, AbortEffect, Threads
  <2>5. Common' /\ Fresh(TasksSB)'
    BY <2>1, <2>2, <2>3, <2>4, Threads DEF IInv, Common, PhaseA, Fresh, TasksSB, Is, SaLoad,
       MainTasks
  <2>6. A_End'
    BY <2>1, <2>2, <2>3, <2>4, Threads DEF A_End, Is, MainTasks, SaLoad
  <2>7. QED  BY <1>t, <2>1, <2>3, <2>4, <2>5, <2>6 DEF IInv, PhaseA
<1>31. ASSUME NEW d \in Dummies, I_CreateDummySB(d) PROVE IInv'
  <2>1. /\ Step("I_Task", "wait_sb", "wait_sb") /\ Create(d) /\ d \in SbLoad
        /\ window' = window /\ samples' = samples /\ i' = i
    BY <1>31 DEF I_CreateDummySB, I_Create, Quiet, NoSample
  <2>2. /\ thread["I_Task"] = "ready" /\ pc["I_Task"] = "wait_sb"
        /\ \A u \in Task : thread[u] = "ready" => u = "I_Task"
        /\ \A u \in Task : pc'[u] = pc[u]
        /\ hasWaiter' = hasWaiter /\ load' = load
    BY <1>t, <2>1, ControlEffect
  <2>3. PhaseB /\ B_Pace /\ B_Parked
    BY <2>2, ControlPhase, Threads DEF A_Setup, Is
  <2>4. /\ \A u \in Task : thread'[u] = IF u = d THEN "ready" ELSE thread[u]
        /\ events' = events /\ count' = count
        /\ thread[d] = "none"
    BY <1>t, <2>1, CreateEffect, Threads
  <2>5. Common' /\ Gone(TasksSA)'
    BY <2>1, <2>2, <2>3, <2>4, Threads DEF IInv, Common, PhaseB, Gone, TasksSA, SbLoad, MainTasks
  <2>6. B_Pace' /\ B_Parked'
    BY <2>1, <2>2, <2>3, <2>4, Threads DEF B_Pace, B_Parked, B_Counted, RoundB, CountAfter,
       Parked, Is, MainTasks, SbLoad
  <2>7. QED  BY <1>t, <2>1, <2>3, <2>4, <2>5, <2>6 DEF IInv, PhaseB, B_Loop
<1>32. CASE UNCHANGED vars
  BY <1>t, <1>32
  DEF vars, IInv, Common, PhaseA, PhaseB, A_Setup, A_Loop, A_Pace, A_Armed, A_Given, A_Recorded,
      A_Parked, A_End, RoundA, B_Setup, B_Loop, B_Pace, B_Start, B_Armed, B_Given, B_Counted,
      B_Recorded, B_Parking, B_Parked, B_End, RoundB, CountAfter, Parked, Is, Fresh, Gone, Pended,
      SaLoad, SbLoad
<1>33. QED
  BY <1>1, <1>2, <1>3, <1>4, <1>5, <1>6, <1>7, <1>8, <1>9, <1>10, <1>11, <1>12, <1>13, <1>14,
     <1>15, <1>16, <1>17, <1>18, <1>19, <1>20, <1>21, <1>22, <1>23, <1>24, <1>25, <1>26, <1>27,
     <1>28, <1>29, <1>30, <1>31, <1>32
  DEF Next, ThreadStep, ControlStep

\* Every reachable state satisfies the inductive invariant.
THEOREM Invariance == Spec => []IInv
BY IInvInit, IInvStep, PTL DEF Spec

-----------------------------------------------------------------------------
\* The bodies of the windows and the places where the control hands over.
LEMMA IsolationFromIInv == IInv => WindowIsolation
<1> SUFFICES ASSUME IInv PROVE WindowIsolation
  OBVIOUS
<1>1. ASSUME window = "scenario_a"
      PROVE  Runs("H_Task_SA") /\ pc["H_Task_SA"] = "stop" /\ count[test_sem] = 0
  <2>1. PhaseA /\ A_Pace /\ A_Given
    BY <1>1 DEF IInv, PhaseA, PhaseB, A_Setup, A_Loop, A_Armed, A_Recorded, A_Parked, A_End,
                B_Setup, B_Loop, B_Start, B_Armed, B_Given, B_Counted, B_Recorded, B_Parking,
                B_Parked, B_End
  <2>2. \A u \in Task : thread[u] = "ready" => u \in {"I_Task", "L_Task_SA", "H_Task_SA"}
    BY <2>1, Threads
    DEF IInv, Common, PhaseA, A_Pace, Pended, Fresh, Is, TasksSB, SaLoad, MainTasks, Dummies
  <2>3. QED
    BY <2>1, <2>2, PrioAssumption, Threads DEF PhaseA, A_Given, Is, Runs, Ready
<1>2. ASSUME window = "scenario_b"
      PROVE  Runs("H_Task_SB") /\ pc["H_Task_SB"] = "stop"
  <2>1. PhaseB /\ B_Pace /\ B_Given
    BY <1>2 DEF IInv, PhaseA, PhaseB, A_Setup, A_Loop, A_Armed, A_Given, A_Recorded, A_Parked,
                A_End, B_Setup, B_Loop, B_Start, B_Armed, B_Counted, B_Recorded, B_Parking,
                B_Parked, B_End
  <2>2. \A u \in Task : thread[u] = "ready" =>
           u \in {"I_Task", "L_Task_SB", "H_Task_SB"} \/ u \in SbDummies
    BY <2>1, Threads DEF IInv, Common, PhaseB, Gone, TasksSA, MainTasks
  <2>3. \A d \in SbDummies : prio["H_Task_SB"] <= prio[d]
    BY PrioAssumption, Threads
  <2>4. QED
    BY <2>1, <2>2, <2>3, PrioAssumption, Threads DEF B_Given, Is, Runs, Ready
<1>3. QED  BY <1>1, <1>2 DEF WindowIsolation

\* The inductive invariant implies that no resume is lost.
LEMMA ResumeFromIInv == IInv => NoLostResume
<1> SUFFICES ASSUME IInv PROVE NoLostResume
  OBVIOUS
<1>1. ASSUME Runs("I_Task")
      PROVE  \A u \in Task : thread[u] = "ready" => u = "I_Task"
  BY <1>1, PrioAssumption, Threads DEF Runs, Ready
<1>2. ASSUME Runs("I_Task"), pc["I_Task"] = "resume_sa"
      PROVE  thread["L_Task_SA"] = "suspended" /\ pc["L_Task_SA"] = "give"
  BY <1>1, <1>2, ControlPhase DEF A_Parked, Is
<1>3. ASSUME Runs("I_Task"), pc["I_Task"] = "resume_sb"
      PROVE  thread["H_Task_SB"] = "suspended" /\ pc["H_Task_SB"] = "give"
  BY <1>1, <1>3, ControlPhase DEF B_Parked, Is
<1>4. ASSUME Runs("H_Task_SB"), pc["H_Task_SB"] = "stop", ~hasWaiter
      PROVE  thread["L_Task_SB"] = "suspended" /\ pc["L_Task_SB"] = "post_yield"
  <2>1. thread["H_Task_SB"] = "ready"
    BY <1>4 DEF Runs, Ready
  <2>2. B_Given
    BY <1>4, <2>1 DEF IInv, PhaseA, PhaseB, Fresh, TasksSB, B_Setup, B_Loop, B_Start, B_Armed,
                      B_Recorded, B_Parking, B_Parked, B_End, Is
  <2>3. QED  BY <1>4, <2>2 DEF B_Given, Is
<1>5. QED  BY <1>2, <1>3, <1>4 DEF NoLostResume

\* The inductive invariant says what each measured give finds.
LEMMA ConditionsFromIInv == IInv => SameConditions
<1> SUFFICES ASSUME IInv PROVE SameConditions
  OBVIOUS
<1>1. ASSUME Runs("L_Task_SA"), pc["L_Task_SA"] = "give"
      PROVE  /\ Waiters(test_sem) = {"H_Task_SA"} \cup SaLoad /\ count[test_sem] = 0
             /\ events = {} /\ Waiters(START) \cup Waiters(YIELD) = {}
  <2>1. thread["L_Task_SA"] = "ready"
    BY <1>1 DEF Runs, Ready
  <2>2. PhaseA /\ A_Pace /\ A_Armed
    BY <1>1, <2>1 DEF IInv, PhaseA, PhaseB, Gone, TasksSA, A_Setup, A_Loop, A_Given, A_Recorded,
                      A_Parked, A_End, Is
  <2>3. \A u \in Task : thread[u] = test_sem <=> u = "H_Task_SA" \/ u \in SaLoad
    BY <2>1, <2>2, Threads
    DEF IInv, Common, PhaseA, A_Pace, A_Armed, Pended, Fresh, Is, TasksSB, SaLoad, MainTasks
  <2>4. events = {}
    BY <1>1, <2>2 DEF A_Armed, Is
  <2>5. \A u \in Task : thread[u] \notin {START, YIELD}
    BY <2>1, <2>2, <2>3, Threads
    DEF IInv, Common, PhaseA, A_Pace, A_Armed, Pended, Fresh, Is, TasksSB, SaLoad, MainTasks
  <2>6. QED  BY <2>2, <2>3, <2>4, <2>5, Threads DEF Waiters, PhaseA
<1>2. ASSUME Runs("H_Task_SB"), pc["H_Task_SB"] = "give"
      PROVE  /\ Waiters(test_sem) = (IF hasWaiter THEN {"L_Task_SB"} ELSE {}) \cup SbLoad
             /\ count[test_sem] = IF Waiters(test_sem) = {} THEN samples["scenario_b"] ELSE 0
             /\ count[test_sem] < K_SEM_MAX_LIMIT
             /\ events = {} /\ Waiters(START) \cup Waiters(YIELD) = {}
  <2>1. thread["H_Task_SB"] = "ready"
    BY <1>2 DEF Runs, Ready
  <2>2. PhaseB /\ B_Pace /\ B_Armed
    BY <1>2, <2>1 DEF IInv, PhaseA, PhaseB, Fresh, TasksSB, B_Setup, B_Loop, B_Start, B_Given,
                      B_Recorded, B_Parking, B_Parked, B_End, Is
  <2>3. \A u \in Task :
           /\ thread[u] = test_sem <=> u \in SbLoad \/ (u = "L_Task_SB" /\ hasWaiter)
           /\ thread[u] \notin {START, YIELD}
    BY <2>1, <2>2, Threads
    DEF IInv, Common, PhaseB, Gone, TasksSA, B_Armed, Parked, Pended, Is, MainTasks, SbLoad
  <2>4. /\ Waiters(test_sem) = (IF hasWaiter THEN {"L_Task_SB"} ELSE {}) \cup SbLoad
        /\ Waiters(START) \cup Waiters(YIELD) = {}
    BY <2>3, Threads DEF Waiters
  <2>5. Waiters(test_sem) = {} <=> ~hasWaiter /\ SbLoad = {}
    BY <2>4
  <2>6. events = {} /\ count[test_sem] = CountAfter(samples["scenario_b"])
    BY <2>2 DEF B_Armed
  <2>7. count[test_sem] = IF Waiters(test_sem) = {} THEN samples["scenario_b"] ELSE 0
    BY <2>5, <2>6 DEF CountAfter
  <2>8. samples["scenario_b"] < MEASUREMENT_COUNT /\ samples["scenario_b"] \in Nat
    BY <2>2, CountAssumption DEF IInv, B_Pace, B_Armed, RoundB, TypeOK
  <2>9. count[test_sem] < K_SEM_MAX_LIMIT
    BY <2>7, <2>8, CountAssumption
  <2>10. QED  BY <2>4, <2>6, <2>7, <2>9
<1>3. QED  BY <1>1, <1>2 DEF SameConditions

\* The inductive invariant implies the balance of test_sem.
LEMMA BalanceFromIInv == IInv => SemBalance
<1> SUFFICES ASSUME IInv PROVE SemBalance
  OBVIOUS
<1>1. ASSUME pc["I_Task"] = "create_high_sb"
      PROVE  Waiters(test_sem) = {}
  <2>1. PhaseB /\ B_Setup
    BY <1>1 DEF IInv, PhaseA, PhaseB, A_Setup, A_Loop, A_Pace, A_End, B_Loop, B_Pace, B_End
  <2>2. \A u \in Task : thread[u] # test_sem
    BY <1>1, <2>1, Threads
    DEF IInv, Common, PhaseB, Gone, B_Setup, Fresh, Is, TasksSA, MainTasks
  <2>3. QED  BY <2>2 DEF Waiters
<1>2. ASSUME Runs("I_Task")
      PROVE  count[test_sem] = IF hasWaiter \/ SbLoad # {} THEN 0 ELSE samples["scenario_b"]
  <2>1. \A u \in Task : thread[u] = "ready" => u = "I_Task"
    BY <1>2, PrioAssumption, Threads DEF Runs, Ready
  <2>2. PhaseA \/ (PhaseB /\ (B_Setup \/ B_Parked \/ B_End))
    BY <2>1, Threads
    DEF IInv, PhaseB, B_Loop, B_Start, B_Armed, B_Given, B_Recorded, B_Parking, Is
  <2>3. QED
    BY <2>2 DEF PhaseA, PhaseB, B_Setup, B_Parked, B_Counted, B_End, CountAfter
<1>3. QED  BY <1>1, <1>2 DEF SemBalance

\* Between the markers of a window nothing runs but what is measured.
THEOREM Isolation == Spec => []WindowIsolation
BY Invariance, IsolationFromIInv, PTL

\* No resume of the test is lost.
THEOREM Resumes == Spec => []NoLostResume
BY Invariance, ResumeFromIInv, PTL

\* Every measured give finds the same waiters, no event, and the same count or,
\* in scenario B without waiter and load, the number of samples taken.
THEOREM Conditions == Spec => []SameConditions
BY Invariance, ConditionsFromIInv, PTL

\* What scenario B finds and leaves behind on the semaphore.
THEOREM Balance == Spec => []SemBalance
BY Invariance, BalanceFromIInv, PTL

-----------------------------------------------------------------------------
\* Steps that open no window and record no sample stutter in Measurement.
LEMMA RefinementStep == IInv /\ IInv' /\ [Next]_vars => [M!Next]_(M!mvars)
<1> SUFFICES ASSUME IInv, [Next]_vars PROVE [M!Next]_(M!mvars)
  OBVIOUS
<1> USE DEF M!Next, M!mvars, M!Open, M!Record, M!Due, M!Scenario
<1>t. TypeOK
  BY DEF IInv
<1>1. ASSUME LowSA_Give PROVE M!Open("scenario_a")
  <2>1. thread["L_Task_SA"] = "ready" /\ pc["L_Task_SA"] = "give"
    BY <1>1 DEF LowSA_Give, Step, Runs, Ready
  <2>2. A_Pace /\ A_Armed
    BY <2>1 DEF IInv, PhaseA, PhaseB, Gone, TasksSA, A_Setup, A_Loop, A_Given, A_Recorded,
                A_Parked, A_End, Is
  <2>3. samples["scenario_a"] < MEASUREMENT_COUNT
    BY <1>t, <2>2, CountAssumption DEF A_Pace, A_Armed, RoundA, TypeOK
  <2>4. QED  BY <1>1, <2>2, <2>3 DEF LowSA_Give, OpenWindow, A_Armed
<1>2. ASSUME HighSA_Stop PROVE M!Record("scenario_a")
  <2>1. thread["H_Task_SA"] = "ready" /\ pc["H_Task_SA"] = "stop"
    BY <1>2 DEF HighSA_Stop, Step, Runs, Ready
  <2>2. A_Given
    BY <2>1 DEF IInv, PhaseA, PhaseB, Gone, TasksSA, A_Setup, A_Loop, A_Armed, A_Recorded,
                A_Parked, A_End, Is
  <2>3. QED  BY <1>2, <2>2 DEF HighSA_Stop, RecordSample, A_Given
<1>3. ASSUME HighSB_Give PROVE M!Open("scenario_b")
  <2>1. thread["H_Task_SB"] = "ready" /\ pc["H_Task_SB"] = "give"
    BY <1>3 DEF HighSB_Give, Step, Runs, Ready
  <2>2. PhaseB /\ B_Pace /\ B_Armed
    BY <2>1 DEF IInv, PhaseA, PhaseB, Fresh, TasksSB, B_Setup, B_Loop, B_Start, B_Given,
                B_Recorded, B_Parking, B_Parked, B_End, Is
  <2>3. samples["scenario_b"] < MEASUREMENT_COUNT
    BY <1>t, <2>2, CountAssumption DEF B_Pace, B_Armed, RoundB, TypeOK
  <2>4. QED  BY <1>3, <2>2, <2>3 DEF HighSB_Give, OpenWindow, PhaseB, B_Armed
<1>4. ASSUME HighSB_Stop PROVE M!Record("scenario_b")
  <2>1. thread["H_Task_SB"] = "ready" /\ pc["H_Task_SB"] = "stop"
    BY <1>4 DEF HighSB_Stop, Step, Runs, Ready
  <2>2. B_Given
    BY <2>1 DEF IInv, PhaseA, PhaseB, Fresh, TasksSB, B_Setup, B_Loop, B_Start, B_Armed,
                B_Recorded, B_Parking, B_Parked, B_End, Is
  <2>3. QED  BY <1>4, <2>2 DEF HighSB_Stop, RecordSample, B_Given
<1>5. ASSUME ThreadStep, ~LowSA_Give, ~HighSA_Stop, ~HighSB_Give, ~HighSB_Stop
      PROVE  UNCHANGED <<window, samples>>
  BY <1>5 DEF ThreadStep, Quiet, NoSample, LowSA_WaitStart, LowSA_Suspend, HighSA_PostStart,
              HighSA_Take, HighSB_WaitStart, HighSB_Suspend, LowSB_PostStart, LowSB_PostYield,
              LowSB_Park, Dummy_Take
<1>6. ASSUME ControlStep PROVE UNCHANGED <<window, samples>>
  BY <1>6 DEF ControlStep, Quiet, NoSample, I_Create, I_Abort, I_Resume, I_CreateHighSA,
              I_CreateLowSA, I_WaitSA, I_ResumeSA, I_AbortLowSA, I_AbortHighSA, I_Reset,
              I_CreateHighSB, I_CreateLowSB, I_WaitSB, I_ResumeSB, I_AbortLowSB, I_AbortHighSB,
              I_Signalize, I_CreateDummySA, I_AbortDummySA, I_CreateDummySB
<1>7. CASE UNCHANGED vars
  BY <1>7 DEF vars
<1>8. QED
  BY <1>1, <1>2, <1>3, <1>4, <1>5, <1>6, <1>7 DEF Next

\* The program takes only steps of a correct measurement: MEASUREMENT_COUNT
\* windows of scenario A, then those of scenario B, never nested, each with
\* one sample (the safety part of Measures).
THEOREM Refinement == Spec => M!Init /\ [][M!Next]_(M!mvars)
<1>1. Init => M!Init
  BY DEF Init, M!Init, M!Scenario
<1>2. QED
  BY <1>1, Invariance, RefinementStep, PTL DEF Spec
=============================================================================
