------------------------- MODULE EventPreemptProofs -------------------------
(***************************************************************************)
(* Theorems about EventPreempt, for every number of iterations, every pool *)
(* of dummies and every assignment of priorities that has the order which  *)
(* the sources ask for.                                                    *)
(***************************************************************************)
EXTENDS EventPreempt, TLAPS

USE DEF START, YIELD, A, B

Series == {"scenario_a", "scenario_b"}

Labels == {"create_high_sa", "create_low_sa", "wait_sa", "resume_sa", "abort_low_sa",
           "abort_high_sa", "create_high_sb", "create_low_sb", "wait_sb", "resume_sb",
           "abort_low_sb", "abort_high_sb", "signalize", "wait_start", "post", "suspend",
           "post_start", "wait", "stop", "resume", "post_yield", "park"}

InType ==
    /\ thread \in [Task -> ThreadState]
    /\ events \subseteq {START, YIELD, A, B}
    /\ pc \in [Task -> Labels]
    /\ i \in 0..(MEASUREMENT_COUNT - 1)
    /\ samples \in [Series -> Nat]
    /\ load \subseteq Dummies
    /\ hasWaiter \in BOOLEAN

-----------------------------------------------------------------------------
(***************************************************************************)
(* The inductive invariant follows I_Task through the test, as in          *)
(* SemPreemptProofs.  A post wakes all dummies at once, so they can be     *)
(* ready while a window is open; they are more urgent than the thread that *)
(* runs last in an iteration, so all of them wait again before I_Task      *)
(* asks for the next window.                                               *)
(***************************************************************************)
Is(t, state, label) == thread[t] = state /\ pc[t] = label

Fresh(T) == \A t \in T : Is(t, "none", Entry[t])
Gone(T) == \A t \in T : thread[t] \in {"none", "dead"}

\* The dummies of T wait for the bit e; all those of T, or those that the
\* last post has not just woken.
Pended(T, e) == \A d \in T : thread[d] = e
Woken(T, e) == \A d \in T : thread[d] \in {"ready", e}

TasksSA == {"L_Task_SA", "H_Task_SA"} \cup SaDummies
TasksSB == {"L_Task_SB", "H_Task_SB"} \cup SbDummies

\* What holds at every label.
Common ==
    /\ thread["I_Task"] = "ready"
    /\ \A d \in Dummies : pc[d] = "wait" /\ (d \notin load => thread[d] = "none")

-----------------------------------------------------------------------------
\* Scenario A before L_Task_SA exists.
A_Setup ==
    /\ window = "closed" /\ i = 0 /\ samples["scenario_a"] = 0
    /\ Is("L_Task_SA", "none", "wait_start")
    /\ \/ /\ pc["I_Task"] = "create_high_sa"
          /\ Is("H_Task_SA", "none", "post_start")
          /\ Fresh(SaDummies)
          /\ events = {}
       \/ /\ pc["I_Task"] = "create_low_sa"
          /\ \/ Is("H_Task_SA", "ready", "post_start") /\ events = {} /\ Fresh(SaDummies)
             \/ Is("H_Task_SA", "ready", "wait") /\ events = {START} /\ Fresh(SaDummies)
             \/ /\ Is("H_Task_SA", A, "stop")
                /\ events = {START}
                /\ \A d \in SaLoad : thread[d] \in {"none", "ready", A}

\* The number of windows of scenario A that I_Task has asked for; L_Task_SA
\* opens one more, unasked.
RoundA == IF pc["I_Task"] = "abort_low_sa" THEN MEASUREMENT_COUNT - 1 ELSE i

A_Pace ==
    \/ pc["I_Task"] \in {"wait_sa", "resume_sa"} /\ i < MEASUREMENT_COUNT - 1
    \/ pc["I_Task"] = "abort_low_sa" /\ i = 0

\* L_Task_SA is about to open a window.
A_Armed ==
    /\ pc["I_Task"] # "resume_sa"
    /\ window = "closed" /\ samples["scenario_a"] = RoundA
    /\ Is("H_Task_SA", A, "stop") /\ Pended(SaLoad, A)
    /\ \/ Is("L_Task_SA", "ready", "wait_start") /\ events = {START}
       \/ Is("L_Task_SA", "ready", "post") /\ events = {}

\* The post has switched to H_Task_SA and woken the dummies.
A_Posted ==
    /\ pc["I_Task"] # "resume_sa"
    /\ window = "scenario_a" /\ samples["scenario_a"] = RoundA
    /\ Is("H_Task_SA", "ready", "stop") /\ Woken(SaLoad, A)
    /\ Is("L_Task_SA", "ready", "suspend") /\ events = {}

\* The sample is recorded and L_Task_SA has not suspended itself yet.
A_Recorded ==
    /\ pc["I_Task"] # "resume_sa"
    /\ window = "closed" /\ samples["scenario_a"] = RoundA + 1
    /\ Is("H_Task_SA", "ready", "wait") \/ Is("H_Task_SA", A, "stop")
    /\ Woken(SaLoad, A)
    /\ Is("L_Task_SA", "ready", "suspend") /\ events = {YIELD}

\* All threads of the scenario are parked: I_Task runs.
A_Parked ==
    /\ window = "closed" /\ samples["scenario_a"] = RoundA + 1
    /\ Is("H_Task_SA", A, "stop") /\ Pended(SaLoad, A)
    /\ Is("L_Task_SA", "suspended", "post")
    /\ events = IF pc["I_Task"] = "resume_sa" THEN {} ELSE {YIELD}

A_Loop == A_Pace /\ (A_Armed \/ A_Posted \/ A_Recorded \/ A_Parked)

\* Scenario A is being dismantled; the last YIELD is left unconsumed.
A_End ==
    /\ window = "closed" /\ i = 0 /\ samples["scenario_a"] = MEASUREMENT_COUNT
    /\ events = {YIELD}
    /\ thread["L_Task_SA"] = "dead"
    /\ \/ pc["I_Task"] = "abort_high_sa" /\ thread["H_Task_SA"] = A /\ Pended(SaLoad, A)
       \/ /\ pc["I_Task"] = "create_high_sb"
          /\ thread["H_Task_SA"] = "dead"
          /\ \A d \in SaLoad : thread[d] \in {A, "dead"}

PhaseA ==
    /\ mask = A
    /\ Fresh(TasksSB)
    /\ samples["scenario_b"] = 0
    /\ A_Setup \/ A_Loop \/ A_End

-----------------------------------------------------------------------------
\* Scenario B before L_Task_SB exists; the YIELD of scenario A is still posted.
B_Setup ==
    /\ pc["I_Task"] = "create_low_sb"
    /\ window = "closed" /\ i = 0 /\ samples["scenario_b"] = 0
    /\ Is("L_Task_SB", "none", "post_start")
    /\ events = {YIELD}
    /\ \/ Is("H_Task_SB", "ready", "wait_start") /\ Fresh(SbDummies)
       \/ /\ Is("H_Task_SB", START, "suspend")
          /\ \A d \in SbLoad : thread[d] \in {"none", "ready", B}

\* The number of windows of scenario B that I_Task has asked for.
RoundB == IF pc["I_Task"] = "abort_low_sb" THEN MEASUREMENT_COUNT ELSE i

\* The bit of the scenario after n posts: left posted when nobody waits.
Left(n) == IF ~hasWaiter /\ SbLoad = {} /\ n > 0 THEN {B} ELSE {}

\* Where the pair of the scenario stands between two iterations.
Parked == Is("L_Task_SB", IF hasWaiter THEN B ELSE "suspended", "post_yield")
Suspended == Is("H_Task_SB", "suspended", IF hasWaiter THEN "post" ELSE "resume")

B_Pace ==
    \/ pc["I_Task"] \in {"wait_sb", "resume_sb"} /\ i < MEASUREMENT_COUNT
    \/ pc["I_Task"] = "abort_low_sb" /\ i = 0

\* L_Task_SB starts the pair.
B_Start ==
    /\ pc["I_Task"] = "wait_sb" /\ i = 0
    /\ window = "closed" /\ samples["scenario_b"] = 0
    /\ events = {YIELD} /\ Pended(SbLoad, B)
    /\ \/ Is("H_Task_SB", START, "suspend") /\ Is("L_Task_SB", "ready", "post_start")
       \/ Is("H_Task_SB", "ready", "suspend") /\ Is("L_Task_SB", "ready", "post_yield")

\* H_Task_SB is about to open a window, at once or after the resume.
B_Armed ==
    /\ pc["I_Task"] # "resume_sb" /\ RoundB > 0
    /\ window = "closed" /\ samples["scenario_b"] = RoundB - 1
    /\ events = Left(RoundB - 1) /\ Pended(SbLoad, B)
    /\ \/ ~hasWaiter /\ Is("H_Task_SB", "ready", "resume") /\ Parked
       \/ /\ Is("H_Task_SB", "ready", "post")
          /\ Is("L_Task_SB", IF hasWaiter THEN B ELSE "ready", "post_yield")

\* The post is done and has not switched.
B_Posted ==
    /\ pc["I_Task"] # "resume_sb" /\ RoundB > 0
    /\ window = "scenario_b" /\ samples["scenario_b"] = RoundB - 1
    /\ events = Left(RoundB) /\ Woken(SbLoad, B)
    /\ Is("H_Task_SB", "ready", "stop")
    /\ Is("L_Task_SB", "ready", "post_yield")

\* No window is open, RoundB samples are recorded and H_Task_SB is parked.
B_Counted ==
    /\ window = "closed" /\ samples["scenario_b"] = RoundB
    /\ Suspended

\* L_Task_SB is on its way to the place where it is parked.
B_Parking ==
    /\ B_Counted /\ pc["I_Task"] # "resume_sb"
    /\ Woken(SbLoad, B)
    /\ \/ /\ Is("L_Task_SB", "ready", "post_yield")
          /\ events = Left(RoundB) \/ events = Left(RoundB) \cup {YIELD}
       \/ Is("L_Task_SB", "ready", "park") /\ events = Left(RoundB) \cup {YIELD}

\* All threads of the scenario are parked: I_Task runs.
B_Parked ==
    /\ B_Counted
    /\ Pended(SbLoad, B) /\ Parked
    /\ events = Left(RoundB) \cup (IF pc["I_Task"] = "resume_sb" THEN {} ELSE {YIELD})

B_Loop == B_Pace /\ (B_Start \/ B_Armed \/ B_Posted \/ B_Parking \/ B_Parked)

B_End ==
    /\ window = "closed" /\ samples["scenario_b"] = MEASUREMENT_COUNT
    /\ Pended(SbLoad, B)
    /\ thread["L_Task_SB"] = "dead"
    /\ \/ pc["I_Task"] = "abort_high_sb" /\ thread["H_Task_SB"] = "suspended"
       \/ pc["I_Task"] = "signalize" /\ thread["H_Task_SB"] = "dead"

PhaseB ==
    /\ mask = B
    /\ Gone(TasksSA)
    /\ samples["scenario_a"] = MEASUREMENT_COUNT
    /\ B_Setup \/ B_Loop \/ B_End

IInv == InType /\ Common /\ (PhaseA \/ PhaseB)

-----------------------------------------------------------------------------
\* The named threads are threads, and no dummy is one of them.
LEMMA Threads ==
    /\ "I_Task" \in Task /\ "L_Task_SA" \in Task /\ "H_Task_SA" \in Task
    /\ "L_Task_SB" \in Task /\ "H_Task_SB" \in Task
    /\ \A d \in Dummies : d \in Task /\ d \notin MainTasks
    /\ \A d \in SaDummies : d \in Dummies /\ d \notin SbDummies
    /\ \A d \in SbDummies : d \in Dummies /\ d \notin SaDummies
    /\ \A d \in SaLoad : d \in SaDummies /\ d \in load
    /\ \A d \in SbLoad : d \in SbDummies /\ d \in load
    /\ \A t \in Task : t \in MainTasks \/ t \in SaDummies \/ t \in SbDummies
BY TaskAssumption DEF Task, MainTasks, Dummies, SaLoad, SbLoad

\* The kernel operations keep the kernel's state well typed.
LEMMA KernelTyping ==
    ASSUME thread \in [Task -> ThreadState], events \subseteq {START, YIELD, A, B},
           NEW t \in Task, NEW e \in {START, YIELD, A, B},
           \/ Create(t) \/ Abort(t) \/ Suspend(t) \/ Resume(t)
           \/ EventWait(t, e) \/ EventPost(e) \/ NoCall
    PROVE  thread' \in [Task -> ThreadState] /\ events' \subseteq {START, YIELD, A, B}
<1> USE DEF ThreadState
<1>1. CASE Create(t)  BY <1>1 DEF Create
<1>2. CASE Abort(t)  BY <1>2 DEF Abort
<1>3. CASE Suspend(t)  BY <1>3 DEF Suspend
<1>4. CASE Resume(t)  BY <1>4 DEF Resume
<1>5. CASE EventWait(t, e)  BY <1>5 DEF EventWait
<1>6. CASE EventPost(e)  BY <1>6 DEF EventPost
<1>7. CASE NoCall  BY <1>7 DEF NoCall, kvars
<1>8. QED  BY <1>1, <1>2, <1>3, <1>4, <1>5, <1>6, <1>7

\* The initial states are well typed.
LEMMA TypeInit == Init => InType
<1>1. SUFFICES ASSUME Init PROVE InType
  OBVIOUS
<1>2. thread \in [Task -> ThreadState]
  BY <1>1 DEF Init, ThreadState
<1>3. pc \in [Task -> Labels]
  BY <1>1 DEF Init, Entry, Labels, Task, MainTasks, Dummies
<1>4. i \in 0..(MEASUREMENT_COUNT - 1)
  BY <1>1, CountAssumption DEF Init
<1>5. QED  BY <1>1, <1>2, <1>3, <1>4 DEF Init, InType, Series

\* Every step keeps the state well typed.
LEMMA TypeStep == InType /\ mask \in {A, B} /\ [Next]_vars => InType'
<1> SUFFICES ASSUME InType, mask \in {A, B}, [Next]_vars PROVE InType'
  OBVIOUS
<1> USE CountAssumption DEF Step, Quiet, NoSample, OpenWindow, RecordSample, build, InType,
        Labels, Series
<1>t. /\ {"I_Task", "L_Task_SA", "H_Task_SA", "L_Task_SB", "H_Task_SB"} \subseteq Task
      /\ Dummies \subseteq Task
  BY DEF Task, MainTasks
<1>1. CASE LowSA_WaitStart  BY <1>1, <1>t, KernelTyping DEF LowSA_WaitStart
<1>2. CASE LowSA_Post  BY <1>2, <1>t, KernelTyping DEF LowSA_Post
<1>3. CASE LowSA_Suspend  BY <1>3, <1>t, KernelTyping DEF LowSA_Suspend
<1>4. CASE HighSA_PostStart  BY <1>4, <1>t, KernelTyping DEF HighSA_PostStart
<1>5. CASE HighSA_Wait  BY <1>5, <1>t, KernelTyping DEF HighSA_Wait
<1>6. CASE HighSA_Stop  BY <1>6, <1>t, KernelTyping DEF HighSA_Stop
<1>7. CASE HighSB_WaitStart  BY <1>7, <1>t, KernelTyping DEF HighSB_WaitStart
<1>8. CASE HighSB_Suspend  BY <1>8, <1>t, KernelTyping DEF HighSB_Suspend
<1>9. CASE HighSB_Resume  BY <1>9, <1>t, KernelTyping DEF HighSB_Resume
<1>10. CASE HighSB_Post  BY <1>10, <1>t, KernelTyping DEF HighSB_Post
<1>11. CASE HighSB_Stop  BY <1>11, <1>t, KernelTyping DEF HighSB_Stop
<1>12. CASE LowSB_PostStart  BY <1>12, <1>t, KernelTyping DEF LowSB_PostStart
<1>13. CASE LowSB_PostYield  BY <1>13, <1>t, KernelTyping DEF LowSB_PostYield
<1>14. CASE LowSB_Park  BY <1>14, <1>t, KernelTyping DEF LowSB_Park
<1>15. CASE \E d \in Dummies : Dummy_Wait(d)
  BY <1>15, <1>t, KernelTyping DEF Dummy_Wait
<1>16. CASE I_CreateHighSA  BY <1>16, <1>t, KernelTyping DEF I_CreateHighSA, I_Create
<1>17. CASE I_CreateLowSA
  BY <1>17, <1>t, KernelTyping DEF I_CreateLowSA, AfterLowSA, I_Create
<1>18. CASE I_WaitSA  BY <1>18, <1>t, KernelTyping DEF I_WaitSA
<1>19. CASE I_ResumeSA  BY <1>19, <1>t, KernelTyping DEF I_ResumeSA, I_Resume
<1>20. CASE I_AbortLowSA  BY <1>20, <1>t, KernelTyping DEF I_AbortLowSA, I_Abort
<1>21. CASE I_AbortHighSA  BY <1>21, <1>t, KernelTyping DEF I_AbortHighSA, I_Abort
<1>22. CASE I_CreateHighSB  BY <1>22, <1>t, KernelTyping DEF I_CreateHighSB, I_Create
<1>23. CASE I_CreateLowSB  BY <1>23, <1>t, KernelTyping DEF I_CreateLowSB, I_Create
<1>24. CASE I_WaitSB  BY <1>24, <1>t, KernelTyping DEF I_WaitSB
<1>25. CASE I_ResumeSB  BY <1>25, <1>t, KernelTyping DEF I_ResumeSB, I_Resume
<1>26. CASE I_AbortLowSB  BY <1>26, <1>t, KernelTyping DEF I_AbortLowSB, I_Abort
<1>27. CASE I_AbortHighSB  BY <1>27, <1>t, KernelTyping DEF I_AbortHighSB, I_Abort
<1>28. CASE I_Signalize  BY <1>28, <1>t, KernelTyping DEF I_Signalize
<1>29. CASE \E d \in Dummies : I_CreateDummySA(d)
  BY <1>29, <1>t, KernelTyping DEF I_CreateDummySA, I_Create
<1>30. CASE \E d \in Dummies : I_AbortDummySA(d)
  BY <1>30, <1>t, KernelTyping DEF I_AbortDummySA, I_Abort
<1>31. CASE \E d \in Dummies : I_CreateDummySB(d)
  BY <1>31, <1>t, KernelTyping DEF I_CreateDummySB, I_Create
<1>32. CASE UNCHANGED vars
  BY <1>32 DEF vars
<1>33. QED
  BY <1>1, <1>2, <1>3, <1>4, <1>5, <1>6, <1>7, <1>8, <1>9, <1>10, <1>11, <1>12, <1>13,
     <1>14, <1>15, <1>16, <1>17, <1>18, <1>19, <1>20, <1>21, <1>22, <1>23, <1>24, <1>25,
     <1>26, <1>27, <1>28, <1>29, <1>30, <1>31, <1>32
  DEF Next, ThreadStep, ControlStep

\* What Step and the kernel operations do, thread by thread.
LEMMA StepEffect ==
    ASSUME InType, NEW t \in Task, NEW l, NEW m, Step(t, l, m)
    PROVE  /\ thread[t] = "ready" /\ pc[t] = l
           /\ \A u \in Task : thread[u] = "ready" => prio[t] <= prio[u]
           /\ \A u \in Task : pc'[u] = IF u = t THEN m ELSE pc[u]
           /\ hasWaiter' = hasWaiter /\ load' = load
BY DEF InType, Step, Runs, Ready, build

\* I_Task runs only when nothing else is ready.
LEMMA ControlEffect ==
    ASSUME InType, NEW l, NEW m, Step("I_Task", l, m)
    PROVE  /\ thread["I_Task"] = "ready" /\ pc["I_Task"] = l
           /\ \A u \in Task : thread[u] = "ready" => u = "I_Task"
           /\ \A u \in Task : pc'[u] = IF u = "I_Task" THEN m ELSE pc[u]
           /\ hasWaiter' = hasWaiter /\ load' = load
BY StepEffect, PrioAssumption, Threads

\* k_thread_create() makes one unborn thread ready.
LEMMA CreateEffect ==
    ASSUME InType, NEW t \in Task, Create(t)
    PROVE  /\ thread[t] = "none" /\ events' = events
           /\ \A u \in Task : thread'[u] = IF u = t THEN "ready" ELSE thread[u]
BY DEF InType, Create

\* k_thread_abort() ends one thread.
LEMMA AbortEffect ==
    ASSUME InType, NEW t \in Task, Abort(t)
    PROVE  /\ events' = events
           /\ \A u \in Task : thread'[u] = IF u = t THEN "dead" ELSE thread[u]
BY DEF InType, Abort

\* k_thread_suspend() suspends one thread.
LEMMA SuspendEffect ==
    ASSUME InType, NEW t \in Task, Suspend(t)
    PROVE  /\ events' = events
           /\ \A u \in Task : thread'[u] = IF u = t THEN "suspended" ELSE thread[u]
BY DEF InType, Suspend

\* k_thread_resume() of a suspended thread makes it ready.
LEMMA ResumeEffect ==
    ASSUME InType, NEW t \in Task, Resume(t), thread[t] = "suspended"
    PROVE  /\ events' = events
           /\ \A u \in Task : thread'[u] = IF u = t THEN "ready" ELSE thread[u]
BY DEF InType, Resume

\* k_event_wait_safe() consumes the bit or pends the caller.
LEMMA WaitEffect ==
    ASSUME InType, NEW t \in Task, NEW e, EventWait(t, e)
    PROVE  /\ \A u \in Task : thread'[u] = IF u = t /\ e \notin events THEN e ELSE thread[u]
           /\ events' = events \ {e}
BY DEF InType, EventWait

\* k_event_post() wakes every waiter of the bit, or leaves it posted.
LEMMA PostEffect ==
    ASSUME InType, NEW e, EventPost(e)
    PROVE  /\ \A u \in Task : thread'[u] = IF thread[u] = e THEN "ready" ELSE thread[u]
           /\ events' = IF \E u \in Task : thread[u] = e THEN events \ {e} ELSE events \cup {e}
BY DEF InType, EventPost, Waiters

\* When I_Task runs, its label tells where the scenario is.
LEMMA ControlPhase ==
    ASSUME IInv, \A u \in Task : thread[u] = "ready" => u = "I_Task"
    PROVE  /\ pc["I_Task"] \in {"create_high_sa", "create_low_sa"} => PhaseA /\ A_Setup
           /\ pc["I_Task"] \in {"wait_sa", "resume_sa", "abort_low_sa"} =>
                 PhaseA /\ A_Pace /\ A_Parked
           /\ pc["I_Task"] \in {"abort_high_sa", "create_high_sb"} => PhaseA /\ A_End
           /\ pc["I_Task"] = "create_low_sb" => PhaseB /\ B_Setup
           /\ pc["I_Task"] \in {"wait_sb", "resume_sb", "abort_low_sb"} =>
                 PhaseB /\ B_Pace /\ B_Parked
           /\ pc["I_Task"] \in {"abort_high_sb", "signalize"} => PhaseB /\ B_End
<1>1. A_Setup => pc["I_Task"] \in {"create_high_sa", "create_low_sa"}
  BY DEF A_Setup
<1>2. A_Loop => pc["I_Task"] \in {"wait_sa", "resume_sa", "abort_low_sa"} /\ A_Pace /\ A_Parked
  BY Threads DEF A_Loop, A_Pace, A_Armed, A_Posted, A_Recorded, Is
<1>3. A_End => pc["I_Task"] \in {"abort_high_sa", "create_high_sb"}
  BY DEF A_End
<1>4. B_Setup => pc["I_Task"] = "create_low_sb"
  BY DEF B_Setup
<1>5. B_Loop => pc["I_Task"] \in {"wait_sb", "resume_sb", "abort_low_sb"} /\ B_Pace /\ B_Parked
  BY Threads DEF B_Loop, B_Pace, B_Start, B_Armed, B_Posted, B_Parking, Is
<1>6. B_End => pc["I_Task"] \in {"abort_high_sb", "signalize"}
  BY DEF B_End
<1>7. QED  BY <1>1, <1>2, <1>3, <1>4, <1>5, <1>6 DEF IInv, PhaseA, PhaseB

\* The inductive invariant holds when main() has returned.
LEMMA IInvInit == Init => IInv
<1> SUFFICES ASSUME Init PROVE IInv
  OBVIOUS
<1>1. Common /\ Fresh(TasksSB) /\ Fresh(TasksSA)
  BY TaskAssumption DEF Init, Common, Fresh, Is, Entry, Task, MainTasks, Dummies, TasksSA, TasksSB
<1>2. A_Setup
  BY <1>1, TaskAssumption
  DEF Init, A_Setup, Is, Fresh, Entry, Task, MainTasks, TasksSA, Dummies
<1>3. QED  BY <1>1, <1>2, TypeInit DEF Init, IInv, PhaseA

\* Every step keeps the inductive invariant.
LEMMA IInvStep == IInv /\ [Next]_vars => IInv'
<1> SUFFICES ASSUME IInv, [Next]_vars PROVE IInv'
  OBVIOUS
<1>t. InType /\ InType'
  BY TypeStep DEF IInv, PhaseA, PhaseB
<1>1. ASSUME LowSA_WaitStart, mask' = mask PROVE IInv'
  <2>1. /\ Step("L_Task_SA", "wait_start", "post")
        /\ EventWait("L_Task_SA", START)
        /\ window' = window /\ samples' = samples /\ i' = i
    BY <1>t, <1>1 DEF LowSA_WaitStart, Quiet, NoSample
  <2>2. /\ thread["L_Task_SA"] = "ready" /\ pc["L_Task_SA"] = "wait_start"
        /\ \A u \in Task : thread[u] = "ready" => prio["L_Task_SA"] <= prio[u]
        /\ \A u \in Task : pc'[u] = IF u = "L_Task_SA" THEN "post" ELSE pc[u]
        /\ hasWaiter' = hasWaiter /\ load' = load
    BY <1>t, <2>1, StepEffect, Threads
  <2>3. PhaseA /\ A_Pace /\ A_Armed /\ events = {START}
    BY <2>2, PrioAssumption, Threads
    DEF IInv, PhaseA, PhaseB, Gone, TasksSA, A_Setup, A_Loop, A_Pace, A_Armed, A_Posted,
        A_Recorded, A_Parked, A_End, RoundA, Pended, Woken, Is
  <2>4. /\ \A u \in Task : thread'[u] = thread[u]
        /\ events' = {}
    BY <1>t, <2>1, <2>3, WaitEffect, Threads
  <2>5. Common' /\ Fresh(TasksSB)'
    BY <2>2, <2>3, <2>4, Threads DEF IInv, Common, PhaseA, Fresh, TasksSB, Is, MainTasks, SaLoad
  <2>6. A_Pace' /\ A_Armed'
    BY <2>1, <2>2, <2>3, <2>4, Threads, CountAssumption
    DEF A_Pace, RoundA, A_Armed, Pended, Woken, Is, MainTasks, SaLoad, SbLoad
  <2>7. QED
    BY <1>t, <1>1, <2>1, <2>3, <2>5, <2>6 DEF IInv, PhaseA, A_Loop
<1>2. ASSUME LowSA_Post, mask' = mask PROVE IInv'
  <2>1. /\ Step("L_Task_SA", "post", "suspend")
        /\ EventPost(A)
        /\ window' = "scenario_a" /\ samples' = samples /\ i' = i
    BY <1>t, <1>2 DEF LowSA_Post, OpenWindow
  <2>2. /\ thread["L_Task_SA"] = "ready" /\ pc["L_Task_SA"] = "post"
        /\ \A u \in Task : thread[u] = "ready" => prio["L_Task_SA"] <= prio[u]
        /\ \A u \in Task : pc'[u] = IF u = "L_Task_SA" THEN "suspend" ELSE pc[u]
        /\ hasWaiter' = hasWaiter /\ load' = load
    BY <1>t, <2>1, StepEffect, Threads
  <2>3. PhaseA /\ A_Pace /\ A_Armed /\ events = {}
    BY <2>2, PrioAssumption, Threads
    DEF IInv, PhaseA, PhaseB, Gone, TasksSA, A_Setup, A_Loop, A_Pace, A_Armed, A_Posted,
        A_Recorded, A_Parked, A_End, RoundA, Pended, Woken, Is
  <2>4. /\ \A u \in Task :
              thread'[u] = IF u = "H_Task_SA" \/ u \in SaLoad THEN "ready" ELSE thread[u]
        /\ events' = {}
    <3>1. \A u \in Task : thread[u] = A <=> u = "H_Task_SA" \/ u \in SaLoad
      BY <2>2, <2>3, Threads
      DEF IInv, Common, PhaseA, A_Armed, Fresh, TasksSB, Pended, Is, MainTasks, SaLoad
    <3>2. QED  BY <1>t, <2>1, <2>3, <3>1, PostEffect, Threads
  <2>5. Common' /\ Fresh(TasksSB)'
    BY <2>2, <2>3, <2>4, Threads DEF IInv, Common, PhaseA, Fresh, TasksSB, Is, MainTasks, SaLoad
  <2>6. A_Pace' /\ A_Posted'
    BY <2>1, <2>2, <2>3, <2>4, Threads, CountAssumption
    DEF A_Pace, RoundA, A_Armed, A_Posted, Pended, Woken, Is, MainTasks, SaLoad, SbLoad
  <2>7. QED
    BY <1>t, <1>2, <2>1, <2>3, <2>5, <2>6 DEF IInv, PhaseA, A_Loop
<1>3. ASSUME LowSA_Suspend, mask' = mask PROVE IInv'
  <2>1. /\ Step("L_Task_SA", "suspend", "post")
        /\ Suspend("L_Task_SA")
        /\ window' = window /\ samples' = samples /\ i' = i
    BY <1>t, <1>3 DEF LowSA_Suspend, Quiet, NoSample
  <2>2. /\ thread["L_Task_SA"] = "ready" /\ pc["L_Task_SA"] = "suspend"
        /\ \A u \in Task : thread[u] = "ready" => prio["L_Task_SA"] <= prio[u]
        /\ \A u \in Task : pc'[u] = IF u = "L_Task_SA" THEN "post" ELSE pc[u]
        /\ hasWaiter' = hasWaiter /\ load' = load
    BY <1>t, <2>1, StepEffect, Threads
  <2>3. PhaseA /\ A_Pace /\ A_Recorded /\ thread["H_Task_SA"] = A /\ Pended(SaLoad, A)
    <3>1. PhaseA /\ A_Pace /\ A_Recorded /\ thread["H_Task_SA"] = A
      BY <2>2, PrioAssumption, Threads
      DEF IInv, PhaseA, PhaseB, Gone, TasksSA, A_Setup, A_Loop, A_Pace, A_Armed, A_Posted,
          A_Recorded, A_Parked, A_End, RoundA, Is
    <3>2. \A d \in SaLoad : ~ prio["L_Task_SA"] <= prio[d]
      BY PrioAssumption, Threads
    <3>3. QED  BY <2>2, <3>1, <3>2, Threads DEF A_Recorded, Pended, Woken
  <2>4. /\ \A u \in Task : thread'[u] = IF u = "L_Task_SA" THEN "suspended" ELSE thread[u]
        /\ events' = events
    BY <1>t, <2>1, SuspendEffect, Threads
  <2>5. Common' /\ Fresh(TasksSB)'
    BY <2>2, <2>3, <2>4, Threads DEF IInv, Common, PhaseA, Fresh, TasksSB, Is, MainTasks, SaLoad
  <2>6. A_Pace' /\ A_Parked'
    BY <2>1, <2>2, <2>3, <2>4, Threads, CountAssumption
    DEF A_Pace, RoundA, A_Recorded, A_Parked, Pended, Woken, Is, MainTasks, SaLoad, SbLoad
  <2>7. QED
    BY <1>t, <1>3, <2>1, <2>3, <2>5, <2>6 DEF IInv, PhaseA, A_Loop
<1>4. ASSUME HighSA_PostStart, mask' = mask PROVE IInv'
  <2>1. /\ Step("H_Task_SA", "post_start", "wait")
        /\ EventPost(START)
        /\ window' = window /\ samples' = samples /\ i' = i
    BY <1>t, <1>4 DEF HighSA_PostStart, Quiet, NoSample
  <2>2. /\ thread["H_Task_SA"] = "ready" /\ pc["H_Task_SA"] = "post_start"
        /\ \A u \in Task : thread[u] = "ready" => prio["H_Task_SA"] <= prio[u]
        /\ \A u \in Task : pc'[u] = IF u = "H_Task_SA" THEN "wait" ELSE pc[u]
        /\ hasWaiter' = hasWaiter /\ load' = load
    BY <1>t, <2>1, StepEffect, Threads
  <2>3. PhaseA /\ A_Setup /\ events = {} /\ Fresh(SaDummies)
    BY <2>2, PrioAssumption, Threads
    DEF IInv, PhaseA, PhaseB, Gone, TasksSA, A_Setup, A_Loop, A_Pace, A_Armed, A_Posted,
        A_Recorded, A_Parked, A_End, RoundA, Pended, Woken, Is
  <2>4. /\ \A u \in Task : thread'[u] = thread[u]
        /\ events' = {START}
    <3>1. \A u \in Task : thread[u] # START
      BY <2>2, <2>3, Threads DEF IInv, Common, PhaseA, A_Setup, Fresh, TasksSB, Is, MainTasks
    <3>2. QED  BY <1>t, <2>1, <2>3, <3>1, PostEffect
  <2>5. Common' /\ Fresh(TasksSB)'
    BY <2>2, <2>3, <2>4, Threads DEF IInv, Common, PhaseA, Fresh, TasksSB, Is, MainTasks, SaLoad
  <2>6. A_Setup'
    BY <2>1, <2>2, <2>3, <2>4, Threads, CountAssumption
    DEF A_Setup, Fresh, Entry, Pended, Woken, Is, MainTasks, SaLoad, SbLoad
  <2>7. QED
    BY <1>t, <1>4, <2>1, <2>3, <2>5, <2>6 DEF IInv, PhaseA, A_Loop
<1>5. ASSUME HighSA_Wait, mask' = mask PROVE IInv'
  <2>1. /\ Step("H_Task_SA", "wait", "stop")
        /\ EventWait("H_Task_SA", A)
        /\ window' = window /\ samples' = samples /\ i' = i
    BY <1>t, <1>5 DEF HighSA_Wait, Quiet, NoSample
  <2>2. /\ thread["H_Task_SA"] = "ready" /\ pc["H_Task_SA"] = "wait"
        /\ \A u \in Task : thread[u] = "ready" => prio["H_Task_SA"] <= prio[u]
        /\ \A u \in Task : pc'[u] = IF u = "H_Task_SA" THEN "stop" ELSE pc[u]
        /\ hasWaiter' = hasWaiter /\ load' = load
    BY <1>t, <2>1, StepEffect, Threads
  <2>3. PhaseA /\ (A_Setup \/ (A_Pace /\ A_Recorded)) /\ A \notin events
    BY <2>2, PrioAssumption, Threads
    DEF IInv, PhaseA, PhaseB, Gone, TasksSA, A_Setup, A_Loop, A_Pace, A_Armed, A_Posted,
        A_Recorded, A_Parked, A_End, RoundA, Pended, Woken, Is
  <2>4. /\ \A u \in Task : thread'[u] = IF u = "H_Task_SA" THEN A ELSE thread[u]
        /\ events' = events
    BY <1>t, <2>1, <2>3, WaitEffect, Threads
  <2>5. Common' /\ Fresh(TasksSB)'
    BY <2>2, <2>3, <2>4, Threads DEF IInv, Common, PhaseA, Fresh, TasksSB, Is, MainTasks, SaLoad
  <2>6. A_Setup' \/ (A_Pace' /\ A_Recorded')
    <3>1. CASE A_Setup
      BY <2>1, <2>2, <2>4, <3>1, Threads DEF A_Setup, Fresh, Is, MainTasks, SaLoad
    <3>2. CASE A_Pace /\ A_Recorded
      BY <2>1, <2>2, <2>4, <3>2, Threads
      DEF A_Pace, RoundA, A_Recorded, Woken, Is, MainTasks, SaLoad
    <3>3. QED  BY <2>3, <3>1, <3>2
  <2>7. QED
    BY <1>t, <1>5, <2>1, <2>3, <2>5, <2>6 DEF IInv, PhaseA, A_Loop
<1>6. ASSUME HighSA_Stop, mask' = mask PROVE IInv'
  <2>1. /\ Step("H_Task_SA", "stop", "wait")
        /\ EventPost(YIELD)
        /\ samples'["scenario_a"] = samples["scenario_a"] + 1
        /\ samples'["scenario_b"] = samples["scenario_b"]
        /\ window' = "closed" /\ i' = i
    BY <1>t, <1>6 DEF HighSA_Stop, RecordSample, InType, Series
  <2>2. /\ thread["H_Task_SA"] = "ready" /\ pc["H_Task_SA"] = "stop"
        /\ \A u \in Task : thread[u] = "ready" => prio["H_Task_SA"] <= prio[u]
        /\ \A u \in Task : pc'[u] = IF u = "H_Task_SA" THEN "wait" ELSE pc[u]
        /\ hasWaiter' = hasWaiter /\ load' = load
    BY <1>t, <2>1, StepEffect, Threads
  <2>3. PhaseA /\ A_Pace /\ A_Posted
    BY <2>2, PrioAssumption, Threads
    DEF IInv, PhaseA, PhaseB, Gone, TasksSA, A_Setup, A_Loop, A_Pace, A_Armed, A_Posted,
        A_Recorded, A_Parked, A_End, RoundA, Pended, Woken, Is
  <2>4. /\ \A u \in Task : thread'[u] = thread[u]
        /\ events' = {YIELD}
    <3>1. \A u \in Task : thread[u] # YIELD
      BY <2>2, <2>3, Threads
      DEF IInv, Common, PhaseA, A_Posted, Woken, Fresh, TasksSB, Is, MainTasks, SaLoad, Dummies
    <3>2. QED  BY <1>t, <2>1, <2>3, <3>1, PostEffect DEF A_Posted
  <2>5. Common' /\ Fresh(TasksSB)'
    BY <2>2, <2>3, <2>4, Threads DEF IInv, Common, PhaseA, Fresh, TasksSB, Is, MainTasks, SaLoad
  <2>6. A_Pace' /\ A_Recorded'
    BY <2>1, <2>2, <2>3, <2>4, Threads, CountAssumption
    DEF A_Pace, RoundA, A_Posted, A_Recorded, Pended, Woken, Is, MainTasks, SaLoad, SbLoad
  <2>7. QED
    BY <1>t, <1>6, <2>1, <2>3, <2>5, <2>6 DEF IInv, PhaseA, A_Loop
<1>7. ASSUME HighSB_WaitStart, mask' = mask PROVE IInv'
  <2>1. /\ Step("H_Task_SB", "wait_start", "suspend")
        /\ EventWait("H_Task_SB", START)
        /\ window' = window /\ samples' = samples /\ i' = i
    BY <1>t, <1>7 DEF HighSB_WaitStart, Quiet, NoSample
  <2>2. /\ thread["H_Task_SB"] = "ready" /\ pc["H_Task_SB"] = "wait_start"
        /\ \A u \in Task : thread[u] = "ready" => prio["H_Task_SB"] <= prio[u]
        /\ \A u \in Task : pc'[u] = IF u = "H_Task_SB" THEN "suspend" ELSE pc[u]
        /\ hasWaiter' = hasWaiter /\ load' = load
    BY <1>t, <2>1, StepEffect, Threads
  <2>3. PhaseB /\ B_Setup /\ Fresh(SbDummies)
    BY <2>2, PrioAssumption, Threads
    DEF IInv, PhaseA, PhaseB, Fresh, TasksSB, B_Setup, B_Loop, B_Pace, B_Start, B_Armed,
        B_Posted, B_Counted, B_Parking, B_Parked, B_End, Parked, Suspended, Pended, Woken,
        Is
  <2>4. /\ \A u \in Task : thread'[u] = IF u = "H_Task_SB" THEN START ELSE thread[u]
        /\ events' = events
    BY <1>t, <2>1, <2>3, WaitEffect, Threads DEF B_Setup
  <2>5. Common' /\ Gone(TasksSA)'
    BY <2>2, <2>3, <2>4, Threads DEF IInv, Common, PhaseB, Gone, TasksSA, MainTasks, SbLoad
  <2>6. B_Setup'
    BY <2>1, <2>2, <2>3, <2>4, Threads, CountAssumption
    DEF B_Setup, Fresh, Entry, Pended, Woken, Is, MainTasks, SaLoad, SbLoad
  <2>7. QED
    BY <1>t, <1>7, <2>1, <2>3, <2>5, <2>6 DEF IInv, PhaseB, B_Loop
<1>8. ASSUME HighSB_Suspend, mask' = mask PROVE IInv'
  <2>1. /\ Step("H_Task_SB", "suspend", IF hasWaiter THEN "post" ELSE "resume")
        /\ Suspend("H_Task_SB")
        /\ window' = window /\ samples' = samples /\ i' = i
    BY <1>t, <1>8 DEF HighSB_Suspend, Quiet, NoSample
  <2>2. /\ thread["H_Task_SB"] = "ready" /\ pc["H_Task_SB"] = "suspend"
        /\ \A u \in Task : thread[u] = "ready" => prio["H_Task_SB"] <= prio[u]
        /\ \A u \in Task : pc'[u] = 
              IF u = "H_Task_SB" THEN IF hasWaiter THEN "post" ELSE "resume" ELSE pc[u]
        /\ hasWaiter' = hasWaiter /\ load' = load
    BY <1>t, <2>1, StepEffect, Threads
  <2>3. PhaseB /\ B_Pace /\ B_Start
    BY <2>2, PrioAssumption, Threads
    DEF IInv, PhaseA, PhaseB, Fresh, TasksSB, B_Setup, B_Loop, B_Pace, B_Start, B_Armed,
        B_Posted, B_Counted, B_Parking, B_Parked, B_End, Parked, Suspended, Pended, Woken,
        Is
  <2>4. /\ \A u \in Task : thread'[u] = IF u = "H_Task_SB" THEN "suspended" ELSE thread[u]
        /\ events' = events
    BY <1>t, <2>1, SuspendEffect, Threads
  <2>5. Common' /\ Gone(TasksSA)'
    BY <2>2, <2>3, <2>4, Threads DEF IInv, Common, PhaseB, Gone, TasksSA, MainTasks, SbLoad
  <2>6. B_Pace' /\ B_Parking'
    BY <2>1, <2>2, <2>3, <2>4, Threads, CountAssumption
    DEF B_Pace, RoundB, B_Counted, Parked, Suspended, Left, B_Start, B_Parking, Pended,
        Woken, Is, MainTasks, SaLoad, SbLoad
  <2>7. QED
    BY <1>t, <1>8, <2>1, <2>3, <2>5, <2>6 DEF IInv, PhaseB, B_Loop
<1>9. ASSUME HighSB_Resume, mask' = mask PROVE IInv'
  <2>1. /\ Step("H_Task_SB", "resume", "post")
        /\ Resume("L_Task_SB")
        /\ window' = window /\ samples' = samples /\ i' = i
    BY <1>t, <1>9 DEF HighSB_Resume, Quiet, NoSample
  <2>2. /\ thread["H_Task_SB"] = "ready" /\ pc["H_Task_SB"] = "resume"
        /\ \A u \in Task : thread[u] = "ready" => prio["H_Task_SB"] <= prio[u]
        /\ \A u \in Task : pc'[u] = IF u = "H_Task_SB" THEN "post" ELSE pc[u]
        /\ hasWaiter' = hasWaiter /\ load' = load
    BY <1>t, <2>1, StepEffect, Threads
  <2>3. PhaseB /\ B_Pace /\ B_Armed /\ ~hasWaiter /\ thread["L_Task_SB"] = "suspended"
    BY <2>2, PrioAssumption, Threads
    DEF IInv, PhaseA, PhaseB, Fresh, TasksSB, B_Setup, B_Loop, B_Pace, B_Start, B_Armed,
        B_Posted, B_Counted, B_Parking, B_Parked, B_End, Parked, Suspended, Pended, Woken,
        Is
  <2>4. /\ \A u \in Task : thread'[u] = IF u = "L_Task_SB" THEN "ready" ELSE thread[u]
        /\ events' = events
    BY <1>t, <2>1, <2>3, ResumeEffect, Threads
  <2>5. Common' /\ Gone(TasksSA)'
    BY <2>2, <2>3, <2>4, Threads DEF IInv, Common, PhaseB, Gone, TasksSA, MainTasks, SbLoad
  <2>6. B_Pace' /\ B_Armed'
    BY <2>1, <2>2, <2>3, <2>4, Threads, CountAssumption
    DEF B_Pace, RoundB, B_Counted, Parked, Suspended, Left, B_Armed, Pended, Woken, Is,
        MainTasks, SaLoad, SbLoad
  <2>7. QED
    BY <1>t, <1>9, <2>1, <2>3, <2>5, <2>6 DEF IInv, PhaseB, B_Loop
<1>10. ASSUME HighSB_Post, mask' = mask PROVE IInv'
  <2>1. /\ Step("H_Task_SB", "post", "stop")
        /\ EventPost(B)
        /\ window' = "scenario_b" /\ samples' = samples /\ i' = i
    BY <1>t, <1>10 DEF HighSB_Post, OpenWindow
  <2>2. /\ thread["H_Task_SB"] = "ready" /\ pc["H_Task_SB"] = "post"
        /\ \A u \in Task : thread[u] = "ready" => prio["H_Task_SB"] <= prio[u]
        /\ \A u \in Task : pc'[u] = IF u = "H_Task_SB" THEN "stop" ELSE pc[u]
        /\ hasWaiter' = hasWaiter /\ load' = load
    BY <1>t, <2>1, StepEffect, Threads
  <2>3. PhaseB /\ B_Pace /\ B_Armed
    BY <2>2, PrioAssumption, Threads
    DEF IInv, PhaseA, PhaseB, Fresh, TasksSB, B_Setup, B_Loop, B_Pace, B_Start, B_Armed,
        B_Posted, B_Counted, B_Parking, B_Parked, B_End, Parked, Suspended, Pended, Woken,
        Is
  <2>4. /\ \A u \in Task :
              thread'[u] = IF u \in SbLoad \/ u = "L_Task_SB" THEN "ready" ELSE thread[u]
        /\ events' = Left(RoundB)
    <3>1. /\ \A u \in Task : thread[u] = B <=> u \in SbLoad \/ (u = "L_Task_SB" /\ hasWaiter)
          /\ ~hasWaiter => thread["L_Task_SB"] = "ready"
      BY <2>2, <2>3, Threads
      DEF IInv, Common, PhaseB, Gone, TasksSA, B_Armed, Parked, Pended, Is, MainTasks, SbLoad
    <3>2. \A u \in Task :
             thread'[u] = IF u \in SbLoad \/ u = "L_Task_SB" THEN "ready" ELSE thread[u]
      BY <1>t, <2>1, <3>1, PostEffect, Threads
    <3>3. (\E u \in Task : thread[u] = B) <=> hasWaiter \/ SbLoad # {}
      BY <3>1, Threads
    <3>4. events' = IF hasWaiter \/ SbLoad # {} THEN events \ {B} ELSE events \cup {B}
      BY <1>t, <2>1, <3>3, PostEffect
    <3>5. events = Left(RoundB - 1) /\ RoundB > 0
      BY <2>3 DEF B_Armed
    <3>6. QED  BY <3>2, <3>4, <3>5 DEF Left
  <2>5. Common' /\ Gone(TasksSA)'
    BY <2>2, <2>3, <2>4, Threads DEF IInv, Common, PhaseB, Gone, TasksSA, MainTasks, SbLoad
  <2>6. B_Pace' /\ B_Posted'
    BY <2>1, <2>2, <2>3, <2>4, Threads, CountAssumption
    DEF B_Pace, RoundB, B_Counted, Parked, Suspended, Left, B_Armed, B_Posted, Pended,
        Woken, Is, MainTasks, SaLoad, SbLoad
  <2>7. QED
    BY <1>t, <1>10, <2>1, <2>3, <2>5, <2>6 DEF IInv, PhaseB, B_Loop
<1>11. ASSUME HighSB_Stop, mask' = mask PROVE IInv'
  <2>1. /\ Step("H_Task_SB", "stop", IF hasWaiter THEN "post" ELSE "resume")
        /\ Suspend("H_Task_SB")
        /\ samples'["scenario_b"] = samples["scenario_b"] + 1
        /\ samples'["scenario_a"] = samples["scenario_a"]
        /\ window' = "closed" /\ i' = i
    BY <1>t, <1>11 DEF HighSB_Stop, RecordSample, InType, Series
  <2>2. /\ thread["H_Task_SB"] = "ready" /\ pc["H_Task_SB"] = "stop"
        /\ \A u \in Task : thread[u] = "ready" => prio["H_Task_SB"] <= prio[u]
        /\ \A u \in Task : pc'[u] = 
              IF u = "H_Task_SB" THEN IF hasWaiter THEN "post" ELSE "resume" ELSE pc[u]
        /\ hasWaiter' = hasWaiter /\ load' = load
    BY <1>t, <2>1, StepEffect, Threads
  <2>3. PhaseB /\ B_Pace /\ B_Posted
    BY <2>2, PrioAssumption, Threads
    DEF IInv, PhaseA, PhaseB, Fresh, TasksSB, B_Setup, B_Loop, B_Pace, B_Start, B_Armed,
        B_Posted, B_Counted, B_Parking, B_Parked, B_End, Parked, Suspended, Pended, Woken,
        Is
  <2>4. /\ \A u \in Task : thread'[u] = IF u = "H_Task_SB" THEN "suspended" ELSE thread[u]
        /\ events' = events
    BY <1>t, <2>1, SuspendEffect, Threads
  <2>5. Common' /\ Gone(TasksSA)'
    BY <2>2, <2>3, <2>4, Threads DEF IInv, Common, PhaseB, Gone, TasksSA, MainTasks, SbLoad
  <2>6. B_Pace' /\ B_Parking'
    <3>1. RoundB' = RoundB /\ Left(RoundB)' = Left(RoundB) /\ SbLoad' = SbLoad
      BY <2>1, <2>2, Threads DEF RoundB, Left, SbLoad
    <3>2. B_Pace' /\ pc'["I_Task"] # "resume_sb"
      BY <2>1, <2>2, <2>3, Threads DEF B_Pace, B_Posted
    <3>3. samples'["scenario_b"] = RoundB /\ RoundB \in Nat
      BY <1>t, <2>1, <2>3, CountAssumption DEF InType, B_Posted, RoundB, Series
    <3>4. Suspended'
      BY <2>2, <2>4, Threads DEF Suspended, Is
    <3>5. Is("L_Task_SB", "ready", "post_yield")' /\ Woken(SbLoad, B)'
      BY <2>2, <2>3, <2>4, <3>1, Threads DEF B_Posted, Is, Woken, MainTasks
    <3>6. QED
      BY <2>1, <2>3, <2>4, <3>1, <3>2, <3>3, <3>4, <3>5 DEF B_Posted, B_Parking, B_Counted
  <2>7. QED
    BY <1>t, <1>11, <2>1, <2>3, <2>5, <2>6 DEF IInv, PhaseB, B_Loop
<1>12. ASSUME LowSB_PostStart, mask' = mask PROVE IInv'
  <2>1. /\ Step("L_Task_SB", "post_start", "post_yield")
        /\ EventPost(START)
        /\ window' = window /\ samples' = samples /\ i' = i
    BY <1>t, <1>12 DEF LowSB_PostStart, Quiet, NoSample
  <2>2. /\ thread["L_Task_SB"] = "ready" /\ pc["L_Task_SB"] = "post_start"
        /\ \A u \in Task : thread[u] = "ready" => prio["L_Task_SB"] <= prio[u]
        /\ \A u \in Task : pc'[u] = IF u = "L_Task_SB" THEN "post_yield" ELSE pc[u]
        /\ hasWaiter' = hasWaiter /\ load' = load
    BY <1>t, <2>1, StepEffect, Threads
  <2>3. PhaseB /\ B_Pace /\ B_Start /\ thread["H_Task_SB"] = START
    BY <2>2, PrioAssumption, Threads
    DEF IInv, PhaseA, PhaseB, Fresh, TasksSB, B_Setup, B_Loop, B_Pace, B_Start, B_Armed,
        B_Posted, B_Counted, B_Parking, B_Parked, B_End, Parked, Suspended, Pended, Woken,
        Is
  <2>4. /\ \A u \in Task : thread'[u] = IF u = "H_Task_SB" THEN "ready" ELSE thread[u]
        /\ events' = events
    BY <1>t, <2>1, <2>2, <2>3, PostEffect, Threads
    DEF IInv, Common, PhaseB, B_Start, Pended, Gone, TasksSA, Is, MainTasks, SbLoad, Dummies
  <2>5. Common' /\ Gone(TasksSA)'
    BY <2>2, <2>3, <2>4, Threads DEF IInv, Common, PhaseB, Gone, TasksSA, MainTasks, SbLoad
  <2>6. B_Pace' /\ B_Start'
    BY <2>1, <2>2, <2>3, <2>4, Threads, CountAssumption
    DEF B_Pace, RoundB, B_Counted, Parked, Suspended, Left, B_Start, Pended, Woken, Is,
        MainTasks, SaLoad, SbLoad
  <2>7. QED
    BY <1>t, <1>12, <2>1, <2>3, <2>5, <2>6 DEF IInv, PhaseB, B_Loop
<1>13. ASSUME LowSB_PostYield, mask' = mask PROVE IInv'
  <2>1. /\ Step("L_Task_SB", "post_yield", "park")
        /\ EventPost(YIELD)
        /\ window' = window /\ samples' = samples /\ i' = i
    BY <1>t, <1>13 DEF LowSB_PostYield, Quiet, NoSample
  <2>2. /\ thread["L_Task_SB"] = "ready" /\ pc["L_Task_SB"] = "post_yield"
        /\ \A u \in Task : thread[u] = "ready" => prio["L_Task_SB"] <= prio[u]
        /\ \A u \in Task : pc'[u] = IF u = "L_Task_SB" THEN "park" ELSE pc[u]
        /\ hasWaiter' = hasWaiter /\ load' = load
    BY <1>t, <2>1, StepEffect, Threads
  <2>3. PhaseB /\ B_Pace /\ B_Parking
    BY <2>2, PrioAssumption, Threads
    DEF IInv, PhaseA, PhaseB, Fresh, TasksSB, B_Setup, B_Loop, B_Pace, B_Start, B_Armed,
        B_Posted, B_Counted, B_Parking, B_Parked, B_End, Parked, Suspended, Pended, Woken,
        Is
  <2>4. /\ \A u \in Task : thread'[u] = thread[u]
        /\ events' = Left(RoundB) \cup {YIELD}
    <3>1. \A u \in Task : thread[u] # YIELD
      BY <2>2, <2>3, Threads
      DEF IInv, Common, PhaseB, B_Parking, B_Counted, Suspended, Woken, Gone, TasksSA, Is,
          MainTasks, SbLoad, Dummies
    <3>2. QED  BY <1>t, <2>1, <2>3, <3>1, PostEffect DEF B_Parking
  <2>5. Common' /\ Gone(TasksSA)'
    BY <2>2, <2>3, <2>4, Threads DEF IInv, Common, PhaseB, Gone, TasksSA, MainTasks, SbLoad
  <2>6. B_Pace' /\ B_Parking'
    BY <2>1, <2>2, <2>3, <2>4, Threads, CountAssumption
    DEF B_Pace, RoundB, B_Counted, Parked, Suspended, Left, B_Parking, Pended, Woken, Is,
        MainTasks, SaLoad, SbLoad
  <2>7. QED
    BY <1>t, <1>13, <2>1, <2>3, <2>5, <2>6 DEF IInv, PhaseB, B_Loop
<1>14. ASSUME LowSB_Park, mask' = mask PROVE IInv'
  <2>1. /\ Step("L_Task_SB", "park", "post_yield")
        /\ IF hasWaiter THEN EventWait("L_Task_SB", B) ELSE Suspend("L_Task_SB")
        /\ window' = window /\ samples' = samples /\ i' = i
    BY <1>t, <1>14 DEF LowSB_Park, Quiet, NoSample
  <2>2. /\ thread["L_Task_SB"] = "ready" /\ pc["L_Task_SB"] = "park"
        /\ \A u \in Task : thread[u] = "ready" => prio["L_Task_SB"] <= prio[u]
        /\ \A u \in Task : pc'[u] = IF u = "L_Task_SB" THEN "post_yield" ELSE pc[u]
        /\ hasWaiter' = hasWaiter /\ load' = load
    BY <1>t, <2>1, StepEffect, Threads
  <2>3. PhaseB /\ B_Pace /\ B_Parking /\ Pended(SbLoad, B)
    <3>1. PhaseB /\ B_Pace /\ B_Parking
      BY <2>2, Threads
      DEF IInv, PhaseA, PhaseB, Fresh, TasksSB, B_Setup, B_Loop, B_Pace, B_Start, B_Armed,
          B_Posted, B_Counted, B_Parking, B_Parked, B_End, Parked, Suspended, Is
    <3>2. \A d \in SbLoad : ~ prio["L_Task_SB"] <= prio[d]
      BY PrioAssumption, Threads
    <3>3. QED  BY <2>2, <3>1, <3>2, Threads DEF B_Parking, Pended, Woken
  <2>4. /\ \A u \in Task : thread'[u] = IF u = "L_Task_SB"
              THEN IF hasWaiter THEN B ELSE "suspended"
              ELSE thread[u]
        /\ events' = events
    <3>1. CASE hasWaiter
      <4>1. B \notin events
        BY <2>2, <2>3, <3>1 DEF B_Parking, Left, Is
      <4>2. QED  BY <1>t, <2>1, <3>1, <4>1, WaitEffect, Threads
    <3>2. CASE ~hasWaiter
      BY <1>t, <2>1, <3>2, SuspendEffect, Threads
    <3>3. QED  BY <3>1, <3>2
  <2>5. Common' /\ Gone(TasksSA)'
    BY <2>2, <2>3, <2>4, Threads DEF IInv, Common, PhaseB, Gone, TasksSA, MainTasks, SbLoad
  <2>6. B_Pace' /\ B_Parked'
    BY <2>1, <2>2, <2>3, <2>4, Threads, CountAssumption
    DEF B_Pace, RoundB, B_Counted, Parked, Suspended, Left, B_Parking, B_Parked, Pended,
        Woken, Is, MainTasks, SaLoad, SbLoad
  <2>7. QED
    BY <1>t, <1>14, <2>1, <2>3, <2>5, <2>6 DEF IInv, PhaseB, B_Loop
<1>15. ASSUME NEW d \in Dummies, Dummy_Wait(d), mask' = mask PROVE IInv'
  <2>1. /\ Step(d, "wait", "wait") /\ EventWait(d, mask)
        /\ window' = window /\ samples' = samples /\ i' = i
    BY <1>15 DEF Dummy_Wait, Quiet, NoSample
  <2>2. /\ thread[d] = "ready"
        /\ \A u \in Task : thread[u] = "ready" => prio[d] <= prio[u]
        /\ \A u \in Task : pc'[u] = pc[u]
        /\ hasWaiter' = hasWaiter /\ load' = load
    BY <1>t, <2>1, StepEffect, Threads
  <2>3. d \in load
    BY <2>2 DEF IInv, Common
  <2>4. CASE d \in SaDummies
    <3>1. PhaseA
      BY <2>2, <2>4 DEF IInv, PhaseB, Gone, TasksSA
    <3>2. \/ A_Setup /\ Is("H_Task_SA", A, "stop") /\ pc["I_Task"] = "create_low_sa"
          \/ A_Pace /\ (A_Posted \/ A_Recorded)
      BY <2>2, <2>3, <2>4, <3>1, Threads
      DEF PhaseA, A_Setup, A_Loop, A_Pace, A_Armed, A_Parked, A_End, Fresh, Pended, Is, SaLoad
    <3>3. A \notin events
      BY <3>2 DEF A_Setup, A_Posted, A_Recorded, Is
    <3>4. /\ \A u \in Task : thread'[u] = IF u = d THEN A ELSE thread[u]
          /\ events' = events
      <4>1. EventWait(d, A)
        BY <2>1, <3>1 DEF PhaseA
      <4>2. QED  BY <1>t, <3>3, <4>1, WaitEffect, Threads
    <3>5. Common' /\ Fresh(TasksSB)'
      BY <2>2, <2>3, <2>4, <3>1, <3>4, Threads
      DEF IInv, Common, PhaseA, Fresh, TasksSB, Is, MainTasks
    <3>6. A_Setup' \/ (A_Pace' /\ (A_Posted' \/ A_Recorded'))
      BY <2>1, <2>2, <2>4, <3>2, <3>4, Threads
      DEF A_Setup, A_Pace, A_Posted, A_Recorded, RoundA, Woken, Is, MainTasks, SaLoad
    <3>7. QED  BY <1>t, <1>15, <2>1, <3>1, <3>5, <3>6 DEF IInv, PhaseA, A_Loop
  <2>5. CASE d \in SbDummies
    <3>1. PhaseB
      BY <2>2, <2>5 DEF IInv, PhaseA, Fresh, TasksSB, Is
    <3>2. \/ B_Setup /\ Is("H_Task_SB", START, "suspend")
          \/ B_Pace /\ (B_Posted \/ B_Parking)
      BY <2>2, <2>3, <2>5, <3>1, Threads
      DEF PhaseB, B_Setup, B_Loop, B_Start, B_Armed, B_Parked, B_End, Fresh, Pended, Is, SbLoad
    <3>3. B \notin events
      BY <2>3, <2>5, <3>2 DEF B_Setup, B_Posted, B_Parking, Left, SbLoad, Is
    <3>4. /\ \A u \in Task : thread'[u] = IF u = d THEN B ELSE thread[u]
          /\ events' = events
      <4>1. EventWait(d, B)
        BY <2>1, <3>1 DEF PhaseB
      <4>2. QED  BY <1>t, <3>3, <4>1, WaitEffect, Threads
    <3>5. Common' /\ Gone(TasksSA)'
      BY <2>2, <2>3, <2>5, <3>1, <3>4, Threads
      DEF IInv, Common, PhaseB, Gone, TasksSA, Is, MainTasks
    <3>6. B_Setup' \/ (B_Pace' /\ (B_Posted' \/ B_Parking'))
      BY <2>1, <2>2, <2>5, <3>2, <3>4, Threads
      DEF B_Setup, B_Pace, B_Posted, B_Parking, B_Counted, Suspended, RoundB, Left, Woken, Is,
          MainTasks, SbLoad
    <3>7. QED  BY <1>t, <1>15, <2>1, <3>1, <3>5, <3>6 DEF IInv, PhaseB, B_Loop
  <2>6. QED  BY <2>4, <2>5 DEF Dummies
<1>16. ASSUME I_CreateHighSA, mask' = mask PROVE IInv'
  <2>1. /\ Step("I_Task", "create_high_sa", "create_low_sa")
        /\ Create("H_Task_SA")
        /\ window' = window /\ samples' = samples /\ i' = i
    BY <1>t, <1>16 DEF I_CreateHighSA, I_Create, Quiet, NoSample
  <2>2. /\ thread["I_Task"] = "ready" /\ pc["I_Task"] = "create_high_sa"
        /\ \A u \in Task : thread[u] = "ready" => u = "I_Task"
        /\ \A u \in Task : pc'[u] = IF u = "I_Task" THEN "create_low_sa" ELSE pc[u]
        /\ hasWaiter' = hasWaiter /\ load' = load
    BY <1>t, <2>1, ControlEffect, Threads
  <2>3. PhaseA /\ A_Setup
    BY <2>2, ControlPhase, Threads DEF A_Setup, A_Parked, Is
  <2>4. /\ \A u \in Task : thread'[u] = IF u = "H_Task_SA" THEN "ready" ELSE thread[u]
        /\ events' = events
    BY <1>t, <2>1, CreateEffect, Threads
  <2>5. Common' /\ Fresh(TasksSB)'
    BY <2>2, <2>3, <2>4, Threads DEF IInv, Common, PhaseA, Fresh, TasksSB, Is, MainTasks, SaLoad
  <2>6. A_Setup'
    BY <2>1, <2>2, <2>3, <2>4, Threads, CountAssumption
    DEF A_Setup, Fresh, Entry, Pended, Woken, Is, MainTasks, SaLoad, SbLoad
  <2>7. QED
    BY <1>t, <1>16, <2>1, <2>3, <2>5, <2>6 DEF IInv, PhaseA, A_Loop
<1>17. ASSUME I_CreateLowSA, mask' = mask PROVE IInv'
  <2>1. /\ Step("I_Task", "create_low_sa", AfterLowSA)
        /\ Create("L_Task_SA")
        /\ \A d \in SaLoad : thread[d] # "none"
        /\ window' = window /\ samples' = samples /\ i' = i
    BY <1>t, <1>17 DEF I_CreateLowSA, I_Create, Quiet, NoSample
  <2>2. /\ thread["I_Task"] = "ready" /\ pc["I_Task"] = "create_low_sa"
        /\ \A u \in Task : thread[u] = "ready" => u = "I_Task"
        /\ \A u \in Task : pc'[u] = IF u = "I_Task" THEN AfterLowSA ELSE pc[u]
        /\ hasWaiter' = hasWaiter /\ load' = load
    BY <1>t, <2>1, ControlEffect, Threads
  <2>3. PhaseA /\ A_Setup /\ Is("H_Task_SA", A, "stop") /\ events = {START}
    BY <2>2, ControlPhase, Threads DEF A_Setup, A_Parked, Is
  <2>4. /\ \A u \in Task : thread'[u] = IF u = "L_Task_SA" THEN "ready" ELSE thread[u]
        /\ events' = events
    BY <1>t, <2>1, CreateEffect, Threads
  <2>5. Common' /\ Fresh(TasksSB)'
    BY <2>2, <2>3, <2>4, Threads DEF IInv, Common, PhaseA, Fresh, TasksSB, Is, MainTasks, SaLoad
  <2>6. A_Pace' /\ A_Armed'
    <3>1. Pended(SaLoad, A)'
      BY <2>1, <2>2, <2>3, <2>4, Threads DEF A_Setup, Pended, Is, MainTasks, SaLoad
    <3>2. QED
      BY <2>1, <2>2, <2>3, <2>4, <3>1, Threads, CountAssumption
      DEF A_Pace, RoundA, A_Setup, A_Armed, AfterLowSA, Is
  <2>7. QED
    BY <1>t, <1>17, <2>1, <2>3, <2>5, <2>6 DEF IInv, PhaseA, A_Loop
<1>18. ASSUME I_WaitSA, mask' = mask PROVE IInv'
  <2>1. /\ Step("I_Task", "wait_sa", "resume_sa")
        /\ EventWait("I_Task", YIELD)
        /\ window' = window /\ samples' = samples /\ i' = i
    BY <1>t, <1>18 DEF I_WaitSA, Quiet, NoSample
  <2>2. /\ thread["I_Task"] = "ready" /\ pc["I_Task"] = "wait_sa"
        /\ \A u \in Task : thread[u] = "ready" => u = "I_Task"
        /\ \A u \in Task : pc'[u] = IF u = "I_Task" THEN "resume_sa" ELSE pc[u]
        /\ hasWaiter' = hasWaiter /\ load' = load
    BY <1>t, <2>1, ControlEffect, Threads
  <2>3. PhaseA /\ A_Pace /\ A_Parked /\ events = {YIELD}
    BY <2>2, ControlPhase, Threads DEF A_Setup, A_Parked, Is
  <2>4. /\ \A u \in Task : thread'[u] = thread[u]
        /\ events' = {}
    BY <1>t, <2>1, <2>3, WaitEffect, Threads
  <2>5. Common' /\ Fresh(TasksSB)'
    BY <2>2, <2>3, <2>4, Threads DEF IInv, Common, PhaseA, Fresh, TasksSB, Is, MainTasks, SaLoad
  <2>6. A_Pace' /\ A_Parked'
    BY <2>1, <2>2, <2>3, <2>4, Threads, CountAssumption
    DEF A_Pace, RoundA, A_Parked, Pended, Woken, Is, MainTasks, SaLoad, SbLoad
  <2>7. QED
    BY <1>t, <1>18, <2>1, <2>3, <2>5, <2>6 DEF IInv, PhaseA, A_Loop
<1>19. ASSUME I_AbortLowSA, mask' = mask PROVE IInv'
  <2>1. /\ Step("I_Task", "abort_low_sa", "abort_high_sa")
        /\ Abort("L_Task_SA")
        /\ window' = window /\ samples' = samples /\ i' = i
    BY <1>t, <1>19 DEF I_AbortLowSA, I_Abort, Quiet, NoSample
  <2>2. /\ thread["I_Task"] = "ready" /\ pc["I_Task"] = "abort_low_sa"
        /\ \A u \in Task : thread[u] = "ready" => u = "I_Task"
        /\ \A u \in Task : pc'[u] = IF u = "I_Task" THEN "abort_high_sa" ELSE pc[u]
        /\ hasWaiter' = hasWaiter /\ load' = load
    BY <1>t, <2>1, ControlEffect, Threads
  <2>3. PhaseA /\ A_Pace /\ A_Parked
    BY <2>2, ControlPhase, Threads DEF A_Setup, A_Parked, Is
  <2>4. /\ \A u \in Task : thread'[u] = IF u = "L_Task_SA" THEN "dead" ELSE thread[u]
        /\ events' = events
    BY <1>t, <2>1, AbortEffect, Threads
  <2>5. Common' /\ Fresh(TasksSB)'
    BY <2>2, <2>3, <2>4, Threads DEF IInv, Common, PhaseA, Fresh, TasksSB, Is, MainTasks, SaLoad
  <2>6. A_End'
    BY <2>1, <2>2, <2>3, <2>4, Threads, CountAssumption
    DEF A_Pace, RoundA, A_Parked, A_End, Pended, Woken, Is, MainTasks, SaLoad, SbLoad
  <2>7. QED
    BY <1>t, <1>19, <2>1, <2>3, <2>5, <2>6 DEF IInv, PhaseA, A_Loop
<1>20. ASSUME I_AbortHighSA, mask' = mask PROVE IInv'
  <2>1. /\ Step("I_Task", "abort_high_sa", "create_high_sb")
        /\ Abort("H_Task_SA")
        /\ window' = window /\ samples' = samples /\ i' = i
    BY <1>t, <1>20 DEF I_AbortHighSA, I_Abort, Quiet, NoSample
  <2>2. /\ thread["I_Task"] = "ready" /\ pc["I_Task"] = "abort_high_sa"
        /\ \A u \in Task : thread[u] = "ready" => u = "I_Task"
        /\ \A u \in Task : pc'[u] = IF u = "I_Task" THEN "create_high_sb" ELSE pc[u]
        /\ hasWaiter' = hasWaiter /\ load' = load
    BY <1>t, <2>1, ControlEffect, Threads
  <2>3. PhaseA /\ A_End
    BY <2>2, ControlPhase, Threads DEF A_Setup, A_Parked, Is
  <2>4. /\ \A u \in Task : thread'[u] = IF u = "H_Task_SA" THEN "dead" ELSE thread[u]
        /\ events' = events
    BY <1>t, <2>1, AbortEffect, Threads
  <2>5. Common' /\ Fresh(TasksSB)'
    BY <2>2, <2>3, <2>4, Threads DEF IInv, Common, PhaseA, Fresh, TasksSB, Is, MainTasks, SaLoad
  <2>6. A_End'
    BY <2>1, <2>2, <2>3, <2>4, Threads, CountAssumption
    DEF A_End, Pended, Woken, Is, MainTasks, SaLoad, SbLoad
  <2>7. QED
    BY <1>t, <1>20, <2>1, <2>3, <2>5, <2>6 DEF IInv, PhaseA, A_Loop
<1>21. ASSUME I_CreateLowSB, mask' = mask PROVE IInv'
  <2>1. /\ Step("I_Task", "create_low_sb", "wait_sb")
        /\ Create("L_Task_SB")
        /\ \A d \in SbLoad : thread[d] # "none"
        /\ window' = window /\ samples' = samples /\ i' = i
    BY <1>t, <1>21 DEF I_CreateLowSB, I_Create, Quiet, NoSample
  <2>2. /\ thread["I_Task"] = "ready" /\ pc["I_Task"] = "create_low_sb"
        /\ \A u \in Task : thread[u] = "ready" => u = "I_Task"
        /\ \A u \in Task : pc'[u] = IF u = "I_Task" THEN "wait_sb" ELSE pc[u]
        /\ hasWaiter' = hasWaiter /\ load' = load
    BY <1>t, <2>1, ControlEffect, Threads
  <2>3. PhaseB /\ B_Setup /\ Is("H_Task_SB", START, "suspend")
    BY <2>2, ControlPhase, Threads DEF B_Setup, B_Parked, Is
  <2>4. /\ \A u \in Task : thread'[u] = IF u = "L_Task_SB" THEN "ready" ELSE thread[u]
        /\ events' = events
    BY <1>t, <2>1, CreateEffect, Threads
  <2>5. Common' /\ Gone(TasksSA)'
    BY <2>2, <2>3, <2>4, Threads DEF IInv, Common, PhaseB, Gone, TasksSA, MainTasks, SbLoad
  <2>6. B_Pace' /\ B_Start'
    <3>1. Pended(SbLoad, B)'
      BY <2>1, <2>2, <2>3, <2>4, Threads DEF B_Setup, Pended, Is, MainTasks, SbLoad
    <3>2. QED
      BY <2>1, <2>2, <2>3, <2>4, <3>1, Threads, CountAssumption DEF B_Pace, B_Setup, B_Start, Is
  <2>7. QED
    BY <1>t, <1>21, <2>1, <2>3, <2>5, <2>6 DEF IInv, PhaseB, B_Loop
<1>22. ASSUME I_WaitSB, mask' = mask PROVE IInv'
  <2>1. /\ Step("I_Task", "wait_sb", "resume_sb")
        /\ EventWait("I_Task", YIELD)
        /\ window' = window /\ samples' = samples /\ i' = i
    BY <1>t, <1>22 DEF I_WaitSB, Quiet, NoSample
  <2>2. /\ thread["I_Task"] = "ready" /\ pc["I_Task"] = "wait_sb"
        /\ \A u \in Task : thread[u] = "ready" => u = "I_Task"
        /\ \A u \in Task : pc'[u] = IF u = "I_Task" THEN "resume_sb" ELSE pc[u]
        /\ hasWaiter' = hasWaiter /\ load' = load
    BY <1>t, <2>1, ControlEffect, Threads
  <2>3. PhaseB /\ B_Pace /\ B_Parked /\ YIELD \in events
    BY <2>2, ControlPhase, Threads DEF B_Setup, B_Parked, Is
  <2>4. /\ \A u \in Task : thread'[u] = thread[u]
        /\ events' = events \ {YIELD}
    BY <1>t, <2>1, <2>3, WaitEffect, Threads
  <2>5. Common' /\ Gone(TasksSA)'
    BY <2>2, <2>3, <2>4, Threads DEF IInv, Common, PhaseB, Gone, TasksSA, MainTasks, SbLoad
  <2>6. B_Pace' /\ B_Parked'
    BY <2>1, <2>2, <2>3, <2>4, Threads, CountAssumption
    DEF B_Pace, RoundB, B_Counted, Parked, Suspended, Left, B_Parked, Pended, Woken, Is,
        MainTasks, SaLoad, SbLoad
  <2>7. QED
    BY <1>t, <1>22, <2>1, <2>3, <2>5, <2>6 DEF IInv, PhaseB, B_Loop
<1>23. ASSUME I_AbortLowSB, mask' = mask PROVE IInv'
  <2>1. /\ Step("I_Task", "abort_low_sb", "abort_high_sb")
        /\ Abort("L_Task_SB")
        /\ window' = window /\ samples' = samples /\ i' = i
    BY <1>t, <1>23 DEF I_AbortLowSB, I_Abort, Quiet, NoSample
  <2>2. /\ thread["I_Task"] = "ready" /\ pc["I_Task"] = "abort_low_sb"
        /\ \A u \in Task : thread[u] = "ready" => u = "I_Task"
        /\ \A u \in Task : pc'[u] = IF u = "I_Task" THEN "abort_high_sb" ELSE pc[u]
        /\ hasWaiter' = hasWaiter /\ load' = load
    BY <1>t, <2>1, ControlEffect, Threads
  <2>3. PhaseB /\ B_Pace /\ B_Parked
    BY <2>2, ControlPhase, Threads DEF B_Setup, B_Parked, Is
  <2>4. /\ \A u \in Task : thread'[u] = IF u = "L_Task_SB" THEN "dead" ELSE thread[u]
        /\ events' = events
    BY <1>t, <2>1, AbortEffect, Threads
  <2>5. Common' /\ Gone(TasksSA)'
    BY <2>2, <2>3, <2>4, Threads DEF IInv, Common, PhaseB, Gone, TasksSA, MainTasks, SbLoad
  <2>6. B_End'
    BY <2>1, <2>2, <2>3, <2>4, Threads, CountAssumption
    DEF B_Pace, RoundB, B_Counted, Parked, Suspended, Left, B_Parked, B_End, Pended, Woken,
        Is, MainTasks, SaLoad, SbLoad
  <2>7. QED
    BY <1>t, <1>23, <2>1, <2>3, <2>5, <2>6 DEF IInv, PhaseB, B_Loop
<1>24. ASSUME I_AbortHighSB, mask' = mask PROVE IInv'
  <2>1. /\ Step("I_Task", "abort_high_sb", "signalize")
        /\ Abort("H_Task_SB")
        /\ window' = window /\ samples' = samples /\ i' = i
    BY <1>t, <1>24 DEF I_AbortHighSB, I_Abort, Quiet, NoSample
  <2>2. /\ thread["I_Task"] = "ready" /\ pc["I_Task"] = "abort_high_sb"
        /\ \A u \in Task : thread[u] = "ready" => u = "I_Task"
        /\ \A u \in Task : pc'[u] = IF u = "I_Task" THEN "signalize" ELSE pc[u]
        /\ hasWaiter' = hasWaiter /\ load' = load
    BY <1>t, <2>1, ControlEffect, Threads
  <2>3. PhaseB /\ B_End
    BY <2>2, ControlPhase, Threads DEF B_Setup, B_Parked, Is
  <2>4. /\ \A u \in Task : thread'[u] = IF u = "H_Task_SB" THEN "dead" ELSE thread[u]
        /\ events' = events
    BY <1>t, <2>1, AbortEffect, Threads
  <2>5. Common' /\ Gone(TasksSA)'
    BY <2>2, <2>3, <2>4, Threads DEF IInv, Common, PhaseB, Gone, TasksSA, MainTasks, SbLoad
  <2>6. B_End'
    BY <2>1, <2>2, <2>3, <2>4, Threads, CountAssumption
    DEF B_End, Pended, Woken, Is, MainTasks, SaLoad, SbLoad
  <2>7. QED
    BY <1>t, <1>24, <2>1, <2>3, <2>5, <2>6 DEF IInv, PhaseB, B_Loop
<1>25. ASSUME I_Signalize, mask' = mask PROVE IInv'
  <2>1. /\ Step("I_Task", "signalize", "signalize")
        /\ NoCall
        /\ window' = window /\ samples' = samples /\ i' = i
    BY <1>t, <1>25 DEF I_Signalize, Quiet, NoSample
  <2>2. /\ thread["I_Task"] = "ready" /\ pc["I_Task"] = "signalize"
        /\ \A u \in Task : thread[u] = "ready" => u = "I_Task"
        /\ \A u \in Task : pc'[u] = pc[u]
        /\ hasWaiter' = hasWaiter /\ load' = load
    BY <1>t, <2>1, ControlEffect, Threads
  <2>3. PhaseB /\ B_End
    BY <2>2, ControlPhase, Threads DEF B_Setup, B_Parked, Is
  <2>4. /\ \A u \in Task : thread'[u] = thread[u]
        /\ events' = events
    BY <2>1 DEF NoCall, kvars
  <2>5. Common' /\ Gone(TasksSA)'
    BY <2>2, <2>3, <2>4, Threads DEF IInv, Common, PhaseB, Gone, TasksSA, MainTasks, SbLoad
  <2>6. B_End'
    BY <2>1, <2>2, <2>3, <2>4, Threads, CountAssumption
    DEF B_End, Pended, Woken, Is, MainTasks, SaLoad, SbLoad
  <2>7. QED
    BY <1>t, <1>25, <2>1, <2>3, <2>5, <2>6 DEF IInv, PhaseB, B_Loop
<1>26. ASSUME I_ResumeSA, mask' = mask PROVE IInv'
  <2>1. PICK m \in {"wait_sa", "abort_low_sa"} :
          /\ Step("I_Task", "resume_sa", m)
          /\ m = "wait_sa" => i + 1 < MEASUREMENT_COUNT - 1 /\ i' = i + 1
          /\ m = "abort_low_sa" => i + 1 >= MEASUREMENT_COUNT - 1 /\ i' = 0
    BY <1>26 DEF I_ResumeSA, I_Resume
  <2>2. Resume("L_Task_SA") /\ window' = window /\ samples' = samples
    BY <1>26 DEF I_ResumeSA, I_Resume, NoSample
  <2>3. /\ thread["I_Task"] = "ready" /\ pc["I_Task"] = "resume_sa"
        /\ \A u \in Task : thread[u] = "ready" => u = "I_Task"
        /\ \A u \in Task : pc'[u] = IF u = "I_Task" THEN m ELSE pc[u]
        /\ hasWaiter' = hasWaiter /\ load' = load
    BY <1>t, <2>1, ControlEffect
  <2>4. PhaseA /\ A_Pace /\ A_Parked /\ i \in Nat
    BY <1>t, <2>3, ControlPhase, CountAssumption DEF InType
  <2>5. /\ \A u \in Task : thread'[u] = IF u = "L_Task_SA" THEN "ready" ELSE thread[u]
        /\ events' = events
    BY <1>t, <2>2, <2>4, ResumeEffect, Threads DEF A_Parked, Is
  <2>6. Common' /\ Fresh(TasksSB)'
    BY <2>3, <2>4, <2>5, Threads DEF IInv, Common, PhaseA, Fresh, TasksSB, Is, MainTasks
  <2>7. A_Pace' /\ A_Armed'
    <3>1. pc'["I_Task"] = m
      BY <2>3, Threads
    <3>2. RoundA' = i + 1
      <4>1. i < MEASUREMENT_COUNT - 1
        BY <2>3, <2>4 DEF A_Pace
      <4>2. CASE m = "wait_sa"
        BY <2>1, <3>1, <4>2 DEF RoundA
      <4>3. CASE m = "abort_low_sa"
        <5>1. MEASUREMENT_COUNT - 1 = i + 1
          BY <2>1, <2>4, <4>1, <4>3, CountAssumption
        <5>2. QED  BY <3>1, <4>3, <5>1 DEF RoundA
      <4>4. QED  BY <4>2, <4>3
    <3>3. A_Pace'
      BY <2>1, <2>3, <2>4, <3>1, CountAssumption DEF A_Pace
    <3>4. A_Armed'
      BY <2>1, <2>2, <2>3, <2>4, <2>5, <3>1, <3>2, Threads
      DEF A_Pace, RoundA, A_Parked, A_Armed, Pended, Is, MainTasks, SaLoad
    <3>5. QED  BY <3>3, <3>4
  <2>8. QED  BY <1>t, <1>26, <2>2, <2>4, <2>5, <2>6, <2>7 DEF IInv, PhaseA, A_Loop
<1>27. ASSUME I_ResumeSB, mask' = mask PROVE IInv'
  <2>1. PICK m \in {"wait_sb", "abort_low_sb"} :
          /\ Step("I_Task", "resume_sb", m)
          /\ m = "wait_sb" => i + 1 < MEASUREMENT_COUNT /\ i' = i + 1
          /\ m = "abort_low_sb" => i + 1 >= MEASUREMENT_COUNT /\ i' = 0
    BY <1>27 DEF I_ResumeSB, I_Resume
  <2>2. Resume("H_Task_SB") /\ window' = window /\ samples' = samples
    BY <1>27 DEF I_ResumeSB, I_Resume, NoSample
  <2>3. /\ thread["I_Task"] = "ready" /\ pc["I_Task"] = "resume_sb"
        /\ \A u \in Task : thread[u] = "ready" => u = "I_Task"
        /\ \A u \in Task : pc'[u] = IF u = "I_Task" THEN m ELSE pc[u]
        /\ hasWaiter' = hasWaiter /\ load' = load
    BY <1>t, <2>1, ControlEffect
  <2>4. PhaseB /\ B_Pace /\ B_Parked /\ i \in Nat
    BY <1>t, <2>3, ControlPhase, CountAssumption DEF InType
  <2>5. /\ \A u \in Task : thread'[u] = IF u = "H_Task_SB" THEN "ready" ELSE thread[u]
        /\ events' = events
    BY <1>t, <2>2, <2>4, ResumeEffect, Threads DEF B_Parked, B_Counted, Suspended, Is
  <2>6. Common' /\ Gone(TasksSA)'
    BY <2>3, <2>4, <2>5, Threads DEF IInv, Common, PhaseB, Gone, TasksSA, MainTasks
  <2>7. B_Pace' /\ B_Armed'
    <3>1. pc'["I_Task"] = m
      BY <2>3, Threads
    <3>2. RoundB' = i + 1
      <4>1. i < MEASUREMENT_COUNT
        BY <2>3, <2>4 DEF B_Pace
      <4>2. CASE m = "wait_sb"
        BY <2>1, <3>1, <4>2 DEF RoundB
      <4>3. CASE m = "abort_low_sb"
        <5>1. MEASUREMENT_COUNT = i + 1
          BY <2>1, <2>4, <4>1, <4>3, CountAssumption
        <5>2. QED  BY <3>1, <4>3, <5>1 DEF RoundB
      <4>4. QED  BY <4>2, <4>3
    <3>3. B_Pace'
      BY <2>1, <2>3, <2>4, <3>1, CountAssumption DEF B_Pace
    <3>4. B_Armed'
      BY <2>1, <2>2, <2>3, <2>4, <2>5, <3>1, <3>2, Threads
      DEF B_Pace, RoundB, B_Parked, B_Armed, B_Counted, Left, Parked, Suspended, Pended,
          Is, MainTasks, SbLoad
    <3>5. QED  BY <3>3, <3>4
  <2>8. QED  BY <1>t, <1>27, <2>2, <2>4, <2>5, <2>6, <2>7 DEF IInv, PhaseB, B_Loop
<1>28. ASSUME NEW d \in Dummies, I_CreateDummySA(d), mask' = mask PROVE IInv'
  <2>1. /\ Step("I_Task", "create_low_sa", "create_low_sa")
        /\ Create(d) /\ d \in SaLoad
        /\ window' = window /\ samples' = samples /\ i' = i
    BY <1>t, <1>28 DEF I_CreateDummySA, I_Create, Quiet, NoSample
  <2>2. /\ thread["I_Task"] = "ready" /\ pc["I_Task"] = "create_low_sa"
        /\ \A u \in Task : thread[u] = "ready" => u = "I_Task"
        /\ \A u \in Task : pc'[u] = pc[u]
        /\ hasWaiter' = hasWaiter /\ load' = load
    BY <1>t, <2>1, ControlEffect, Threads
  <2>3. PhaseA /\ A_Setup /\ Is("H_Task_SA", A, "stop")
    BY <2>2, ControlPhase, Threads DEF A_Setup, A_Parked, Is
  <2>4. /\ events' = events
        /\ \A u \in Task : thread'[u] = IF u = d THEN "ready" ELSE thread[u]
    BY <1>t, <2>1, CreateEffect, Threads
  <2>5. Common' /\ Fresh(TasksSB)'
    BY <2>1, <2>2, <2>3, <2>4, Threads
    DEF IInv, Common, PhaseA, Fresh, TasksSB, Is, MainTasks, SaLoad
  <2>6. A_Setup'
    BY <2>1, <2>2, <2>3, <2>4, Threads, CountAssumption
    DEF A_Setup, Fresh, Is, Pended, Woken, Is, MainTasks, SaLoad, SbLoad
  <2>7. QED
    BY <1>t, <1>28, <2>1, <2>3, <2>5, <2>6 DEF IInv, PhaseA, A_Loop
<1>29. ASSUME NEW d \in Dummies, I_AbortDummySA(d), mask' = mask PROVE IInv'
  <2>1. /\ Step("I_Task", "create_high_sb", "create_high_sb")
        /\ Abort(d) /\ d \in SaLoad
        /\ window' = window /\ samples' = samples /\ i' = i
    BY <1>t, <1>29 DEF I_AbortDummySA, I_Abort, Quiet, NoSample
  <2>2. /\ thread["I_Task"] = "ready" /\ pc["I_Task"] = "create_high_sb"
        /\ \A u \in Task : thread[u] = "ready" => u = "I_Task"
        /\ \A u \in Task : pc'[u] = pc[u]
        /\ hasWaiter' = hasWaiter /\ load' = load
    BY <1>t, <2>1, ControlEffect, Threads
  <2>3. PhaseA /\ A_End
    BY <2>2, ControlPhase, Threads DEF A_Setup, A_Parked, Is
  <2>4. /\ events' = events
        /\ \A u \in Task : thread'[u] = IF u = d THEN "dead" ELSE thread[u]
    BY <1>t, <2>1, AbortEffect, Threads
  <2>5. Common' /\ Fresh(TasksSB)'
    BY <2>1, <2>2, <2>3, <2>4, Threads
    DEF IInv, Common, PhaseA, Fresh, TasksSB, Is, MainTasks, SaLoad
  <2>6. A_End'
    BY <2>1, <2>2, <2>3, <2>4, Threads, CountAssumption
    DEF A_End, Pended, Woken, Is, MainTasks, SaLoad, SbLoad
  <2>7. QED
    BY <1>t, <1>29, <2>1, <2>3, <2>5, <2>6 DEF IInv, PhaseA, A_Loop
<1>30. ASSUME NEW d \in Dummies, I_CreateDummySB(d), mask' = mask PROVE IInv'
  <2>1. /\ Step("I_Task", "create_low_sb", "create_low_sb")
        /\ Create(d) /\ d \in SbLoad
        /\ window' = window /\ samples' = samples /\ i' = i
    BY <1>t, <1>30 DEF I_CreateDummySB, I_Create, Quiet, NoSample
  <2>2. /\ thread["I_Task"] = "ready" /\ pc["I_Task"] = "create_low_sb"
        /\ \A u \in Task : thread[u] = "ready" => u = "I_Task"
        /\ \A u \in Task : pc'[u] = pc[u]
        /\ hasWaiter' = hasWaiter /\ load' = load
    BY <1>t, <2>1, ControlEffect, Threads
  <2>3. PhaseB /\ B_Setup /\ Is("H_Task_SB", START, "suspend")
    BY <2>2, ControlPhase, Threads DEF B_Setup, B_Parked, Is
  <2>4. /\ events' = events
        /\ \A u \in Task : thread'[u] = IF u = d THEN "ready" ELSE thread[u]
    BY <1>t, <2>1, CreateEffect, Threads
  <2>5. Common' /\ Gone(TasksSA)'
    BY <2>1, <2>2, <2>3, <2>4, Threads
    DEF IInv, Common, PhaseB, Gone, TasksSA, MainTasks, SbLoad
  <2>6. B_Setup'
    BY <2>1, <2>2, <2>3, <2>4, Threads, CountAssumption
    DEF B_Setup, Fresh, Is, Pended, Woken, Is, MainTasks, SaLoad, SbLoad
  <2>7. QED
    BY <1>t, <1>30, <2>1, <2>3, <2>5, <2>6 DEF IInv, PhaseB, B_Loop
<1>31. ASSUME I_CreateHighSB PROVE IInv'
  <2>1. /\ Step("I_Task", "create_high_sb", "create_low_sb") /\ Create("H_Task_SB")
        /\ \A d \in SaLoad : thread[d] = "dead"
        /\ window' = window /\ samples' = samples /\ i' = i /\ mask' = B
    BY <1>31 DEF I_CreateHighSB, I_Create, Quiet, NoSample
  <2>2. /\ thread["I_Task"] = "ready" /\ pc["I_Task"] = "create_high_sb"
        /\ \A u \in Task : thread[u] = "ready" => u = "I_Task"
        /\ \A u \in Task : pc'[u] = IF u = "I_Task" THEN "create_low_sb" ELSE pc[u]
        /\ hasWaiter' = hasWaiter /\ load' = load
    BY <1>t, <2>1, ControlEffect
  <2>3. PhaseA /\ A_End
    BY <2>2, ControlPhase
  <2>4. /\ \A u \in Task : thread'[u] = IF u = "H_Task_SB" THEN "ready" ELSE thread[u]
        /\ events' = events
    BY <1>t, <2>1, CreateEffect, Threads
  <2>5. Common'
    BY <2>2, <2>4, Threads DEF IInv, Common, MainTasks
  <2>6. Gone(TasksSA)'
    BY <2>1, <2>2, <2>3, <2>4, Threads DEF IInv, Common, A_End, Gone, TasksSA, SaLoad, MainTasks
  <2>7. B_Setup'
    <3>1. \A t \in TasksSB \ {"H_Task_SB"} : Is(t, "none", Entry[t])'
      BY <2>2, <2>3, <2>4, Threads DEF PhaseA, Fresh, Is, TasksSB, MainTasks
    <3>2. Fresh(SbDummies)' /\ Is("L_Task_SB", "none", "post_start")'
      BY <3>1, Threads DEF Fresh, Is, Entry, TasksSB, Task, MainTasks, Dummies
    <3>3. Is("H_Task_SB", "ready", "wait_start")'
      BY <2>2, <2>3, <2>4, Threads
      DEF PhaseA, Fresh, Is, Entry, TasksSB, Task, MainTasks, Dummies
    <3>4. QED
      BY <2>1, <2>2, <2>3, <2>4, <3>2, <3>3, Threads DEF PhaseA, A_End, B_Setup
  <2>8. QED  BY <1>t, <2>1, <2>3, <2>5, <2>6, <2>7 DEF IInv, PhaseB, A_End
<1>32. CASE UNCHANGED vars
  BY <1>t, <1>32
  DEF vars, IInv, Common, PhaseA, PhaseB, A_Setup, A_Loop, A_Pace, A_Armed, A_Posted,
      A_Recorded, A_Parked, A_End, RoundA, B_Setup, B_Loop, B_Pace, B_Start, B_Armed,
      B_Posted, B_Counted, B_Parking, B_Parked, B_End, Parked, Suspended, RoundB, Left, Is,
      Fresh, Gone, Pended, Woken, SaLoad, SbLoad
<1>33. QED
  BY <1>1, <1>2, <1>3, <1>4, <1>5, <1>6, <1>7, <1>8, <1>9, <1>10, <1>11, <1>12, <1>13, <1>14,
     <1>15, <1>16, <1>17, <1>18, <1>19, <1>20, <1>21, <1>22, <1>23, <1>24, <1>25, <1>26,
     <1>27, <1>28, <1>29, <1>30, <1>31, <1>32
  DEF Next, ThreadStep, ControlStep

\* Every reachable state satisfies the inductive invariant.
THEOREM Invariance == Spec => []IInv
BY IInvInit, IInvStep, PTL DEF Spec

-----------------------------------------------------------------------------
\* The places of the windows, read off the labels of the threads that run.
LEMMA WindowPhase ==
    ASSUME IInv
    PROVE  /\ window = "scenario_a" => PhaseA /\ A_Pace /\ A_Posted
           /\ window = "scenario_b" => PhaseB /\ B_Pace /\ B_Posted
           /\ thread["L_Task_SA"] = "ready" /\ pc["L_Task_SA"] = "post" =>
                 PhaseA /\ A_Pace /\ A_Armed
           /\ thread["H_Task_SB"] = "ready" /\ pc["H_Task_SB"] \in {"post", "resume"} =>
                 PhaseB /\ B_Pace /\ B_Armed
           /\ thread["H_Task_SA"] = "ready" /\ pc["H_Task_SA"] = "stop" => A_Posted
           /\ thread["H_Task_SB"] = "ready" /\ pc["H_Task_SB"] = "stop" => B_Posted
<1>1. CASE PhaseA
  <2>1. thread["H_Task_SB"] = "none"
    BY <1>1 DEF PhaseA, Fresh, TasksSB, Is
  <2>2. QED
    BY <1>1, <2>1
    DEF PhaseA, A_Setup, A_Loop, A_Armed, A_Posted, A_Recorded, A_Parked, A_End, Is
<1>2. CASE PhaseB
  <2>1. thread["L_Task_SA"] # "ready" /\ thread["H_Task_SA"] # "ready"
    BY <1>2 DEF PhaseB, Gone, TasksSA
  <2>2. QED
    BY <1>2, <2>1
    DEF PhaseB, B_Setup, B_Loop, B_Start, B_Armed, B_Posted, B_Counted, B_Parking, B_Parked,
        B_End, Suspended, Is
<1>3. QED  BY <1>1, <1>2 DEF IInv

\* The inductive invariant implies the isolation of the windows.
LEMMA IsolationFromIInv == IInv => WindowIsolation
<1> SUFFICES ASSUME IInv PROVE WindowIsolation
  OBVIOUS
<1>1. ASSUME window = "scenario_a"
      PROVE  Runs("H_Task_SA") /\ pc["H_Task_SA"] = "stop"
  <2>1. PhaseA /\ A_Posted
    BY <1>1, WindowPhase
  <2>2. \A u \in Task : thread[u] = "ready" =>
           u \in {"I_Task", "L_Task_SA", "H_Task_SA"} \/ u \in SaDummies
    BY <2>1, Threads DEF IInv, PhaseA, Fresh, Is, TasksSB, MainTasks
  <2>3. \A d \in SaDummies : prio["H_Task_SA"] <= prio[d]
    BY PrioAssumption, Threads
  <2>4. QED
    BY <2>1, <2>2, <2>3, PrioAssumption, Threads DEF A_Posted, Is, Runs, Ready
<1>2. ASSUME window = "scenario_b"
      PROVE  Runs("H_Task_SB") /\ pc["H_Task_SB"] = "stop"
  <2>1. PhaseB /\ B_Posted
    BY <1>2, WindowPhase
  <2>2. \A u \in Task : thread[u] = "ready" =>
           u \in {"I_Task", "L_Task_SB", "H_Task_SB"} \/ u \in SbDummies
    BY <2>1, Threads DEF PhaseB, Gone, TasksSA, MainTasks
  <2>3. \A d \in SbDummies : prio["H_Task_SB"] <= prio[d]
    BY PrioAssumption, Threads
  <2>4. QED
    BY <2>1, <2>2, <2>3, PrioAssumption, Threads DEF B_Posted, Is, Runs, Ready
<1>3. QED  BY <1>1, <1>2 DEF WindowIsolation

\* The inductive invariant implies that no resume is lost.
LEMMA ResumeFromIInv == IInv => NoLostResume
<1> SUFFICES ASSUME IInv PROVE NoLostResume
  OBVIOUS
<1>1. ASSUME Runs("I_Task")
      PROVE  \A u \in Task : thread[u] = "ready" => u = "I_Task"
  BY <1>1, PrioAssumption, Threads DEF Runs, Ready
<1>2. ASSUME Runs("I_Task"), pc["I_Task"] = "resume_sa"
      PROVE  thread["L_Task_SA"] = "suspended"
  BY <1>1, <1>2, ControlPhase DEF A_Parked, Is
<1>3. ASSUME Runs("I_Task"), pc["I_Task"] = "resume_sb"
      PROVE  thread["H_Task_SB"] = "suspended"
  BY <1>1, <1>3, ControlPhase DEF B_Parked, B_Counted, Suspended, Is
<1>4. ASSUME Runs("H_Task_SB"), pc["H_Task_SB"] = "resume"
      PROVE  thread["L_Task_SB"] = "suspended"
  <2>1. B_Armed
    BY <1>4, WindowPhase DEF Runs, Ready
  <2>2. QED  BY <1>4, <2>1 DEF B_Armed, Parked, Is
<1>5. QED  BY <1>2, <1>3, <1>4 DEF NoLostResume

\* The inductive invariant says what each measured post finds.
LEMMA ConditionsFromIInv == IInv => SameConditions
<1> SUFFICES ASSUME IInv PROVE SameConditions
  OBVIOUS
<1>1. ASSUME Runs("L_Task_SA"), pc["L_Task_SA"] = "post"
      PROVE  /\ Waiters(A) = {"H_Task_SA"} \cup SaLoad
             /\ Waiters(B) \cup Waiters(START) \cup Waiters(YIELD) = {}
             /\ events = {}
  <2>1. PhaseA /\ A_Armed
    BY <1>1, WindowPhase DEF Runs, Ready
  <2>2. \A u \in Task :
           /\ thread[u] = A <=> u = "H_Task_SA" \/ u \in SaLoad
           /\ thread[u] \notin {B, START, YIELD}
    BY <1>1, <2>1, Threads
    DEF IInv, Common, PhaseA, A_Armed, Pended, Fresh, Is, TasksSB, SaLoad, MainTasks
  <2>3. events = {}
    BY <1>1, <2>1 DEF A_Armed, Is
  <2>4. QED  BY <2>2, <2>3, Threads DEF Waiters
<1>2. ASSUME Runs("H_Task_SB"), pc["H_Task_SB"] = "post"
      PROVE  /\ Waiters(B) = (IF hasWaiter THEN {"L_Task_SB"} ELSE {}) \cup SbLoad
             /\ Waiters(A) \cup Waiters(START) \cup Waiters(YIELD) = {}
             /\ events = IF Waiters(B) = {} /\ samples["scenario_b"] > 0 THEN {B} ELSE {}
  <2>1. PhaseB /\ B_Armed
    BY <1>2, WindowPhase DEF Runs, Ready
  <2>2. \A u \in Task :
           /\ thread[u] = B <=> u \in SbLoad \/ (u = "L_Task_SB" /\ hasWaiter)
           /\ thread[u] \notin {A, START, YIELD}
    BY <1>2, <2>1, Threads
    DEF IInv, Common, PhaseB, Gone, TasksSA, B_Armed, Parked, Pended, Is, MainTasks, SbLoad
  <2>3. events = Left(samples["scenario_b"])
    BY <2>1 DEF B_Armed
  <2>4. Waiters(B) = (IF hasWaiter THEN {"L_Task_SB"} ELSE {}) \cup SbLoad
    BY <2>2, Threads DEF Waiters
  <2>5. Waiters(A) \cup Waiters(START) \cup Waiters(YIELD) = {}
    BY <2>2 DEF Waiters
  <2>6. Waiters(B) = {} <=> ~hasWaiter /\ SbLoad = {}
    BY <2>4
  <2>7. QED  BY <2>3, <2>4, <2>5, <2>6 DEF Left
<1>3. QED  BY <1>1, <1>2 DEF SameConditions

\* Between the markers of a window nothing runs but what is measured,
\* although the post has woken every dummy.
THEOREM Isolation == Spec => []WindowIsolation
BY Invariance, IsolationFromIInv, PTL

\* No resume of the test is lost.
THEOREM Resumes == Spec => []NoLostResume
BY Invariance, ResumeFromIInv, PTL

\* Every measured post finds the same waiters and no bit but, where nobody
\* waits for it, its own of the window before.
THEOREM Conditions == Spec => []SameConditions
BY Invariance, ConditionsFromIInv, PTL

-----------------------------------------------------------------------------
\* Steps that open no window and record no sample stutter in Measurement.
LEMMA RefinementStep == IInv /\ [Next]_vars => [M!Next]_(M!mvars)
<1> SUFFICES ASSUME IInv, [Next]_vars PROVE [M!Next]_(M!mvars)
  OBVIOUS
<1> USE DEF M!Next, M!mvars, M!Open, M!Record, M!Due, M!Scenario
<1>t. InType
  BY DEF IInv
<1>1. ASSUME LowSA_Post PROVE M!Open("scenario_a")
  <2>1. A_Pace /\ A_Armed
    BY <1>1, WindowPhase DEF LowSA_Post, Step, Runs, Ready
  <2>2. samples["scenario_a"] < MEASUREMENT_COUNT
    BY <1>t, <2>1, CountAssumption DEF A_Pace, A_Armed, RoundA, InType
  <2>3. QED  BY <1>1, <2>1, <2>2 DEF LowSA_Post, OpenWindow, A_Armed
<1>2. ASSUME HighSA_Stop PROVE M!Record("scenario_a")
  <2>1. A_Posted
    BY <1>2, WindowPhase DEF HighSA_Stop, Step, Runs, Ready
  <2>2. QED  BY <1>2, <2>1 DEF HighSA_Stop, RecordSample, A_Posted
<1>3. ASSUME HighSB_Post PROVE M!Open("scenario_b")
  <2>1. PhaseB /\ B_Pace /\ B_Armed
    BY <1>3, WindowPhase DEF HighSB_Post, Step, Runs, Ready
  <2>2. samples["scenario_b"] < MEASUREMENT_COUNT
    BY <1>t, <2>1, CountAssumption DEF B_Pace, B_Armed, RoundB, InType
  <2>3. QED  BY <1>3, <2>1, <2>2 DEF HighSB_Post, OpenWindow, PhaseB, B_Armed
<1>4. ASSUME HighSB_Stop PROVE M!Record("scenario_b")
  <2>1. B_Posted
    BY <1>4, WindowPhase DEF HighSB_Stop, Step, Runs, Ready
  <2>2. QED  BY <1>4, <2>1 DEF HighSB_Stop, RecordSample, B_Posted
<1>5. ASSUME ThreadStep, ~LowSA_Post, ~HighSA_Stop, ~HighSB_Post, ~HighSB_Stop
      PROVE  UNCHANGED <<window, samples>>
  BY <1>5 DEF ThreadStep, Quiet, NoSample, LowSA_WaitStart, LowSA_Suspend, HighSA_PostStart,
              HighSA_Wait, HighSB_WaitStart, HighSB_Suspend, HighSB_Resume, LowSB_PostStart,
              LowSB_PostYield, LowSB_Park, Dummy_Wait
<1>6. ASSUME ControlStep \/ I_CreateHighSB PROVE UNCHANGED <<window, samples>>
  BY <1>6 DEF ControlStep, Quiet, NoSample, I_Create, I_Abort, I_Resume, I_CreateHighSA,
              I_CreateLowSA, I_WaitSA, I_ResumeSA, I_AbortLowSA, I_AbortHighSA,
              I_CreateHighSB, I_CreateLowSB, I_WaitSB, I_ResumeSB, I_AbortLowSB, I_AbortHighSB,
              I_Signalize, I_CreateDummySA, I_AbortDummySA, I_CreateDummySB
<1>7. CASE UNCHANGED vars
  BY <1>7 DEF vars
<1>8. QED
  BY <1>1, <1>2, <1>3, <1>4, <1>5, <1>6, <1>7 DEF Next

\* The program takes only steps of a correct measurement: MEASUREMENT_COUNT
\* windows of scenario A, then those of scenario B, never nested, each with
\* one sample (the safety part of Measures).
THEOREM Refinement == Spec => M!Init /\ [][M!Next]_(M!mvars)
<1>1. Init => M!Init
  BY DEF Init, M!Init, M!Scenario
<1>2. QED
  BY <1>1, Invariance, RefinementStep, PTL DEF Spec
=============================================================================
