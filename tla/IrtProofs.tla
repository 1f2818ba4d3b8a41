------------------------------ MODULE IrtProofs ------------------------------
(***************************************************************************)
(* Theorems about Irt, for every number of iterations, each kind of        *)
(* release, and whether or not a call outside a window is counted.         *)
(*                                                                         *)
(* The label of I_Task says how far the program has come, and the          *)
(* invariant gives the stages of one window: triggered, raised, released,  *)
(* counted.  The interrupt can only be taken in the second one.            *)
(***************************************************************************)
EXTENDS Irt, TLAPS

Series == {"scenario_a", "scenario_b"}

InType ==
    /\ thread \in [Task -> {"none", "ready", "suspended", "dead", "test_sem", START, DONE, A}]
    /\ count \in [{"test_sem"} -> Nat]
    /\ pc \in [Task -> Labels]
    /\ window \in Series \cup {"closed"}
    /\ samples \in [Series -> Nat]
    /\ enabled \in BOOLEAN /\ pending \in BOOLEAN /\ stopped \in BOOLEAN
    /\ release \in Releases /\ gated \in BOOLEAN

Is(t, state, label) == thread[t] = state /\ pc[t] = label

\* Both threads of scenario A count each window.
Twice == ~gated /\ release # "none"

\* A_Task_SA is in the wait that the interrupt ends, or does not exist.
WaitState == CASE release = "resume" -> "suspended" [] release = "sem" -> "test_sem" [] OTHER -> A
A_Waits ==
    IF release = "none" THEN Is("A_Task_SA", "none", "wait") ELSE Is("A_Task_SA", WaitState, "stop")

Idle == window = "closed" /\ pending = FALSE

-----------------------------------------------------------------------------
\* Scenario A

\* The threads are created and run to their waits.
A_Setup ==
    /\ Idle /\ events = {} /\ samples["scenario_a"] = 0
    /\ \/ /\ pc["I_Task"] = "irq_enable" /\ enabled = FALSE
          /\ Is("A_Task_SA", "none", "wait") /\ Is("L_Task_SA", "none", "wait_start")
       \/ /\ pc["I_Task"] = "create_a" /\ enabled = TRUE /\ release # "none"
          /\ Is("A_Task_SA", "none", "wait") /\ Is("L_Task_SA", "none", "wait_start")
       \/ /\ pc["I_Task"] = "create_l" /\ enabled = TRUE
          /\ A_Waits \/ (release # "none" /\ Is("A_Task_SA", "ready", "wait"))
          /\ Is("L_Task_SA", "none", "wait_start")
       \/ /\ pc["I_Task"] = "post_start_sa" /\ enabled = TRUE
          /\ A_Waits
          /\ Is("L_Task_SA", "ready", "wait_start") \/ Is("L_Task_SA", START, "trigger")

\* Before the window is counted.  Where both threads count, the count is even.
Begun ==
    /\ samples["scenario_a"] < MEASUREMENT_COUNT
    /\ Twice => samples["scenario_a"] % 2 = 0

A_Trigger == Idle /\ Begun /\ A_Waits /\ Is("L_Task_SA", "ready", "trigger")

\* The interrupt is pending: nothing but the ISR can run.
A_Raised ==
    /\ window = "scenario_a" /\ pending = TRUE /\ Begun
    /\ A_Waits /\ Is("L_Task_SA", "ready", "iterate")

\* The ISR has released A_Task_SA, or has taken the stop marker itself.
A_Released ==
    /\ window = "scenario_a" /\ pending = FALSE /\ Begun /\ Is("L_Task_SA", "ready", "iterate")
    /\ IF release = "none" THEN A_Waits /\ stopped = TRUE ELSE Is("A_Task_SA", "ready", "stop")

\* A_Task_SA has counted the window and closed it.
A_Counted ==
    /\ release # "none" /\ Idle /\ stopped = TRUE
    /\ samples["scenario_a"] \in 1..MEASUREMENT_COUNT
    /\ Twice => samples["scenario_a"] % 2 = 1
    /\ A_Waits \/ Is("A_Task_SA", "ready", "wait")
    /\ Is("L_Task_SA", "ready", "iterate")

\* The count at the end.
A_Full ==
    samples["scenario_a"] = MEASUREMENT_COUNT + (IF Twice THEN MEASUREMENT_COUNT % 2 ELSE 0)

A_Over ==
    /\ Idle /\ A_Full /\ A_Waits
    /\ \/ events = {} /\ Is("L_Task_SA", "ready", "post_done")
       \/ events = {DONE} /\ Is("L_Task_SA", "ready", "suspend")
       \/ events = {DONE} /\ Is("L_Task_SA", "suspended", "trigger")

A_Run ==
    /\ pc["I_Task"] = "wait_sa" /\ enabled = TRUE
    /\ \/ events = {} /\ (A_Trigger \/ A_Raised \/ A_Released \/ A_Counted)
       \/ A_Over

\* I_Task aborts the threads and disables the interrupt.
A_Gone == IF release = "none" THEN thread["A_Task_SA"] = "none" ELSE thread["A_Task_SA"] = "dead"

A_End ==
    /\ Idle /\ A_Full /\ events = {} /\ enabled = TRUE
    /\ \/ pc["I_Task"] = "abort_l" /\ A_Waits /\ thread["L_Task_SA"] = "suspended"
       \/ /\ pc["I_Task"] = "abort_a" /\ release # "none" /\ A_Waits
          /\ thread["L_Task_SA"] = "dead"
       \/ pc["I_Task"] = "irq_disable" /\ A_Gone /\ thread["L_Task_SA"] = "dead"

PhaseA ==
    /\ samples["scenario_b"] = 0 /\ Is("Task_SB", "none", "wait_start")
    /\ A_Setup \/ A_Run \/ A_End

-----------------------------------------------------------------------------
\* Scenario B

B_Setup ==
    /\ Idle /\ events = {} /\ samples["scenario_b"] = 0
    /\ \/ pc["I_Task"] = "create_sb" /\ Is("Task_SB", "none", "wait_start")
       \/ /\ pc["I_Task"] = "post_start_sb"
          /\ Is("Task_SB", "ready", "wait_start") \/ Is("Task_SB", START, "trigger")

B_Run ==
    /\ pc["I_Task"] = "wait_sb" /\ events = {} /\ samples["scenario_b"] < MEASUREMENT_COUNT
    /\ \/ Idle /\ Is("Task_SB", "ready", "trigger")
       \/ window = "scenario_b" /\ pending = TRUE /\ Is("Task_SB", "ready", "iterate")

B_Over ==
    /\ Idle /\ samples["scenario_b"] = MEASUREMENT_COUNT
    /\ \/ /\ pc["I_Task"] = "wait_sb"
          /\ \/ events = {} /\ Is("Task_SB", "ready", "post_done")
             \/ events = {DONE} /\ Is("Task_SB", "ready", "suspend")
             \/ events = {DONE} /\ Is("Task_SB", "suspended", "trigger")
       \/ pc["I_Task"] = "abort_sb" /\ events = {} /\ thread["Task_SB"] = "suspended"
       \/ pc["I_Task"] = "signalize" /\ events = {} /\ thread["Task_SB"] = "dead"

PhaseB ==
    /\ enabled = FALSE /\ A_Full /\ A_Gone /\ thread["L_Task_SA"] = "dead"
    /\ B_Setup \/ B_Run \/ B_Over

IInv ==
    /\ InType
    /\ thread["I_Task"] = "ready" /\ count["test_sem"] = 0
    /\ PhaseA \/ PhaseB

-----------------------------------------------------------------------------
\* The four threads, and what of their priorities matters.
LEMMA Threads ==
    /\ Task = {"I_Task", "L_Task_SA", "A_Task_SA", "Task_SB"}
    /\ ~ prio["I_Task"] <= prio["L_Task_SA"] /\ ~ prio["I_Task"] <= prio["A_Task_SA"]
    /\ ~ prio["I_Task"] <= prio["Task_SB"] /\ ~ prio["L_Task_SA"] <= prio["A_Task_SA"]
BY DEF Task, prio

\* An even count becomes odd and an odd one even.
LEMMA Parity ==
    ASSUME NEW n \in Nat
    PROVE  /\ n % 2 = 0 \/ n % 2 = 1
           /\ n % 2 = 0 => (n + 1) % 2 = 1
           /\ n % 2 = 1 => (n + 1) % 2 = 0
OBVIOUS

\* A_Task_SA is never ready in its wait, nor in the state that I_Task or
\* another thread waits in.
LEMMA Waits == WaitState \in {"suspended", "test_sem", A}
BY DEF WaitState

-----------------------------------------------------------------------------
(***************************************************************************)
(* What Step and the kernel operations do, thread by thread.               *)
(***************************************************************************)
\* A step is taken by a thread that no ready thread precedes.
LEMMA StepEffect ==
    ASSUME InType, NEW t \in Task, NEW l, NEW m, Step(t, l, m)
    PROVE  /\ thread[t] = "ready" /\ pc[t] = l
           /\ \A u \in Task : thread[u] = "ready" => prio[t] <= prio[u]
           /\ \A u \in Task : pc'[u] = IF u = t THEN m ELSE pc[u]
           /\ release' = release /\ gated' = gated
BY DEF InType, Step, Runs, Ready, build

\* I_Task runs only when nothing else is ready.
LEMMA ControlEffect ==
    ASSUME InType, NEW l, NEW m, Step("I_Task", l, m)
    PROVE  /\ thread["L_Task_SA"] # "ready" /\ thread["A_Task_SA"] # "ready"
           /\ thread["Task_SB"] # "ready"
BY StepEffect, Threads

\* k_thread_create(), k_thread_abort(), k_thread_suspend() and
\* k_thread_resume() change the state of one thread.
LEMMA ThreadEffect ==
    ASSUME InType, NEW t \in Task
    PROVE  /\ Create(t) => /\ \A u \in Task : thread'[u] = IF u = t THEN "ready" ELSE thread[u]
                           /\ events' = events /\ count' = count
           /\ Abort(t) => /\ \A u \in Task : thread'[u] = IF u = t THEN "dead" ELSE thread[u]
                          /\ events' = events /\ count' = count
           /\ Suspend(t) => /\ \A u \in Task : thread'[u] = IF u = t THEN "suspended" ELSE thread[u]
                            /\ events' = events /\ count' = count
           /\ Resume(t) /\ thread[t] = "suspended" =>
                 /\ \A u \in Task : thread'[u] = IF u = t THEN "ready" ELSE thread[u]
                 /\ events' = events /\ count' = count
BY DEF InType, Create, Abort, Suspend, Resume

\* Taking the semaphore at zero pends the caller.
LEMMA TakeEffect ==
    ASSUME InType, NEW t \in Task, SemTake(t, "test_sem"), count["test_sem"] = 0
    PROVE  /\ \A u \in Task : thread'[u] = IF u = t THEN "test_sem" ELSE thread[u]
           /\ events' = events /\ count' = count
BY DEF InType, SemTake

\* Giving it makes the only waiter ready.
LEMMA GiveEffect ==
    ASSUME InType, NEW t \in Task, SemGive("test_sem"),
           \A u \in Task : thread[u] = "test_sem" <=> u = t
    PROVE  /\ \A u \in Task : thread'[u] = IF u = t THEN "ready" ELSE thread[u]
           /\ events' = events /\ count' = count
BY DEF InType, SemGive, IsHead, Waiters

\* k_event_wait_safe() consumes the bit or pends the caller.
LEMMA WaitEffect ==
    ASSUME InType, NEW t \in Task, NEW e \in {START, DONE, A}, EventWait(t, e)
    PROVE  /\ \A u \in Task : thread'[u] = IF u = t /\ e \notin events THEN e ELSE thread[u]
           /\ events' = events \ {e} /\ count' = count
BY DEF InType, EventWait

\* k_event_post() wakes every waiter of the bit, or leaves it posted.
LEMMA PostEffect ==
    ASSUME InType, NEW e \in {START, DONE, A}, EventPost(e)
    PROVE  /\ \A u \in Task : thread'[u] = IF thread[u] = e THEN "ready" ELSE thread[u]
           /\ events' = IF \E u \in Task : thread[u] = e THEN events \ {e} ELSE events \cup {e}
           /\ count' = count
BY DEF InType, EventPost, Waiters

\* The kernel operations keep the kernel's state well typed.
LEMMA KernelTyping ==
    ASSUME InType, NEW t \in Task, NEW e \in {START, DONE, A},
           \/ Create(t) \/ Abort(t) \/ Suspend(t) \/ Resume(t)
           \/ SemTake(t, "test_sem") \/ SemGive("test_sem")
           \/ EventWait(t, e) \/ EventPost(e) \/ NoCall
    PROVE  /\ thread' \in [Task -> {"none", "ready", "suspended", "dead", "test_sem", START, DONE, A}]
           /\ count' \in [{"test_sem"} -> Nat]
<1> USE DEF InType
<1>1. CASE Create(t)  BY <1>1 DEF Create
<1>2. CASE Abort(t)  BY <1>2 DEF Abort
<1>3. CASE Suspend(t)  BY <1>3 DEF Suspend
<1>4. CASE Resume(t)  BY <1>4 DEF Resume
<1>5. CASE SemTake(t, "test_sem")  BY <1>5 DEF SemTake
<1>6. CASE SemGive("test_sem")  BY <1>6 DEF SemGive
<1>7. CASE EventWait(t, e)  BY <1>7 DEF EventWait
<1>8. CASE EventPost(e)  BY <1>8 DEF EventPost
<1>9. CASE NoCall  BY <1>9 DEF NoCall, kvars
<1>10. QED  BY <1>1, <1>2, <1>3, <1>4, <1>5, <1>6, <1>7, <1>8, <1>9

\* Every step keeps the state well typed.
LEMMA TypeStep == InType /\ [Next]_vars => InType'
<1> SUFFICES ASSUME InType, [Next]_vars PROVE InType'
  OBVIOUS
<1> DEFINE KType == /\ thread \in [Task -> {"none", "ready", "suspended", "dead", "test_sem",
                                              START, DONE, A}]
                    /\ count \in [{"test_sem"} -> Nat]
<1>0. Task = {"I_Task", "L_Task_SA", "A_Task_SA", "Task_SB"}
  BY Threads
<1>k. ASSUME NEW t \in Task, NEW e \in {START, DONE, A},
             \/ Create(t) \/ Abort(t) \/ Suspend(t) \/ Resume(t)
             \/ SemTake(t, "test_sem") \/ SemGive("test_sem")
             \/ EventWait(t, e) \/ EventPost(e) \/ NoCall
      PROVE  KType'
  BY <1>k, KernelTyping
<1>s. ASSUME NEW t \in Task, NEW l, NEW m \in Labels, Step(t, l, m)
      PROVE  pc' \in [Task -> Labels] /\ release' \in Releases /\ gated' \in BOOLEAN
  BY <1>s DEF Step, InType, build
<1>w. ASSUME NoSample \/ (\E s \in Series : OpenWindow(s) \/ Iterate(s))
      PROVE  window' \in Series \cup {"closed"} /\ samples' \in [Series -> Nat]
  BY <1>w DEF NoSample, OpenWindow, Iterate, InType
<1> HIDE DEF KType
<1>1. CASE test_isr
  <2>1. KType'
    BY <1>0, <1>1, <1>k DEF test_isr
  <2>2. QED  BY <1>1, <2>1 DEF test_isr, KType, InType, build
<1>2. CASE A_Wait \/ A_Stop \/ L_WaitStart \/ L_Trigger
  <2>1. KType'
    BY <1>0, <1>2, <1>k DEF A_Wait, A_Stop, L_WaitStart, L_Trigger
  <2>2. pc' \in [Task -> Labels] /\ release' \in Releases /\ gated' \in BOOLEAN
    BY <1>0, <1>2, <1>s DEF A_Wait, A_Stop, L_WaitStart, L_Trigger, Labels
  <2>3. window' \in Series \cup {"closed"} /\ samples' \in [Series -> Nat]
    BY <1>2, <1>w DEF A_Wait, A_Stop, L_WaitStart, L_Trigger, NoSample, Series
  <2>4. enabled' \in BOOLEAN /\ pending' \in BOOLEAN /\ stopped' \in BOOLEAN
    BY <1>2 DEF A_Wait, A_Stop, L_WaitStart, L_Trigger, irq, InType
  <2>5. QED  BY <2>1, <2>2, <2>3, <2>4 DEF KType, InType
<1>3. CASE L_Iterate \/ SB_WaitStart \/ SB_Trigger \/ SB_Iterate
  <2>1. KType'
    BY <1>0, <1>3, <1>k DEF L_Iterate, SB_WaitStart, SB_Trigger, SB_Iterate
  <2>2. pc' \in [Task -> Labels] /\ release' \in Releases /\ gated' \in BOOLEAN
    BY <1>0, <1>3, <1>s DEF L_Iterate, SB_WaitStart, SB_Trigger, SB_Iterate, Labels
  <2>3. window' \in Series \cup {"closed"} /\ samples' \in [Series -> Nat]
    BY <1>3, <1>w DEF L_Iterate, SB_WaitStart, SB_Trigger, SB_Iterate, NoSample, Series
  <2>4. enabled' \in BOOLEAN /\ pending' \in BOOLEAN /\ stopped' \in BOOLEAN
    BY <1>3 DEF L_Iterate, SB_WaitStart, SB_Trigger, SB_Iterate, irq, InType
  <2>5. QED  BY <2>1, <2>2, <2>3, <2>4 DEF KType, InType
<1>4. ASSUME NEW t \in {"L_Task_SA", "Task_SB"}, PostDone(t) \/ SuspendSelf(t) PROVE InType'
  <2>1. KType'
    BY <1>0, <1>4, <1>k DEF PostDone, SuspendSelf
  <2>2. pc' \in [Task -> Labels] /\ release' \in Releases /\ gated' \in BOOLEAN
    BY <1>0, <1>4, <1>s DEF PostDone, SuspendSelf, Labels
  <2>3. QED  BY <1>4, <2>1, <2>2 DEF PostDone, SuspendSelf, irq, KType, InType
<1>5. CASE I_CreateA \/ I_CreateL \/ I_AbortL \/ I_AbortA \/ I_CreateSB \/ I_AbortSB
           \/ (I_Signalize /\ Control)
  <2>1. KType'
    BY <1>0, <1>5, <1>k DEF I_CreateA, I_CreateL, I_AbortL, I_AbortA, I_CreateSB, I_AbortSB,
                            I_Signalize, I_Create, I_Abort
  <2>2. pc' \in [Task -> Labels] /\ release' \in Releases /\ gated' \in BOOLEAN
    BY <1>0, <1>5, <1>s DEF I_CreateA, I_CreateL, I_AbortL, I_AbortA, I_CreateSB, I_AbortSB,
                            I_Signalize, I_Create, I_Abort, Labels
  <2>3. NoSample /\ Control
    BY <1>5 DEF I_CreateA, I_CreateL, I_AbortL, I_AbortA, I_CreateSB, I_AbortSB,
                I_Signalize, I_Create, I_Abort, Quiet
  <2>4. QED  BY <2>1, <2>2, <2>3, <1>w DEF Control, irq, KType, InType
<1>6. ASSUME NEW l, NEW m \in {"wait_sa", "wait_sb", "abort_l", "abort_sb"},
             I_PostStart(l, m) \/ I_WaitDone(l, m)
      PROVE  InType'
  <2>1. KType'
    BY <1>0, <1>6, <1>k DEF I_PostStart, I_WaitDone
  <2>2. pc' \in [Task -> Labels] /\ release' \in Releases /\ gated' \in BOOLEAN
    BY <1>0, <1>6, <1>s DEF I_PostStart, I_WaitDone, Labels
  <2>3. NoSample /\ Control
    BY <1>6 DEF I_PostStart, I_WaitDone
  <2>4. QED  BY <2>1, <2>2, <2>3, <1>w DEF Control, irq, KType, InType
<1>7. CASE I_IrqEnable \/ I_IrqDisable
  <2>1. KType'
    BY <1>0, <1>7, <1>k DEF I_IrqEnable, I_IrqDisable
  <2>2. pc' \in [Task -> Labels] /\ release' \in Releases /\ gated' \in BOOLEAN
    BY <1>0, <1>7, <1>s DEF I_IrqEnable, I_IrqDisable, Labels
  <2>3. QED  BY <1>7, <2>1, <2>2 DEF I_IrqEnable, I_IrqDisable, KType, InType
<1>8. CASE UNCHANGED vars
  BY <1>8 DEF vars, InType
<1>9. QED
  BY <1>1, <1>2, <1>3, <1>4, <1>5, <1>6, <1>7, <1>8 DEF Next, ThreadStep, ControlStep

-----------------------------------------------------------------------------
(***************************************************************************)
(* Where the program is when each thread runs at each label.               *)
(***************************************************************************)
\* A_Task_SA runs into its wait, and out of it when it is released.
LEMMA ARuns ==
    ASSUME IInv, thread["A_Task_SA"] = "ready"
    PROVE  /\ PhaseA /\ release # "none"
           /\ pc["A_Task_SA"] = "wait" => \/ A_Setup /\ pc["I_Task"] = "create_l"
                                          \/ A_Run /\ events = {} /\ A_Counted
           /\ pc["A_Task_SA"] = "stop" => A_Run /\ events = {} /\ A_Released
<1>1. ~ A_Waits
  BY Waits DEF A_Waits, Is, A
<1>2. PhaseA
  BY DEF IInv, PhaseB, A_Gone
<1>3. A_Setup => pc["I_Task"] = "create_l" /\ pc["A_Task_SA"] = "wait" /\ release # "none"
  BY <1>1 DEF A_Setup, Is
<1>4. ~ A_End
  BY <1>1 DEF A_End, A_Gone
<1>5. A_Run => /\ events = {}
               /\ \/ A_Released /\ pc["A_Task_SA"] = "stop" /\ release # "none"
                  \/ A_Counted /\ pc["A_Task_SA"] = "wait" /\ release # "none"
  BY <1>1 DEF A_Run, A_Trigger, A_Raised, A_Released, A_Counted, A_Over, Is
<1>6. QED  BY <1>2, <1>3, <1>4, <1>5 DEF PhaseA

\* L_Task_SA runs through scenario A.
LEMMA LRuns ==
    ASSUME IInv, thread["L_Task_SA"] = "ready"
    PROVE  /\ PhaseA
           /\ pc["L_Task_SA"] = "wait_start" => A_Setup /\ pc["I_Task"] = "post_start_sa"
           /\ pc["L_Task_SA"] = "trigger" => A_Run /\ events = {} /\ A_Trigger
           /\ pc["L_Task_SA"] = "iterate" =>
                 A_Run /\ events = {} /\ (A_Raised \/ A_Released \/ A_Counted)
           /\ pc["L_Task_SA"] = "post_done" => A_Run /\ A_Over /\ events = {}
           /\ pc["L_Task_SA"] = "suspend" => A_Run /\ A_Over /\ events = {DONE}
<1>1. PhaseA
  BY DEF IInv, PhaseB
<1>2. A_Setup => pc["I_Task"] = "post_start_sa" /\ pc["L_Task_SA"] = "wait_start"
  BY DEF A_Setup, Is, START
<1>3. ~ A_End
  BY DEF A_End
<1>4. A_Run => \/ events = {} /\ A_Trigger /\ pc["L_Task_SA"] = "trigger"
               \/ events = {} /\ (A_Raised \/ A_Released \/ A_Counted) /\ pc["L_Task_SA"] = "iterate"
               \/ A_Over /\ events = {} /\ pc["L_Task_SA"] = "post_done"
               \/ A_Over /\ events = {DONE} /\ pc["L_Task_SA"] = "suspend"
  BY DEF A_Run, A_Trigger, A_Raised, A_Released, A_Counted, A_Over, Is
<1>5. QED  BY <1>1, <1>2, <1>3, <1>4 DEF PhaseA

\* Task_SB runs through scenario B.
LEMMA SBRuns ==
    ASSUME IInv, thread["Task_SB"] = "ready"
    PROVE  /\ PhaseB
           /\ pc["Task_SB"] = "wait_start" => B_Setup /\ pc["I_Task"] = "post_start_sb"
           /\ pc["Task_SB"] = "trigger" => B_Run /\ Idle
           /\ pc["Task_SB"] = "iterate" => B_Run /\ window = "scenario_b" /\ pending = TRUE
           /\ pc["Task_SB"] = "post_done" => B_Over /\ pc["I_Task"] = "wait_sb" /\ events = {}
           /\ pc["Task_SB"] = "suspend" => B_Over /\ pc["I_Task"] = "wait_sb" /\ events = {DONE}
<1>1. PhaseB
  BY DEF IInv, PhaseA, Is
<1>2. B_Setup => pc["I_Task"] = "post_start_sb" /\ pc["Task_SB"] = "wait_start"
  BY DEF B_Setup, Is, START
<1>3. B_Run => \/ Idle /\ pc["Task_SB"] = "trigger"
               \/ window = "scenario_b" /\ pending = TRUE /\ pc["Task_SB"] = "iterate"
  BY DEF B_Run, Is
<1>4. B_Over => \/ events = {} /\ pc["I_Task"] = "wait_sb" /\ pc["Task_SB"] = "post_done"
                \/ events = {DONE} /\ pc["I_Task"] = "wait_sb" /\ pc["Task_SB"] = "suspend"
  BY DEF B_Over, Is
<1>5. QED  BY <1>1, <1>2, <1>3, <1>4 DEF PhaseB

\* An interrupt can be taken only in one stage of the window.
LEMMA IsRaised ==
    ASSUME IInv, Taken
    PROVE  PhaseA /\ A_Run /\ events = {} /\ A_Raised
<1>1. enabled = TRUE /\ pending = TRUE
  BY DEF Taken, IInv, InType
<1>2. PhaseA
  BY <1>1 DEF IInv, PhaseB
<1>3. ~ Idle
  BY <1>1 DEF Idle
<1>4. QED
  BY <1>1, <1>2, <1>3
  DEF PhaseA, A_Setup, A_End, A_Run, A_Trigger, A_Released, A_Counted, A_Over

-----------------------------------------------------------------------------
(***************************************************************************)
(* Each action leads from its stage to the next.                           *)
(***************************************************************************)
\* Scenario A goes on while scenario B is left alone.
LEMMA StayA ==
    ASSUME IInv, InType', PhaseA, count' = count, samples'["scenario_b"] = samples["scenario_b"],
           thread'["I_Task"] = "ready",
           thread'["Task_SB"] = thread["Task_SB"], pc'["Task_SB"] = pc["Task_SB"],
           A_Setup' \/ A_Run' \/ A_End'
    PROVE  IInv'
BY DEF IInv, PhaseA, Is

\* Scenario B goes on while the threads of scenario A stay dead.
LEMMA StayB ==
    ASSUME IInv, InType', PhaseB, count' = count, enabled' = enabled,
           samples'["scenario_a"] = samples["scenario_a"],
           thread'["I_Task"] = "ready", thread'["L_Task_SA"] = thread["L_Task_SA"],
           thread'["A_Task_SA"] = thread["A_Task_SA"],
           release' = release, gated' = gated,
           B_Setup' \/ B_Run' \/ B_Over'
    PROVE  IInv'
BY DEF IInv, PhaseB, A_Gone, A_Full, Twice

\* The ISR takes the marker or releases A_Task_SA.
LEMMA IsrStep == ASSUME IInv, InType', test_isr PROVE IInv'
<1>i. /\ InType /\ thread["I_Task"] = "ready" /\ count["test_sem"] = 0
      /\ Task = {"I_Task", "L_Task_SA", "A_Task_SA", "Task_SB"} /\ release \in Releases
  BY Threads DEF IInv, InType
<1>1. PhaseA /\ A_Run /\ events = {} /\ A_Raised
  BY IsRaised DEF test_isr
<1>2. /\ window = "scenario_a" /\ Begun /\ A_Waits /\ Is("L_Task_SA", "ready", "iterate")
      /\ pc["I_Task"] = "wait_sa" /\ enabled = TRUE /\ Is("Task_SB", "none", "wait_start")
  BY <1>1 DEF A_Raised, A_Run, PhaseA
<1>3. /\ pending' = FALSE /\ pc' = pc /\ window' = window /\ samples' = samples
      /\ enabled' = enabled /\ release' = release /\ gated' = gated
  BY DEF test_isr, build
<1>4. ASSUME release # "none"
      PROVE  /\ \A u \in Task : thread'[u] = IF u = "A_Task_SA" THEN "ready" ELSE thread[u]
             /\ events' = {} /\ count' = count /\ Is("A_Task_SA", WaitState, "stop")
  <2>1. Is("A_Task_SA", WaitState, "stop")
    BY <1>2, <1>4 DEF A_Waits
  <2>2. CASE release = "resume"
    <3>1. thread["A_Task_SA"] = "suspended" /\ Resume("A_Task_SA")
      BY <2>1, <2>2 DEF Is, WaitState, test_isr
    <3>2. QED  BY <1>1, <1>i, <2>1, <3>1, ThreadEffect
  <2>3. CASE release = "sem"
    <3>1. SemGive("test_sem") /\ \A u \in Task : thread[u] = "test_sem" <=> u = "A_Task_SA"
      BY <1>2, <1>i, <2>1, <2>3 DEF Is, WaitState, test_isr
    <3>2. QED  BY <1>1, <1>i, <2>1, <3>1, GiveEffect
  <2>4. CASE release = "event"
    <3>1. EventPost(A) /\ \A u \in Task : thread[u] = A <=> u = "A_Task_SA"
      BY <1>2, <1>i, <2>1, <2>4 DEF Is, WaitState, test_isr, A
    <3>2. QED  BY <1>1, <1>i, <2>1, <3>1, PostEffect
  <2>5. QED  BY <1>4, <1>i, <2>2, <2>3, <2>4 DEF Releases
<1>5. ASSUME release = "none"
      PROVE  thread' = thread /\ events' = {} /\ count' = count /\ stopped' = TRUE
  BY <1>1, <1>5 DEF test_isr, NoCall, kvars
<1>6. A_Released'
  BY <1>2, <1>3, <1>4, <1>5, <1>i DEF A_Released, A_Waits, Begun, Twice, Is
<1>7. A_Run'
  BY <1>2, <1>3, <1>4, <1>5, <1>6 DEF A_Run
<1>8. QED  BY <1>1, <1>2, <1>3, <1>4, <1>5, <1>7, <1>i, StayA

\* A_Task_SA waits, and counts the window in which it is released.
LEMMA AStep == ASSUME IInv, InType', A_Wait \/ A_Stop PROVE IInv'
<1>i. /\ InType /\ thread["I_Task"] = "ready" /\ count["test_sem"] = 0
      /\ Task = {"I_Task", "L_Task_SA", "A_Task_SA", "Task_SB"}
  BY Threads DEF IInv
<1>1. CASE A_Wait
  <2>1. /\ Is("A_Task_SA", "ready", "wait") /\ release' = release /\ gated' = gated
        /\ \A u \in Task : pc'[u] = IF u = "A_Task_SA" THEN "stop" ELSE pc[u]
    BY <1>1, <1>i, StepEffect DEF A_Wait, Is
  <2>2. /\ PhaseA /\ release # "none" /\ events = {}
        /\ \/ A_Setup /\ pc["I_Task"] = "create_l"
           \/ A_Run /\ A_Counted
    BY <2>1, ARuns DEF Is, A_Setup
  <2>3. /\ \A u \in Task : thread'[u] = IF u = "A_Task_SA" THEN WaitState ELSE thread[u]
        /\ events' = {} /\ count' = count
    <3>1. CASE release = "resume" /\ Suspend("A_Task_SA")
      BY <1>i, <2>2, <3>1, ThreadEffect DEF WaitState
    <3>2. CASE release = "sem" /\ SemTake("A_Task_SA", "test_sem")
      BY <1>i, <2>2, <3>2, TakeEffect DEF WaitState
    <3>3. CASE release = "event" /\ EventWait("A_Task_SA", A)
      BY <1>i, <2>2, <3>3, WaitEffect DEF WaitState
    <3>4. QED  BY <1>1, <3>1, <3>2, <3>3 DEF A_Wait
  <2>4. /\ window' = window /\ samples' = samples /\ enabled' = enabled /\ pending' = pending
        /\ stopped' = stopped
    BY <1>1 DEF A_Wait, irq
  <2>5. A_Waits'
    BY <1>i, <2>1, <2>2, <2>3 DEF A_Waits, Is, WaitState
  <2>6. CASE A_Setup /\ pc["I_Task"] = "create_l"
    <3>1. A_Setup'
      BY <1>i, <2>1, <2>3, <2>4, <2>5, <2>6 DEF A_Setup, Idle, Is
    <3>2. QED  BY <1>i, <2>1, <2>2, <2>3, <2>4, <3>1, StayA
  <2>7. CASE A_Run /\ A_Counted
    <3>1. A_Counted'
      BY <1>i, <2>1, <2>3, <2>4, <2>5, <2>7 DEF A_Counted, Idle, Twice, Is
    <3>2. A_Run'
      BY <1>i, <2>1, <2>3, <2>4, <2>7, <3>1 DEF A_Run
    <3>3. QED  BY <1>i, <2>1, <2>2, <2>3, <2>4, <3>2, StayA
  <2>8. QED  BY <2>2, <2>6, <2>7
<1>2. CASE A_Stop
  <2>1. /\ Is("A_Task_SA", "ready", "stop") /\ release' = release /\ gated' = gated
        /\ \A u \in Task : pc'[u] = IF u = "A_Task_SA" THEN "wait" ELSE pc[u]
    BY <1>2, <1>i, StepEffect DEF A_Stop, Is
  <2>2. /\ PhaseA /\ release # "none" /\ events = {} /\ A_Run /\ A_Released
    BY <2>1, ARuns DEF Is
  <2>3. /\ Begun /\ window = "scenario_a" /\ pending = FALSE /\ Is("L_Task_SA", "ready", "iterate")
        /\ pc["I_Task"] = "wait_sa" /\ enabled = TRUE
    BY <2>2 DEF A_Released, A_Run, A_Over, Idle
  <2>4. /\ samples'["scenario_a"] = samples["scenario_a"] + 1
        /\ samples'["scenario_b"] = samples["scenario_b"]
        /\ window' = "closed"
    BY <1>2, <1>i, <2>3 DEF A_Stop, Iterate, InType, Series
  <2>5. /\ thread' = thread /\ events' = {} /\ count' = count /\ stopped' = TRUE
        /\ enabled' = enabled /\ pending' = FALSE
    BY <1>2, <2>2, <2>3 DEF A_Stop, NoCall, kvars, irq
  <2>6. /\ samples'["scenario_a"] \in 1..MEASUREMENT_COUNT
        /\ Twice => samples'["scenario_a"] % 2 = 1
    <3>1. samples["scenario_a"] \in Nat
      BY <1>i DEF InType, Series
    <3>2. QED  BY <2>3, <2>4, <3>1, Parity, CountAssumption DEF Begun
  <2>7. A_Counted'
    BY <1>i, <2>1, <2>2, <2>3, <2>4, <2>5, <2>6 DEF A_Counted, Idle, Twice, Is
  <2>8. A_Run'
    BY <1>i, <2>1, <2>3, <2>5, <2>7 DEF A_Run
  <2>9. QED  BY <1>i, <2>1, <2>2, <2>4, <2>5, <2>8, StayA
<1>3. QED  BY <1>1, <1>2

\* The end of a window: the next one, or the series is complete.  Where both
\* threads count, an odd MEASUREMENT_COUNT is passed by one.
LEMMA LastCount ==
    ASSUME InType, samples["scenario_a"] \in 1..MEASUREMENT_COUNT,
           Twice => samples["scenario_a"] % 2 = 1,
           samples'["scenario_a"] = samples["scenario_a"] + (IF Twice THEN 1 ELSE 0),
           release' = release, gated' = gated
    PROVE  IF samples'["scenario_a"] >= MEASUREMENT_COUNT THEN A_Full' ELSE Begun'
<1> DEFINE n == samples["scenario_a"]
           m == samples'["scenario_a"]
<1>0. n \in Nat /\ MEASUREMENT_COUNT \in Nat \ {0} /\ Twice' = Twice
  BY CountAssumption DEF InType, Series, Twice
<1>1. n \in 1..MEASUREMENT_COUNT /\ (Twice => n % 2 = 1) /\ m = n + (IF Twice THEN 1 ELSE 0)
  OBVIOUS
<1>2. (IF Twice THEN m % 2 = 0 /\ m = n + 1 ELSE m = n) /\ m \in Nat
  BY <1>0, <1>1, Parity
<1>3. CASE m >= MEASUREMENT_COUNT
  <2>1. CASE Twice
    <3>1. m = MEASUREMENT_COUNT \/ (m = MEASUREMENT_COUNT + 1 /\ n = MEASUREMENT_COUNT)
      BY <1>0, <1>1, <1>2, <1>3, <2>1
    <3>2. m = MEASUREMENT_COUNT + (MEASUREMENT_COUNT % 2)
      BY <1>0, <1>1, <1>2, <2>1, <3>1
    <3>3. QED  BY <1>0, <1>3, <2>1, <3>2 DEF A_Full
  <2>2. CASE ~ Twice
    BY <1>0, <1>1, <1>2, <1>3, <2>2 DEF A_Full
  <2>3. QED  BY <2>1, <2>2
<1>4. CASE ~ m >= MEASUREMENT_COUNT
  <2>1. m < MEASUREMENT_COUNT
    BY <1>0, <1>2, <1>4
  <2>2. QED  BY <1>0, <1>2, <1>4, <2>1 DEF Begun
<1>5. QED  BY <1>3, <1>4

\* L_Task_SA raises the interrupt, and counts when it runs again.
LEMMA LStep ==
    ASSUME IInv, InType', ~ Taken,
           \/ L_WaitStart \/ L_Trigger \/ L_Iterate
           \/ PostDone("L_Task_SA") \/ SuspendSelf("L_Task_SA")
    PROVE  IInv'
<1>i. /\ InType /\ thread["I_Task"] = "ready" /\ count["test_sem"] = 0
      /\ Task = {"I_Task", "L_Task_SA", "A_Task_SA", "Task_SB"}
  BY Threads DEF IInv
<1>s. ASSUME NEW l, NEW m, Step("L_Task_SA", l, m)
      PROVE  /\ Is("L_Task_SA", "ready", l) /\ release' = release /\ gated' = gated
             /\ \A u \in Task : pc'[u] = IF u = "L_Task_SA" THEN m ELSE pc[u]
             /\ thread["A_Task_SA"] # "ready"
  BY <1>s, <1>i, StepEffect, Threads DEF Is
<1>w. A_Waits /\ thread'["A_Task_SA"] = thread["A_Task_SA"] /\ pc'["A_Task_SA"] = pc["A_Task_SA"]
      /\ release' = release => A_Waits'
  BY DEF A_Waits, WaitState, Is
<1>1. CASE L_WaitStart
  <2>1. /\ release' = release /\ gated' = gated
        /\ \A u \in Task : pc'[u] = IF u = "L_Task_SA" THEN "trigger" ELSE pc[u]
        /\ PhaseA /\ A_Setup /\ pc["I_Task"] = "post_start_sa"
    BY <1>1, <1>s, LRuns DEF L_WaitStart, Is
  <2>2. /\ \A u \in Task : thread'[u] = IF u = "L_Task_SA" THEN START ELSE thread[u]
        /\ events' = {} /\ count' = count
    BY <1>1, <1>i, <2>1, WaitEffect DEF L_WaitStart, A_Setup
  <2>3. /\ window' = window /\ samples' = samples /\ enabled' = enabled /\ pending' = pending
    BY <1>1 DEF L_WaitStart, irq
  <2>4. A_Waits'
    BY <1>i, <1>w, <2>1, <2>2 DEF A_Setup
  <2>5. A_Setup'
    BY <1>i, <2>1, <2>2, <2>3, <2>4 DEF A_Setup, Idle, Is
  <2>6. QED  BY <1>i, <2>1, <2>2, <2>3, <2>5, StayA
<1>2. CASE L_Trigger
  <2>1. /\ release' = release /\ gated' = gated
        /\ \A u \in Task : pc'[u] = IF u = "L_Task_SA" THEN "iterate" ELSE pc[u]
        /\ PhaseA /\ A_Run /\ events = {} /\ A_Trigger
    BY <1>2, <1>s, LRuns DEF L_Trigger, Is
  <2>2. pc["I_Task"] = "wait_sa" /\ enabled = TRUE
    BY <2>1 DEF A_Run
  <2>3. /\ thread' = thread /\ events' = {} /\ count' = count /\ samples' = samples
        /\ enabled' = enabled /\ pending' = TRUE /\ window' = "scenario_a"
    BY <1>2, <2>1 DEF L_Trigger, NoCall, kvars, OpenWindow
  <2>4. A_Raised'
    BY <1>i, <1>w, <2>1, <2>3 DEF A_Trigger, A_Raised, Begun, Twice, Is
  <2>5. A_Run'
    BY <1>i, <2>1, <2>2, <2>3, <2>4 DEF A_Run
  <2>6. QED  BY <1>i, <2>1, <2>3, <2>5, StayA
<1>3. CASE L_Iterate
  <2> DEFINE next == IF samples'["scenario_a"] >= MEASUREMENT_COUNT THEN "post_done" ELSE "trigger"
  <2>1. /\ release' = release /\ gated' = gated /\ Is("L_Task_SA", "ready", "iterate")
        /\ \A u \in Task : pc'[u] = IF u = "L_Task_SA" THEN next ELSE pc[u]
        /\ thread["A_Task_SA"] # "ready"
        /\ PhaseA /\ A_Run /\ events = {} /\ (A_Raised \/ A_Released \/ A_Counted)
    BY <1>3, <1>s, LRuns DEF L_Iterate, Is
  <2>2. pc["I_Task"] = "wait_sa" /\ enabled = TRUE /\ ~ A_Raised
    BY <2>1 DEF A_Run, A_Raised, Taken
  <2>3. /\ A_Waits /\ pending = FALSE
        /\ \/ release = "none" /\ Begun /\ window = "scenario_a"
           \/ A_Counted /\ window = "closed"
    BY <2>1, <2>2 DEF A_Released, A_Counted, Idle, Is
  <2>4. /\ thread' = thread /\ events' = {} /\ count' = count
        /\ enabled' = TRUE /\ pending' = FALSE
    BY <1>3, <2>1, <2>2, <2>3 DEF L_Iterate, NoCall, kvars, irq
  <2>5. /\ samples'["scenario_b"] = samples["scenario_b"] /\ window' = "closed"
        /\ samples'["scenario_a"] = IF gated /\ window # "scenario_a" THEN samples["scenario_a"]
                                    ELSE samples["scenario_a"] + 1
    BY <1>3, <1>i DEF L_Iterate, Iterate, InType, Series
  <2>6. IF samples'["scenario_a"] >= MEASUREMENT_COUNT THEN A_Full' ELSE Begun'
    <3>1. CASE release = "none" /\ Begun /\ window = "scenario_a"
      <4>1. ~ Twice /\ ~ Twice' /\ samples'["scenario_a"] = samples["scenario_a"] + 1
        BY <2>1, <2>5, <3>1 DEF Twice
      <4>2. samples["scenario_a"] \in Nat /\ samples["scenario_a"] < MEASUREMENT_COUNT
        BY <1>i, <3>1 DEF InType, Series, Begun
      <4>3. samples'["scenario_a"] >= MEASUREMENT_COUNT =>
              samples'["scenario_a"] = MEASUREMENT_COUNT + 0
        BY <4>1, <4>2, CountAssumption
      <4>4. samples'["scenario_a"] >= MEASUREMENT_COUNT \/ samples'["scenario_a"] < MEASUREMENT_COUNT
        BY <4>1, <4>2, CountAssumption
      <4>5. QED  BY <4>1, <4>3, <4>4 DEF A_Full, Begun
    <3>2. CASE A_Counted /\ window = "closed"
      <4>1. samples["scenario_a"] \in Nat /\ gated \in BOOLEAN
        BY <1>i DEF InType, Series
      <4>2. samples'["scenario_a"] = samples["scenario_a"] + (IF Twice THEN 1 ELSE 0)
        <5>1. CASE gated = TRUE
          BY <2>5, <3>2, <4>1, <5>1 DEF Twice
        <5>2. CASE gated = FALSE
          BY <2>5, <3>2, <4>1, <5>2 DEF Twice, A_Counted
        <5>3. QED  BY <4>1, <5>1, <5>2
      <4>3. QED  BY <1>i, <2>1, <3>2, <4>2, LastCount DEF A_Counted
    <3>3. QED  BY <2>3, <3>1, <3>2
  <2>7. A_Waits'
    BY <1>i, <1>w, <2>1, <2>3, <2>4
  <2>8. A_Trigger' \/ A_Over'
    BY <1>i, <2>1, <2>4, <2>5, <2>6, <2>7 DEF A_Trigger, A_Over, Idle, Is
  <2>9. A_Run'
    BY <1>i, <2>1, <2>2, <2>4, <2>8 DEF A_Run
  <2>10. QED  BY <1>i, <2>1, <2>4, <2>5, <2>9, StayA
<1>4. CASE PostDone("L_Task_SA") \/ SuspendSelf("L_Task_SA")
  <2>1. /\ release' = release /\ gated' = gated /\ PhaseA /\ A_Run /\ A_Over
        /\ thread["L_Task_SA"] = "ready"
    BY <1>4, <1>s, LRuns DEF PostDone, SuspendSelf, Is
  <2>2. Idle /\ A_Full /\ A_Waits /\ pc["I_Task"] = "wait_sa" /\ enabled = TRUE
        /\ Is("Task_SB", "none", "wait_start")
    BY <2>1 DEF A_Over, A_Run, PhaseA
  <2>3. /\ window' = window /\ samples' = samples /\ enabled' = enabled /\ pending' = pending
    BY <1>4 DEF PostDone, SuspendSelf, irq
  <2>4. /\ events' = {DONE} /\ count' = count
        /\ \A u \in Task \ {"L_Task_SA"} : thread'[u] = thread[u] /\ pc'[u] = pc[u]
        /\ Is("L_Task_SA", "ready", "suspend")' \/ Is("L_Task_SA", "suspended", "trigger")'
    <3>1. CASE PostDone("L_Task_SA")
      <4>1. /\ events = {} /\ \A u \in Task : pc'[u] = IF u = "L_Task_SA" THEN "suspend" ELSE pc[u]
        BY <3>1, <1>s, LRuns DEF PostDone, Is
      <4>2. \A u \in Task : thread[u] # DONE
        BY <1>i, <2>1, <2>2, Waits DEF Is, A_Waits, DONE, A
      <4>3. events' = {DONE} /\ count' = count /\ \A u \in Task : thread'[u] = thread[u]
        BY <1>i, <3>1, <4>1, <4>2, PostEffect DEF PostDone
      <4>4. QED  BY <1>i, <2>1, <4>1, <4>3 DEF Is
    <3>2. CASE SuspendSelf("L_Task_SA")
      <4>1. events = {DONE} /\ \A u \in Task : pc'[u] = IF u = "L_Task_SA" THEN "trigger" ELSE pc[u]
        BY <3>2, <1>s, LRuns DEF SuspendSelf, Is
      <4>2. /\ events' = events /\ count' = count
            /\ \A u \in Task : thread'[u] = IF u = "L_Task_SA" THEN "suspended" ELSE thread[u]
        BY <1>i, <3>2, ThreadEffect DEF SuspendSelf
      <4>3. QED  BY <1>i, <4>1, <4>2 DEF Is
    <3>3. QED  BY <1>4, <3>1, <3>2
  <2>5. A_Waits'
    BY <1>i, <1>w, <2>1, <2>2, <2>4
  <2>6. A_Over'
    BY <2>1, <2>2, <2>3, <2>4, <2>5 DEF A_Over, A_Full, Twice, Idle
  <2>7. A_Run'
    BY <1>i, <2>2, <2>3, <2>4, <2>6 DEF A_Run
  <2>8. QED  BY <1>i, <2>1, <2>3, <2>4, <2>7, StayA
<1>5. QED  BY <1>1, <1>2, <1>3, <1>4

\* Task_SB, with the interrupt disabled.
LEMMA SBStep ==
    ASSUME IInv, InType',
           \/ SB_WaitStart \/ SB_Trigger \/ SB_Iterate
           \/ PostDone("Task_SB") \/ SuspendSelf("Task_SB")
    PROVE  IInv'
<1>i. /\ InType /\ thread["I_Task"] = "ready" /\ count["test_sem"] = 0
      /\ Task = {"I_Task", "L_Task_SA", "A_Task_SA", "Task_SB"}
  BY Threads DEF IInv
<1>s. ASSUME NEW l, NEW m, Step("Task_SB", l, m)
      PROVE  /\ Is("Task_SB", "ready", l) /\ release' = release /\ gated' = gated
             /\ \A u \in Task : pc'[u] = IF u = "Task_SB" THEN m ELSE pc[u]
             /\ PhaseB
  <2>1. thread["Task_SB"] = "ready" /\ "Task_SB" \in Task
    BY <1>s, <1>i, StepEffect
  <2>2. PhaseB
    BY <2>1, SBRuns
  <2>3. QED  BY <1>s, <1>i, <2>1, <2>2, StepEffect DEF Is
<1>1. CASE SB_WaitStart
  <2>1. /\ release' = release /\ gated' = gated
        /\ \A u \in Task : pc'[u] = IF u = "Task_SB" THEN "trigger" ELSE pc[u]
        /\ PhaseB /\ B_Setup /\ pc["I_Task"] = "post_start_sb"
    BY <1>1, <1>s, SBRuns DEF SB_WaitStart, Is
  <2>2. /\ \A u \in Task : thread'[u] = IF u = "Task_SB" THEN START ELSE thread[u]
        /\ events' = {} /\ count' = count
    BY <1>1, <1>i, <2>1, WaitEffect DEF SB_WaitStart, B_Setup
  <2>3. /\ window' = window /\ samples' = samples /\ enabled' = enabled /\ pending' = pending
    BY <1>1 DEF SB_WaitStart, irq
  <2>4. B_Setup'
    BY <1>i, <2>1, <2>2, <2>3 DEF B_Setup, Idle, Is
  <2>5. QED  BY <1>i, <2>1, <2>2, <2>3, <2>4, StayB
<1>2. CASE SB_Trigger
  <2>1. /\ release' = release /\ gated' = gated /\ Is("Task_SB", "ready", "trigger")
        /\ \A u \in Task : pc'[u] = IF u = "Task_SB" THEN "iterate" ELSE pc[u]
        /\ PhaseB /\ B_Run
    BY <1>2, <1>s, SBRuns DEF SB_Trigger, Is
  <2>2. /\ thread' = thread /\ events' = events /\ count' = count /\ samples' = samples
        /\ enabled' = enabled /\ pending' = TRUE /\ window' = "scenario_b"
    BY <1>2, <2>1 DEF SB_Trigger, NoCall, kvars, OpenWindow
  <2>3. B_Run'
    BY <1>i, <2>1, <2>2 DEF B_Run, Is
  <2>4. QED  BY <1>i, <2>1, <2>2, <2>3, StayB
<1>3. CASE SB_Iterate
  <2> DEFINE next == IF samples'["scenario_b"] >= MEASUREMENT_COUNT THEN "post_done" ELSE "trigger"
  <2>1. /\ release' = release /\ gated' = gated /\ Is("Task_SB", "ready", "iterate")
        /\ \A u \in Task : pc'[u] = IF u = "Task_SB" THEN next ELSE pc[u]
        /\ PhaseB /\ B_Run /\ window = "scenario_b"
    BY <1>3, <1>s, SBRuns DEF SB_Iterate, Is
  <2>2. /\ thread' = thread /\ events' = events /\ count' = count
        /\ enabled' = enabled /\ pending' = FALSE /\ window' = "closed"
        /\ samples'["scenario_a"] = samples["scenario_a"]
        /\ samples'["scenario_b"] = samples["scenario_b"] + 1
    BY <1>3, <1>i, <2>1 DEF SB_Iterate, Iterate, NoCall, kvars, InType, Series
  <2>3. /\ pc["I_Task"] = "wait_sb" /\ events = {}
        /\ samples["scenario_b"] \in Nat /\ samples["scenario_b"] < MEASUREMENT_COUNT
    BY <1>i, <2>1 DEF B_Run, InType, Series
  <2>4. \/ next = "post_done" /\ samples'["scenario_b"] = MEASUREMENT_COUNT
        \/ next = "trigger" /\ samples'["scenario_b"] < MEASUREMENT_COUNT
    BY <2>2, <2>3, CountAssumption
  <2>5. B_Run' \/ B_Over'
    BY <1>i, <2>1, <2>2, <2>3, <2>4 DEF B_Run, B_Over, Idle, Is
  <2>6. QED  BY <1>i, <2>1, <2>2, <2>5, StayB
<1>4. CASE PostDone("Task_SB")
  <2>1. /\ release' = release /\ gated' = gated /\ Is("Task_SB", "ready", "post_done")
        /\ \A u \in Task : pc'[u] = IF u = "Task_SB" THEN "suspend" ELSE pc[u]
        /\ PhaseB /\ B_Over /\ events = {} /\ pc["I_Task"] = "wait_sb"
    BY <1>4, <1>s, SBRuns DEF PostDone, Is
  <2>2. /\ window' = window /\ samples' = samples /\ enabled' = enabled /\ pending' = pending
    BY <1>4 DEF PostDone, irq
  <2>3. \A u \in Task : thread[u] # DONE
    BY <1>i, <2>1 DEF PhaseB, A_Gone, DONE, Is
  <2>4. events' = {DONE} /\ count' = count /\ \A u \in Task : thread'[u] = thread[u]
    BY <1>i, <1>4, <2>1, <2>3, PostEffect DEF PostDone
  <2>5. B_Over'
    BY <1>i, <2>1, <2>2, <2>4 DEF B_Over, Idle, Is
  <2>6. QED  BY <1>i, <2>1, <2>2, <2>4, <2>5, StayB
<1>5. CASE SuspendSelf("Task_SB")
  <2>1. /\ release' = release /\ gated' = gated
        /\ \A u \in Task : pc'[u] = IF u = "Task_SB" THEN "trigger" ELSE pc[u]
        /\ PhaseB /\ B_Over /\ events = {DONE} /\ pc["I_Task"] = "wait_sb"
    BY <1>5, <1>s, SBRuns DEF SuspendSelf, Is
  <2>2. /\ window' = window /\ samples' = samples /\ enabled' = enabled /\ pending' = pending
    BY <1>5 DEF SuspendSelf, irq
  <2>3. /\ events' = events /\ count' = count
        /\ \A u \in Task : thread'[u] = IF u = "Task_SB" THEN "suspended" ELSE thread[u]
    BY <1>i, <1>5, ThreadEffect DEF SuspendSelf
  <2>4. B_Over'
    BY <1>i, <2>1, <2>2, <2>3 DEF B_Over, Idle, Is
  <2>5. QED  BY <1>i, <2>1, <2>2, <2>3, <2>4, StayB
<1>6. QED  BY <1>1, <1>2, <1>3, <1>4, <1>5

\* I_Task prepares scenario A and starts it.
LEMMA ControlStepSetup ==
    ASSUME IInv, InType', I_IrqEnable \/ I_CreateA \/ I_CreateL \/ I_PostStart("post_start_sa", "wait_sa")
    PROVE  IInv'
<1>i. /\ InType /\ thread["I_Task"] = "ready" /\ count["test_sem"] = 0
      /\ Task = {"I_Task", "L_Task_SA", "A_Task_SA", "Task_SB"}
  BY Threads DEF IInv
<1>s. ASSUME NEW l, NEW m, Step("I_Task", l, m)
      PROVE  /\ pc["I_Task"] = l /\ release' = release /\ gated' = gated
             /\ \A u \in Task : pc'[u] = IF u = "I_Task" THEN m ELSE pc[u]
             /\ thread["A_Task_SA"] # "ready" /\ thread["L_Task_SA"] # "ready"
  BY <1>s, <1>i, StepEffect, ControlEffect
<1>w. A_Waits /\ thread'["A_Task_SA"] = thread["A_Task_SA"] /\ pc'["A_Task_SA"] = pc["A_Task_SA"]
      /\ release' = release => A_Waits'
  BY DEF A_Waits, WaitState, Is
<1>p. pc["I_Task"] \in {"irq_enable", "create_a", "create_l", "post_start_sa"} =>
        /\ PhaseA /\ A_Setup /\ Idle /\ events = {} /\ samples["scenario_a"] = 0
  BY DEF IInv, PhaseA, PhaseB, A_Run, A_End, B_Setup, B_Run, B_Over, A_Setup
<1>1. CASE I_IrqEnable
  <2>1. /\ pc["I_Task"] = "irq_enable" /\ release' = release /\ gated' = gated
        /\ \A u \in Task : pc'[u] = IF u = "I_Task"
                                    THEN (IF release = "none" THEN "create_l" ELSE "create_a")
                                    ELSE pc[u]
    BY <1>1, <1>s DEF I_IrqEnable
  <2>2. /\ Is("A_Task_SA", "none", "wait") /\ Is("L_Task_SA", "none", "wait_start")
        /\ PhaseA /\ Idle /\ events = {} /\ samples["scenario_a"] = 0
    BY <1>p, <2>1 DEF A_Setup
  <2>3. /\ thread' = thread /\ events' = {} /\ count' = count /\ enabled' = TRUE
        /\ window' = window /\ samples' = samples /\ pending' = pending
    BY <1>1, <2>2 DEF I_IrqEnable, NoCall, kvars
  <2>4. A_Setup'
    BY <1>i, <2>1, <2>2, <2>3 DEF A_Setup, A_Waits, Idle, Is
  <2>5. QED  BY <1>i, <2>1, <2>2, <2>3, <2>4, StayA
<1>2. CASE I_CreateA \/ I_CreateL
  <2>1. PICK t \in {"A_Task_SA", "L_Task_SA"} :
          /\ pc["I_Task"] = IF t = "A_Task_SA" THEN "create_a" ELSE "create_l"
          /\ release' = release /\ gated' = gated
          /\ \A u \in Task : pc'[u] = IF u = "I_Task"
                                      THEN (IF t = "A_Task_SA" THEN "create_l" ELSE "post_start_sa")
                                      ELSE pc[u]
          /\ Create(t)
    BY <1>2, <1>s DEF I_CreateA, I_CreateL, I_Create
  <2>2. /\ window' = window /\ samples' = samples /\ enabled' = enabled /\ pending' = pending
    BY <1>2 DEF I_CreateA, I_CreateL, I_Create, Quiet, NoSample, Control, irq
  <2>3. PhaseA /\ A_Setup /\ Idle /\ events = {} /\ samples["scenario_a"] = 0
    BY <1>p, <2>1
  <2>4. /\ \A u \in Task : thread'[u] = IF u = t THEN "ready" ELSE thread[u]
        /\ events' = {} /\ count' = count
    BY <1>i, <2>1, <2>3, ThreadEffect
  <2>5. CASE t = "A_Task_SA"
    <3>1. /\ release # "none" /\ enabled = TRUE
          /\ Is("A_Task_SA", "none", "wait") /\ Is("L_Task_SA", "none", "wait_start")
      BY <2>1, <2>3, <2>5 DEF A_Setup
    <3>2. A_Setup'
      BY <1>i, <2>1, <2>2, <2>3, <2>4, <2>5, <3>1 DEF A_Setup, Idle, Is
    <3>3. QED  BY <1>i, <2>1, <2>2, <2>3, <2>4, <2>5, <3>2, StayA
  <2>6. CASE t = "L_Task_SA"
    <3>1. /\ enabled = TRUE /\ A_Waits /\ Is("L_Task_SA", "none", "wait_start")
      BY <1>2, <1>s, <2>1, <2>3, <2>6 DEF A_Setup, Is, I_CreateA, I_CreateL, I_Create
    <3>2. A_Waits'
      BY <1>i, <1>w, <2>1, <2>4, <2>6, <3>1
    <3>3. A_Setup'
      BY <1>i, <2>1, <2>2, <2>3, <2>4, <2>6, <3>1, <3>2 DEF A_Setup, Idle, Is
    <3>4. QED  BY <1>i, <2>1, <2>2, <2>3, <2>4, <2>6, <3>3, StayA
  <2>7. QED  BY <2>5, <2>6
<1>3. CASE I_PostStart("post_start_sa", "wait_sa")
  <2>1. /\ pc["I_Task"] = "post_start_sa" /\ release' = release /\ gated' = gated
        /\ \A u \in Task : pc'[u] = IF u = "I_Task" THEN "wait_sa" ELSE pc[u]
        /\ thread["L_Task_SA"] # "ready"
    BY <1>3, <1>s DEF I_PostStart
  <2>2. /\ PhaseA /\ Idle /\ events = {} /\ samples["scenario_a"] = 0 /\ enabled = TRUE
        /\ A_Waits /\ Is("L_Task_SA", START, "trigger") /\ Is("Task_SB", "none", "wait_start")
    BY <1>p, <2>1 DEF A_Setup, Is, PhaseA
  <2>3. /\ window' = window /\ samples' = samples /\ enabled' = enabled /\ pending' = pending
    BY <1>3 DEF I_PostStart, NoSample, Control, irq
  <2>4. thread["A_Task_SA"] # START
    BY <2>2, Waits DEF A_Waits, Is, START, A
  <2>5. /\ \A u \in Task : thread'[u] = IF u = "L_Task_SA" THEN "ready" ELSE thread[u]
        /\ events' = {} /\ count' = count
    BY <1>i, <1>3, <2>2, <2>4, PostEffect DEF I_PostStart, Is, START
  <2>6. A_Trigger'
    <3>1. Begun'
      BY <2>2, <2>3, CountAssumption DEF Begun
    <3>2. A_Waits'
      BY <1>i, <1>w, <2>1, <2>2, <2>5
    <3>3. QED  BY <1>i, <2>1, <2>2, <2>3, <2>5, <3>1, <3>2 DEF A_Trigger, Idle, Is
  <2>7. A_Run'
    BY <1>i, <2>1, <2>2, <2>3, <2>5, <2>6 DEF A_Run
  <2>8. QED  BY <1>i, <2>1, <2>2, <2>3, <2>5, <2>7, StayA
<1>4. QED  BY <1>1, <1>2, <1>3

\* I_Task waits for the end of scenario A, aborts its threads and disables the
\* interrupt.
LEMMA ControlStepEnd ==
    ASSUME IInv, InType', I_WaitDone("wait_sa", "abort_l") \/ I_AbortL \/ I_AbortA \/ I_IrqDisable
    PROVE  IInv'
<1>i. /\ InType /\ thread["I_Task"] = "ready" /\ count["test_sem"] = 0
      /\ Task = {"I_Task", "L_Task_SA", "A_Task_SA", "Task_SB"}
  BY Threads DEF IInv
<1>s. ASSUME NEW l, NEW m, Step("I_Task", l, m)
      PROVE  /\ pc["I_Task"] = l /\ release' = release /\ gated' = gated
             /\ \A u \in Task : pc'[u] = IF u = "I_Task" THEN m ELSE pc[u]
             /\ thread["A_Task_SA"] # "ready" /\ thread["L_Task_SA"] # "ready"
  BY <1>s, <1>i, StepEffect, ControlEffect
<1>w. A_Waits /\ thread'["A_Task_SA"] = thread["A_Task_SA"] /\ pc'["A_Task_SA"] = pc["A_Task_SA"]
      /\ release' = release => A_Waits'
  BY DEF A_Waits, WaitState, Is
<1>p. pc["I_Task"] \in {"wait_sa", "abort_l", "abort_a", "irq_disable"} =>
        /\ PhaseA /\ (pc["I_Task"] = "wait_sa" => A_Run)
        /\ pc["I_Task"] # "wait_sa" => A_End
  BY DEF IInv, PhaseA, PhaseB, A_Run, A_End, B_Setup, B_Run, B_Over, A_Setup
<1>1. CASE I_WaitDone("wait_sa", "abort_l")
  <2>1. /\ pc["I_Task"] = "wait_sa" /\ release' = release /\ gated' = gated
        /\ \A u \in Task : pc'[u] = IF u = "I_Task" THEN "abort_l" ELSE pc[u]
        /\ thread["L_Task_SA"] # "ready"
    BY <1>1, <1>s DEF I_WaitDone
  <2>2. PhaseA /\ A_Over /\ events = {DONE} /\ thread["L_Task_SA"] = "suspended" /\ enabled = TRUE
    BY <1>p, <2>1 DEF A_Run, A_Trigger, A_Raised, A_Released, A_Counted, A_Over, Is
  <2>3. /\ window' = window /\ samples' = samples /\ enabled' = enabled /\ pending' = pending
    BY <1>1 DEF I_WaitDone, NoSample, Control, irq
  <2>4. events' = {} /\ count' = count /\ \A u \in Task : thread'[u] = thread[u]
    BY <1>i, <1>1, <2>2, WaitEffect DEF I_WaitDone
  <2>5. A_Waits'
    BY <1>i, <1>w, <2>1, <2>2, <2>4 DEF A_Over
  <2>6. A_End'
    BY <1>i, <2>1, <2>2, <2>3, <2>4, <2>5 DEF A_Over, A_End, A_Full, Twice, Idle
  <2>7. QED  BY <1>i, <2>1, <2>2, <2>3, <2>4, <2>6, StayA
<1>2. CASE I_AbortL
  <2>1. /\ pc["I_Task"] = "abort_l" /\ release' = release /\ gated' = gated
        /\ \A u \in Task : pc'[u] = IF u = "I_Task"
                                    THEN (IF release = "none" THEN "irq_disable" ELSE "abort_a")
                                    ELSE pc[u]
        /\ Abort("L_Task_SA")
    BY <1>2, <1>s DEF I_AbortL, I_Abort
  <2>2. /\ PhaseA /\ Idle /\ A_Full /\ events = {} /\ enabled = TRUE /\ A_Waits
    BY <1>p, <2>1 DEF A_End
  <2>3. /\ window' = window /\ samples' = samples /\ enabled' = enabled /\ pending' = pending
    BY <1>2 DEF I_AbortL, I_Abort, Quiet, NoSample, Control, irq
  <2>4. /\ \A u \in Task : thread'[u] = IF u = "L_Task_SA" THEN "dead" ELSE thread[u]
        /\ events' = {} /\ count' = count
    BY <1>i, <2>1, <2>2, ThreadEffect
  <2>5. A_Waits'
    BY <1>i, <1>w, <2>1, <2>2, <2>4
  <2>6. release = "none" => A_Gone'
    BY <2>1, <2>5 DEF A_Waits, A_Gone, Is
  <2>7. A_End'
    BY <1>i, <2>1, <2>2, <2>3, <2>4, <2>5, <2>6 DEF A_End, A_Full, Twice, Idle
  <2>8. QED  BY <1>i, <2>1, <2>2, <2>3, <2>4, <2>7, StayA
<1>3. CASE I_AbortA
  <2>1. /\ pc["I_Task"] = "abort_a" /\ release' = release /\ gated' = gated
        /\ \A u \in Task : pc'[u] = IF u = "I_Task" THEN "irq_disable" ELSE pc[u]
        /\ Abort("A_Task_SA")
    BY <1>3, <1>s DEF I_AbortA, I_Abort
  <2>2. /\ PhaseA /\ Idle /\ A_Full /\ events = {} /\ enabled = TRUE /\ release # "none"
        /\ thread["L_Task_SA"] = "dead"
    BY <1>p, <2>1 DEF A_End
  <2>3. /\ window' = window /\ samples' = samples /\ enabled' = enabled /\ pending' = pending
    BY <1>3 DEF I_AbortA, I_Abort, Quiet, NoSample, Control, irq
  <2>4. /\ \A u \in Task : thread'[u] = IF u = "A_Task_SA" THEN "dead" ELSE thread[u]
        /\ events' = {} /\ count' = count
    BY <1>i, <2>1, <2>2, ThreadEffect
  <2>5. A_End'
    BY <1>i, <2>1, <2>2, <2>3, <2>4 DEF A_End, A_Gone, A_Full, Twice, Idle
  <2>6. QED  BY <1>i, <2>1, <2>2, <2>3, <2>4, <2>5, StayA
<1>4. CASE I_IrqDisable
  <2>1. /\ pc["I_Task"] = "irq_disable" /\ release' = release /\ gated' = gated
        /\ \A u \in Task : pc'[u] = IF u = "I_Task" THEN "create_sb" ELSE pc[u]
    BY <1>4, <1>s DEF I_IrqDisable
  <2>2. /\ PhaseA /\ Idle /\ A_Full /\ events = {} /\ A_Gone
        /\ thread["L_Task_SA"] = "dead"
        /\ Is("Task_SB", "none", "wait_start") /\ samples["scenario_b"] = 0
    BY <1>p, <2>1 DEF A_End, PhaseA
  <2>3. /\ window' = window /\ samples' = samples /\ enabled' = FALSE /\ pending' = FALSE
        /\ thread' = thread /\ events' = {} /\ count' = count
    BY <1>4, <2>2 DEF I_IrqDisable, NoCall, kvars
  <2>4. B_Setup'
    BY <1>i, <2>1, <2>2, <2>3 DEF B_Setup, Idle, Is
  <2>5. PhaseB'
    BY <2>1, <2>2, <2>3, <2>4 DEF PhaseB, A_Full, A_Gone, Twice
  <2>6. QED  BY <1>i, <2>3, <2>5 DEF IInv
<1>5. QED  BY <1>1, <1>2, <1>3, <1>4

\* I_Task creates, starts, waits for and aborts Task_SB.
LEMMA ControlStepB ==
    ASSUME IInv, InType',
           \/ I_CreateSB \/ I_PostStart("post_start_sb", "wait_sb")
           \/ I_WaitDone("wait_sb", "abort_sb") \/ I_AbortSB
           \/ (I_Signalize /\ Control)
    PROVE  IInv'
<1>i. /\ InType /\ thread["I_Task"] = "ready" /\ count["test_sem"] = 0
      /\ Task = {"I_Task", "L_Task_SA", "A_Task_SA", "Task_SB"}
  BY Threads DEF IInv
<1>s. ASSUME NEW l, NEW m, Step("I_Task", l, m)
      PROVE  /\ pc["I_Task"] = l /\ release' = release /\ gated' = gated
             /\ \A u \in Task : pc'[u] = IF u = "I_Task" THEN m ELSE pc[u]
             /\ thread["Task_SB"] # "ready"
  BY <1>s, <1>i, StepEffect, ControlEffect
<1>p. pc["I_Task"] \in {"create_sb", "post_start_sb", "wait_sb", "abort_sb", "signalize"} =>
        PhaseB /\ (B_Setup \/ B_Run \/ B_Over)
  BY DEF IInv, PhaseA, PhaseB, A_Run, A_End, A_Setup
<1>f. /\ window' = window /\ samples' = samples /\ enabled' = enabled /\ pending' = pending
  BY DEF I_CreateSB, I_PostStart, I_WaitDone, I_AbortSB, I_Signalize, I_Create, I_Abort, Quiet,
         NoSample, Control, irq
<1>1. CASE I_CreateSB
  <2>1. /\ pc["I_Task"] = "create_sb" /\ release' = release /\ gated' = gated
        /\ \A u \in Task : pc'[u] = IF u = "I_Task" THEN "post_start_sb" ELSE pc[u]
        /\ Create("Task_SB")
    BY <1>1, <1>s DEF I_CreateSB, I_Create
  <2>2. /\ PhaseB /\ B_Setup /\ events = {}
    BY <1>p, <2>1 DEF B_Setup, B_Run, B_Over
  <2>3. /\ \A u \in Task : thread'[u] = IF u = "Task_SB" THEN "ready" ELSE thread[u]
        /\ events' = {} /\ count' = count
    BY <1>i, <2>1, <2>2, ThreadEffect
  <2>4. B_Setup'
    BY <1>i, <1>f, <2>1, <2>2, <2>3 DEF B_Setup, Idle, Is
  <2>5. QED  BY <1>i, <1>f, <2>1, <2>2, <2>3, <2>4, StayB
<1>2. CASE I_PostStart("post_start_sb", "wait_sb")
  <2>1. /\ pc["I_Task"] = "post_start_sb" /\ release' = release /\ gated' = gated
        /\ \A u \in Task : pc'[u] = IF u = "I_Task" THEN "wait_sb" ELSE pc[u]
        /\ thread["Task_SB"] # "ready"
    BY <1>2, <1>s DEF I_PostStart
  <2>2. /\ PhaseB /\ B_Setup /\ events = {} /\ Is("Task_SB", START, "trigger")
        /\ Idle /\ samples["scenario_b"] = 0
    BY <1>p, <2>1 DEF B_Setup, B_Run, B_Over, Is
  <2>3. thread["A_Task_SA"] # START /\ thread["L_Task_SA"] # START
    BY <2>2 DEF PhaseB, A_Gone, START
  <2>4. /\ \A u \in Task : thread'[u] = IF u = "Task_SB" THEN "ready" ELSE thread[u]
        /\ events' = {} /\ count' = count
    BY <1>i, <1>2, <2>2, <2>3, PostEffect DEF I_PostStart, Is, START
  <2>5. B_Run'
    BY <1>i, <1>f, <2>1, <2>2, <2>4, CountAssumption DEF B_Run, Idle, Is
  <2>6. QED  BY <1>i, <1>f, <2>1, <2>2, <2>4, <2>5, StayB
<1>3. CASE I_WaitDone("wait_sb", "abort_sb")
  <2>1. /\ pc["I_Task"] = "wait_sb" /\ release' = release /\ gated' = gated
        /\ \A u \in Task : pc'[u] = IF u = "I_Task" THEN "abort_sb" ELSE pc[u]
        /\ thread["Task_SB"] # "ready"
    BY <1>3, <1>s DEF I_WaitDone
  <2>2. /\ PhaseB /\ B_Over /\ events = {DONE} /\ thread["Task_SB"] = "suspended"
    BY <1>p, <2>1 DEF B_Setup, B_Run, B_Over, Is
  <2>3. events' = {} /\ count' = count /\ \A u \in Task : thread'[u] = thread[u]
    BY <1>i, <1>3, <2>2, WaitEffect DEF I_WaitDone
  <2>4. B_Over'
    BY <1>i, <1>f, <2>1, <2>2, <2>3 DEF B_Over, Idle
  <2>5. QED  BY <1>i, <1>f, <2>1, <2>2, <2>3, <2>4, StayB
<1>4. CASE I_AbortSB
  <2>1. /\ pc["I_Task"] = "abort_sb" /\ release' = release /\ gated' = gated
        /\ \A u \in Task : pc'[u] = IF u = "I_Task" THEN "signalize" ELSE pc[u]
        /\ Abort("Task_SB")
    BY <1>4, <1>s DEF I_AbortSB, I_Abort
  <2>2. PhaseB /\ B_Over /\ events = {}
    BY <1>p, <2>1 DEF B_Setup, B_Run, B_Over
  <2>3. /\ \A u \in Task : thread'[u] = IF u = "Task_SB" THEN "dead" ELSE thread[u]
        /\ events' = {} /\ count' = count
    BY <1>i, <2>1, <2>2, ThreadEffect
  <2>4. B_Over'
    BY <1>i, <1>f, <2>1, <2>2, <2>3 DEF B_Over, Idle
  <2>5. QED  BY <1>i, <1>f, <2>1, <2>2, <2>3, <2>4, StayB
<1>5. CASE I_Signalize /\ Control
  <2>1. /\ pc["I_Task"] = "signalize" /\ release' = release /\ gated' = gated
        /\ \A u \in Task : pc'[u] = pc[u]
    BY <1>5, <1>i, StepEffect DEF I_Signalize
  <2>2. thread' = thread /\ events' = events /\ count' = count
    BY <1>5 DEF I_Signalize, NoCall, kvars
  <2>3. PhaseB /\ B_Over
    BY <1>p, <2>1 DEF B_Setup, B_Run
  <2>4. B_Over'
    BY <1>i, <1>f, <2>1, <2>2, <2>3 DEF B_Over, Idle, Is
  <2>5. QED  BY <1>i, <1>f, <2>1, <2>2, <2>3, <2>4, StayB
<1>6. QED  BY <1>1, <1>2, <1>3, <1>4, <1>5

\* The inductive invariant holds when main() has returned.
LEMMA IInvInit == Init => IInv
<1> SUFFICES ASSUME Init PROVE IInv
  OBVIOUS
<1>1. /\ thread \in [Task -> {"none", "ready"}] /\ pc \in [Task -> Labels]
      /\ Is("A_Task_SA", "none", "wait") /\ Is("L_Task_SA", "none", "wait_start")
      /\ Is("Task_SB", "none", "wait_start") /\ thread["I_Task"] = "ready"
      /\ pc["I_Task"] = "irq_enable"
  BY Threads DEF Init, Labels, Is
<1>2. InType
  BY <1>1 DEF Init, InType, Series
<1>3. A_Setup
  BY <1>1 DEF Init, A_Setup, Idle
<1>4. PhaseA
  BY <1>1, <1>3 DEF PhaseA, Init
<1>5. QED  BY <1>1, <1>2, <1>4 DEF Init, IInv

\* The inductive invariant is kept by every step.
LEMMA IInvStep == IInv /\ [Next]_vars => IInv'
<1> SUFFICES ASSUME IInv, [Next]_vars PROVE IInv'
  OBVIOUS
<1>1. InType'
  BY TypeStep DEF IInv
<1>2. CASE UNCHANGED vars
  <2>1. PhaseA => PhaseA'
    BY <1>2 DEF vars, PhaseA, A_Setup, A_Run, A_End, A_Trigger, A_Raised, A_Released, A_Counted,
                A_Over, A_Full, A_Gone, A_Waits, WaitState, Begun, Twice, Idle, Is
  <2>2. PhaseB => PhaseB'
    BY <1>2 DEF vars, PhaseB, B_Setup, B_Run, B_Over, A_Full, A_Gone, Twice, Idle, Is
  <2>3. QED  BY <1>1, <1>2, <2>1, <2>2 DEF IInv, vars
<1>3. QED
  BY <1>1, <1>2, IsrStep, AStep, LStep, SBStep, ControlStepSetup, ControlStepEnd, ControlStepB
  DEF Next, ThreadStep, ControlStep

\* The inductive invariant: where the threads and the interrupt are at each
\* label of I_Task.
THEOREM Invariance == Spec => []IInv
<1>1. QED  BY IInvInit, IInvStep, PTL DEF Spec

-----------------------------------------------------------------------------
\* The inductive invariant implies the type invariant.
LEMMA TypeHolds == IInv => TypeOK
<1> SUFFICES ASSUME IInv PROVE TypeOK
  OBVIOUS
<1>1. KernelTypeOK
  <2>1. events \subseteq {START, DONE, A}
    BY DEF IInv, PhaseA, PhaseB, A_Setup, A_Run, A_End, A_Over, B_Setup, B_Run, B_Over
  <2>2. QED  BY <2>1 DEF IInv, InType, KernelTypeOK, ThreadState
<1>2. samples["scenario_a"] \in
         0..(MEASUREMENT_COUNT + (IF gated \/ release = "none" THEN 0 ELSE MEASUREMENT_COUNT % 2))
  <2>0. /\ MEASUREMENT_COUNT \in Nat /\ MEASUREMENT_COUNT % 2 \in {0, 1}
        /\ samples["scenario_a"] \in Nat
        /\ gated \in BOOLEAN
    BY CountAssumption, Parity DEF IInv, InType, Series
  <2>1. \/ samples["scenario_a"] <= MEASUREMENT_COUNT
        \/ A_Full
    <3>1. PhaseB => A_Full
      BY DEF PhaseB
    <3>2. A_Setup => samples["scenario_a"] <= MEASUREMENT_COUNT
      BY <2>0 DEF A_Setup
    <3>3. A_End => A_Full
      BY DEF A_End
    <3>4. A_Run => \/ samples["scenario_a"] <= MEASUREMENT_COUNT
                   \/ A_Full
      BY <2>0 DEF A_Run, A_Trigger, A_Raised, A_Released, A_Counted, A_Over, Begun
    <3>5. QED  BY <3>1, <3>2, <3>3, <3>4 DEF IInv, PhaseA
  <2>2. A_Full => samples["scenario_a"] =
          MEASUREMENT_COUNT + (IF gated \/ release = "none" THEN 0 ELSE MEASUREMENT_COUNT % 2)
    BY <2>0 DEF A_Full, Twice
  <2>3. QED  BY <2>0, <2>1, <2>2
<1>3. samples["scenario_b"] \in 0..MEASUREMENT_COUNT
  <2>1. samples["scenario_b"] \in Nat /\ MEASUREMENT_COUNT \in Nat
    BY CountAssumption DEF IInv, InType, Series
  <2>2. samples["scenario_b"] <= MEASUREMENT_COUNT
    BY <2>1 DEF IInv, PhaseA, PhaseB, B_Setup, B_Run, B_Over
  <2>3. QED  BY <2>1, <2>2
<1>4. QED  BY <1>1, <1>2, <1>3 DEF TypeOK, IInv, InType, Series

\* The inductive invariant implies FreshMarkers.
LEMMA FreshHolds == IInv => FreshMarkers
<1> SUFFICES ASSUME IInv, Runs("L_Task_SA"), pc["L_Task_SA"] = "iterate", ~ Taken
             PROVE  /\ stopped
                    /\ window = IF release = "none" THEN "scenario_a" ELSE "closed"
  BY DEF FreshMarkers
<1>1. thread["L_Task_SA"] = "ready" /\ thread["A_Task_SA"] # "ready"
  BY Threads DEF Runs, Ready
<1>2. A_Run /\ (A_Raised \/ A_Released \/ A_Counted)
  BY <1>1, LRuns
<1>3. ~ A_Raised
  BY <1>2 DEF A_Run, A_Raised, Taken
<1>4. QED  BY <1>1, <1>2, <1>3 DEF A_Released, A_Counted, Idle, Is

\* The inductive invariant implies NoLostRelease.
LEMMA ReleaseHolds == IInv => NoLostRelease
<1> SUFFICES ASSUME IInv, Taken
             PROVE  /\ window = "scenario_a" /\ pc["L_Task_SA"] = "iterate"
                    /\ release = "resume" => thread["A_Task_SA"] = "suspended"
                    /\ release = "sem" => thread["A_Task_SA"] = "test_sem"
                    /\ release = "event" => thread["A_Task_SA"] = A
  BY DEF NoLostRelease
<1>1. A_Raised
  BY IsRaised
<1>2. QED  BY <1>1 DEF A_Raised, A_Waits, WaitState, Is

\* Every variable has its type; scenario A passes MEASUREMENT_COUNT by at most
\* one iteration, and only where two threads count and the number is odd.
THEOREM Types == Spec => []TypeOK
<1>1. QED  BY Invariance, TypeHolds, PTL

\* L_Task_SA feeds the series with the markers of its own window.
THEOREM Fresh == Spec => []FreshMarkers
<1>1. QED  BY Invariance, FreshHolds, PTL

\* Every interrupt finds the thread it releases in the wait that it ends.
THEOREM Released == Spec => []NoLostRelease
<1>1. QED  BY Invariance, ReleaseHolds, PTL
=============================================================================
