--------------------------- MODULE ItcAsyncProofs ---------------------------
(***************************************************************************)
(* Theorems about ItcAsync, for each of the six programs, every number of  *)
(* iterations and every number of message sizes.                           *)
(*                                                                         *)
(* The position of I_Task in Control says which scenario is measured, and  *)
(* the invariant gives the few positions that the threads of a scenario    *)
(* can be in.  Only two facts about the priorities are used: I_Task is the *)
(* least urgent thread, and in each direction the releaser is less urgent  *)
(* than the sender and the receiver.                                       *)
(***************************************************************************)
EXTENDS ItcAsync, SequenceTheorems, TLAPS

Gates == {"test_arm_sem", "test_recv_sem"}
Sems == Gates \cup {Object[s] : s \in Scenario}
Bits == {START[s] : s \in Scenario} \cup {DONE[s] : s \in Scenario}
Group(d) == {Sender[d], Receiver[d], Releaser[d]}

InType ==
    /\ thread \in [Task -> {"none", "ready", "suspended", "dead"} \cup Sems \cup Bits]
    /\ count \in [Sems -> Nat]
    /\ pc \in [Task -> Labels]
    /\ control \in 1..23
    /\ step \in Steps /\ active \in Steps /\ received \in Steps /\ armed \subseteq Steps
    /\ i \in 0..(MEASUREMENT_COUNT - 1)
    /\ samples \in [Scenario -> [Steps -> Nat]]
    /\ kind \in Kinds

Is(t, state, label) == thread[t] = state /\ pc[t] = label

\* How far a series has come: not begun, complete, or at the iteration that
\* the two loops have reached.
Zero(s) == \A n \in Steps : samples[s][n] = 0
Full(s) == \A n \in Steps : samples[s][n] = MEASUREMENT_COUNT
AtLoop(s) ==
    \A n \in Steps :
        samples[s][n] = IF n < step THEN MEASUREMENT_COUNT ELSE IF n = step THEN i ELSE 0

Closed == window = "closed"
AtStart == Closed /\ step = 0 /\ i = 0
NoCount == \A s \in Sems : count[s] = 0
Both == markers = <<"start", "stop">>

Unborn(d) ==
    /\ Is(Sender[d], "none", "wait_start") /\ Is(Receiver[d], "none", "take")
    /\ Is(Releaser[d], "none", "wait_start")
Dead(d) == \A t \in Group(d) : thread[t] = "dead"

-----------------------------------------------------------------------------
\* Scenario self

Self_Setup ==
    /\ AtStart /\ Zero("self") /\ events = {} /\ NoCount /\ markers = <<>>
    /\ \/ control = 1 /\ Is("T_Self", "none", "wait_start")
       \/ control = 2 /\ (Is("T_Self", "ready", "wait_start") \/ Is("T_Self", START["self"], "put"))

\* T_Self is in its loop, with the message in the object between put and get.
Self_Loop ==
    /\ control = 3 /\ AtLoop("self") /\ events = {}
    /\ \/ Is("T_Self", "ready", "put") /\ Closed /\ NoCount /\ markers \in {<<>>, <<"start", "stop">>}
       \/ /\ Is("T_Self", "ready", "get") /\ window = "self" /\ markers = <<"start">>
          /\ \A s \in Sems : count[s] = IF s = Object["self"] THEN 1 ELSE 0
       \/ Is("T_Self", "ready", "stop") /\ window = "self" /\ NoCount /\ markers = <<"start">>

Self_End ==
    /\ AtStart /\ Full("self") /\ NoCount /\ Both
    /\ \/ control = 3 /\ events = {} /\ Is("T_Self", "ready", "post_done")
       \/ control = 3 /\ events = {DONE["self"]} /\ Is("T_Self", "ready", "suspend")
       \/ control = 3 /\ events = {DONE["self"]} /\ Is("T_Self", "suspended", "suspend")
       \/ control = 4 /\ events = {} /\ thread["T_Self"] = "suspended"

SelfPhase ==
    /\ Unborn("up") /\ Unborn("down") /\ Zero("up") /\ Zero("down")
    /\ Self_Setup \/ Self_Loop \/ Self_End

-----------------------------------------------------------------------------
\* Scenarios up and down

\* The position of I_Task in Control when it creates the sender.
Base(d) == IF d = "up" THEN 5 ELSE 15

Setup(d) ==
    /\ AtStart /\ Zero(d) /\ events = {} /\ Both
    /\ \/ Unborn(d) /\ control \in (IF d = "up" THEN {5} ELSE {13, 14, 15})
       \/ /\ control = Base(d) + 1
          /\ Is(Sender[d], "ready", "wait_start") \/ Is(Sender[d], START[d], "take")
          /\ Is(Receiver[d], "none", "take") /\ Is(Releaser[d], "none", "wait_start")
       \/ /\ control = Base(d) + 2
          /\ Is(Sender[d], START[d], "take")
          /\ Is(Receiver[d], "ready", "take") \/ Is(Receiver[d], "test_recv_sem", "get")
          /\ Is(Releaser[d], "none", "wait_start")
       \/ /\ control = Base(d) + 3
          /\ Is(Sender[d], START[d], "take")
          /\ Is(Receiver[d], "test_recv_sem", "get")
          /\ Is(Releaser[d], "ready", "wait_start") \/ Is(Releaser[d], START[d], "give_recv")

\* The releaser is at the head of its loops; the sender gets to its gate first.
\* The size is set only at the head of the outer loop.
Rest(d) ==
    /\ Closed /\ Both /\ (i # 0 => active = step)
    /\ Is(Sender[d], "ready", "take") \/ Is(Sender[d], "test_arm_sem", "put")
    /\ Is(Receiver[d], "test_recv_sem", "get")
    /\ Is(Releaser[d], "ready", "give_recv")

\* The step is set.
Sized == active = step /\ (kind = "mailbox_async" => armed = {step})

\* The receiver is released, then waits on the object with the size of the step.
Released(d) ==
    /\ Closed /\ Both /\ Sized
    /\ Is(Sender[d], "test_arm_sem", "put") /\ Is(Releaser[d], "ready", "give_arm")
    /\ \/ Is(Receiver[d], "ready", "get")
       \/ Is(Receiver[d], Object[d], "stop") /\ received = step

Opened(d) ==
    /\ window = d /\ markers = <<>> /\ Sized /\ received = step
    /\ Is(Sender[d], "ready", "put") /\ Is(Receiver[d], Object[d], "stop")
    /\ Is(Releaser[d], "ready", "iterate")

\* The message is handed over; sender and receiver return to their gates, the
\* more urgent one first.
Sent(d) ==
    /\ window = d /\ received = step /\ active = step
    /\ Is(Sender[d], "ready", "take") \/ Is(Sender[d], "test_arm_sem", "put")
    /\ \/ markers = <<"start">> /\ Is(Receiver[d], "ready", "stop")
       \/ Both /\ Is(Receiver[d], "test_recv_sem", "get")
    /\ Is(Releaser[d], "ready", "iterate")

Loop(d) ==
    /\ control = Base(d) + 4 /\ AtLoop(d) /\ events = {}
    /\ Rest(d) \/ Released(d) \/ Opened(d) \/ Sent(d)

\* The series are complete; I_Task waits and aborts the three threads.
End(d) ==
    /\ AtStart /\ Full(d) /\ Both
    /\ \/ /\ control = Base(d) + 4
          /\ thread[Sender[d]] = "test_arm_sem" /\ thread[Receiver[d]] = "test_recv_sem"
          /\ \/ events = {} /\ Is(Releaser[d], "ready", "post_done")
             \/ events = {DONE[d]} /\ Is(Releaser[d], "ready", "suspend")
             \/ events = {DONE[d]} /\ Is(Releaser[d], "suspended", "suspend")
       \/ /\ control = Base(d) + 5 /\ events = {}
          /\ thread[Sender[d]] = "test_arm_sem" /\ thread[Receiver[d]] = "test_recv_sem"
          /\ thread[Releaser[d]] = "suspended"
       \/ /\ control = Base(d) + 6 /\ events = {}
          /\ thread[Sender[d]] = "dead" /\ thread[Receiver[d]] = "test_recv_sem"
          /\ thread[Releaser[d]] = "suspended"
       \/ /\ control = Base(d) + 7 /\ events = {}
          /\ thread[Sender[d]] = "dead" /\ thread[Receiver[d]] = "dead"
          /\ thread[Releaser[d]] = "suspended"
       \/ d = "down" /\ control = Base(d) + 8 /\ events = {} /\ Dead(d)

DirPhase(d) ==
    /\ thread["T_Self"] = "dead" /\ Full("self") /\ NoCount
    /\ d = "up" => Unborn("down") /\ Zero("down")
    /\ d = "down" => Dead("up") /\ Full("up")
    /\ Setup(d) \/ Loop(d) \/ End(d)

IInv ==
    /\ InType
    /\ thread["I_Task"] = "ready"
    /\ SelfPhase \/ \E d \in Dir : DirPhase(d)

-----------------------------------------------------------------------------
\* The names of the threads of the two directions are all different, and of
\* the priorities only this much matters.
LEMMA Names ==
    /\ Task = {"I_Task", "T_Self"} \cup Group("up") \cup Group("down")
    /\ \A d \in Dir :
          /\ Group(d) \subseteq Task
          /\ "I_Task" \notin Group(d) /\ "T_Self" \notin Group(d)
          /\ Sender[d] # Receiver[d] /\ Sender[d] # Releaser[d] /\ Receiver[d] # Releaser[d]
          /\ \A e \in Dir \ {d} : Group(d) \cap Group(e) = {}
          /\ ~ prio[Releaser[d]] <= prio[Sender[d]] /\ ~ prio[Releaser[d]] <= prio[Receiver[d]]
    /\ \A t \in Task : prio[t] \in Nat
    /\ \A t \in Task \ {"I_Task"} : ~ prio["I_Task"] <= prio[t]
BY DEF Task, prio, Group, Sender, Receiver, Releaser, Dir

\* The names of the objects and events are different from each other and from
\* the states of a thread.
LEMMA Objects ==
    /\ Gates \subseteq Sems /\ "up" \in Scenario /\ "down" \in Scenario /\ "self" \in Scenario
    /\ \A s \in Scenario :
          /\ START[s] \in Bits /\ DONE[s] \in Bits /\ START[s] # DONE[s]
          /\ Object[s] \in Sems /\ Object[s] \notin Gates
          /\ Object[s] \notin {"none", "ready", "suspended", "dead"}
          /\ START[s] \notin {"none", "ready", "suspended", "dead"} \cup Sems
          /\ DONE[s] \notin {"none", "ready", "suspended", "dead"} \cup Sems
          /\ \A r \in Scenario \ {s} :
                Object[r] # Object[s] /\ START[r] # START[s] /\ DONE[r] # DONE[s]
BY DEF Dir, START, DONE, Object, Bits, Sems, Gates, Scenario

\* The calls of I_Task, one by one.
LEMMA Calls ==
    /\ Len(Control) = 22
    /\ Control[1] = Call("create", "T_Self") /\ Control[2] = Call("post", START["self"])
    /\ Control[3] = Call("wait", DONE["self"]) /\ Control[4] = Call("abort", "T_Self")
    /\ Control[13] = Call("reset", "test_arm_sem") /\ Control[14] = Call("reset", "test_recv_sem")
    /\ \A d \in Dir :
          /\ Control[Base(d)] = Call("create", Sender[d])
          /\ Control[Base(d) + 1] = Call("create", Receiver[d])
          /\ Control[Base(d) + 2] = Call("create", Releaser[d])
          /\ Control[Base(d) + 3] = Call("post", START[d])
          /\ Control[Base(d) + 4] = Call("wait", DONE[d])
          /\ Control[Base(d) + 5] = Call("abort", Sender[d])
          /\ Control[Base(d) + 6] = Call("abort", Receiver[d])
          /\ Control[Base(d) + 7] = Call("abort", Releaser[d])
BY DEF Control, Phase, Call, Dir, Base

\* Every call of I_Task names an object of its kind.
LEMMA CallTypes ==
    \A k \in 1..22 :
        /\ Control[k].call \in {"create", "abort"} => Control[k].on \in Task
        /\ Control[k].call \in {"post", "wait"} => Control[k].on \in Bits
        /\ Control[k].call = "reset" => Control[k].on \in Gates
<1>0. "up" \in Dir /\ "down" \in Dir /\ Base("up") = 5 /\ Base("down") = 15
  BY DEF Dir, Base
<1>1. ASSUME NEW d \in Dir, NEW k \in Base(d)..(Base(d) + 7)
      PROVE  /\ Control[k].call \in {"create", "abort"} => Control[k].on \in Task
             /\ Control[k].call \in {"post", "wait"} => Control[k].on \in Bits
             /\ Control[k].call = "reset" => Control[k].on \in Gates
  <2>1. Base(d) \in Nat
    BY DEF Base
  <2>2. k - Base(d) \in 0..7 /\ k = Base(d) + (k - Base(d))
    BY <2>1
  <2>3. /\ Sender[d] \in Task /\ Receiver[d] \in Task /\ Releaser[d] \in Task
        /\ START[d] \in Bits /\ DONE[d] \in Bits
    BY Names, Objects DEF Group, Scenario
  <2>4. \/ k = Base(d) \/ k = Base(d) + 1 \/ k = Base(d) + 2 \/ k = Base(d) + 3
        \/ k = Base(d) + 4 \/ k = Base(d) + 5 \/ k = Base(d) + 6 \/ k = Base(d) + 7
    BY <2>1, <2>2
  <2>5. \/ \E t \in Task, c \in {"create", "abort"} : Control[k] = Call(c, t)
        \/ \E e \in Bits, c \in {"post", "wait"} : Control[k] = Call(c, e)
    BY <2>3, <2>4, Calls
  <2>6. \A t, c : Call(c, t).call = c /\ Call(c, t).on = t
    BY DEF Call
  <2>7. QED  BY <2>5, <2>6
<1>2. \A k \in {1, 2, 3, 4, 13, 14} :
          /\ Control[k].call \in {"create", "abort"} => Control[k].on \in Task
          /\ Control[k].call \in {"post", "wait"} => Control[k].on \in Bits
          /\ Control[k].call = "reset" => Control[k].on \in Gates
  BY Calls, Names, Objects DEF Call, Gates
<1>3. \A k \in 1..22 : k \in {1, 2, 3, 4, 13, 14} \/ k \in 5..12 \/ k \in 15..22
  OBVIOUS
<1>4. QED  BY <1>0, <1>1, <1>2, <1>3

\* What Append returns, from its elements.
LEMMA AppendIs ==
    ASSUME NEW S, NEW s \in Seq(S), NEW e \in S, NEW t \in Seq(S), Len(t) = Len(s) + 1,
           \A k \in 1..Len(s) : t[k] = s[k], t[Len(s) + 1] = e
    PROVE  Append(s, e) = t
<1>1. /\ Append(s, e) \in Seq(S) /\ Len(Append(s, e)) = Len(s) + 1
      /\ \A k \in 1..Len(s) : Append(s, e)[k] = s[k]
      /\ Append(s, e)[Len(s) + 1] = e
  BY AppendProperties
<1>2. Len(s) \in Nat
  OBVIOUS
<1>3. \A k \in 1..Len(t) : Append(s, e)[k] = t[k]
  BY <1>1, <1>2
<1>4. QED  BY <1>1, <1>3

\* The stop marker follows the start marker.
LEMMA StopMarker == Append(<<"start">>, "stop") = <<"start", "stop">>
<1> DEFINE s == <<"start">>
           t == <<"start", "stop">>
           S == {"start", "stop"}
<1>1. s \in Seq(S) /\ "stop" \in S /\ Len(s) = 1
  OBVIOUS
<1>2. t \in Seq(S) /\ Len(t) = 2 /\ t[1] = s[1] /\ t[2] = "stop"
  OBVIOUS
<1> HIDE DEF s, t, S
<1>3. \A k \in 1..Len(s) : t[k] = s[k]
  BY <1>1, <1>2
<1>4. Len(t) = Len(s) + 1 /\ t[Len(s) + 1] = "stop"
  BY <1>1, <1>2
<1>5. Append(s, "stop") = t
  BY <1>1, <1>2, <1>3, <1>4, AppendIs
<1>6. QED  BY <1>5 DEF s, t

-----------------------------------------------------------------------------
(***************************************************************************)
(* What Step and the kernel operations do, thread by thread.               *)
(***************************************************************************)
\* A step is taken by a thread that no ready thread precedes.
LEMMA StepEffect ==
    ASSUME InType, NEW t \in Task, NEW l, NEW m, Step(t, l, m)
    PROVE  /\ thread[t] = "ready" /\ pc[t] = l
           /\ \A u \in Task : thread[u] = "ready" => prio[t] <= prio[u]
           /\ \A u \in Task : pc'[u] = IF u = t THEN m ELSE pc[u]
           /\ control' = control /\ kind' = kind
BY DEF InType, Step, Runs, Ready

\* I_Task runs only when nothing else is ready.
LEMMA ControlEffect ==
    ASSUME InType, Runs("I_Task")
    PROVE  \A u \in Task : thread[u] = "ready" => u = "I_Task"
BY Names DEF InType, Runs, Ready

\* k_thread_create() makes one unborn thread ready.
LEMMA CreateEffect ==
    ASSUME InType, NEW t \in Task, Create(t)
    PROVE  /\ \A u \in Task : thread'[u] = IF u = t THEN "ready" ELSE thread[u]
           /\ events' = events /\ count' = count
BY DEF InType, Create

\* k_thread_abort() ends one thread.
LEMMA AbortEffect ==
    ASSUME InType, NEW t \in Task, Abort(t)
    PROVE  /\ \A u \in Task : thread'[u] = IF u = t THEN "dead" ELSE thread[u]
           /\ events' = events /\ count' = count
BY DEF InType, Abort

\* k_thread_suspend() suspends one thread.
LEMMA SuspendEffect ==
    ASSUME InType, NEW t \in Task, Suspend(t)
    PROVE  /\ \A u \in Task : thread'[u] = IF u = t THEN "suspended" ELSE thread[u]
           /\ events' = events /\ count' = count
BY DEF InType, Suspend

\* A receive from an empty object, or a closed gate, pends the caller.
LEMMA PendEffect ==
    ASSUME InType, NEW t \in Task, NEW s \in Sems, SemTake(t, s), count[s] = 0
    PROVE  /\ \A u \in Task : thread'[u] = IF u = t THEN s ELSE thread[u]
           /\ events' = events /\ count' = count
BY DEF InType, SemTake

\* A send to the only waiting receiver makes it ready and stores nothing.
LEMMA GiveEffect ==
    ASSUME InType, NEW t \in Task, NEW s \in Sems, SemGive(s),
           \A u \in Task : thread[u] = s <=> u = t
    PROVE  /\ \A u \in Task : thread'[u] = IF u = t THEN "ready" ELSE thread[u]
           /\ events' = events /\ count' = count
BY DEF InType, SemGive, IsHead, Waiters

\* A send without a receiver stores the message.
LEMMA StoreEffect ==
    ASSUME InType, NEW s \in Sems, SemGive(s), \A u \in Task : thread[u] # s, count[s] = 0
    PROVE  /\ thread' = thread /\ events' = events
           /\ \A r \in Sems : count'[r] = IF r = s THEN 1 ELSE count[r]
BY DEF InType, SemGive, IsHead, Waiters

\* A receive finds the stored message, whether it would wait or not.
LEMMA FetchEffect ==
    ASSUME InType, NEW t \in Task, NEW s \in Sems, SemTake(t, s) \/ SemTry(s), count[s] = 1
    PROVE  /\ thread' = thread /\ events' = events
           /\ \A r \in Sems : count'[r] = IF r = s THEN 0 ELSE count[r]
BY DEF InType, SemTake, SemTry

\* A reset of an empty object that nobody waits on changes nothing.
LEMMA ResetEffect ==
    ASSUME InType, NEW s \in Sems, SemReset(s), \A u \in Task : thread[u] # s, NoCount
    PROVE  /\ \A u \in Task : thread'[u] = thread[u]
           /\ events' = events /\ NoCount'
BY DEF InType, SemReset, NoCount

\* k_event_wait_safe() consumes the bit or pends the caller.
LEMMA WaitEffect ==
    ASSUME InType, NEW t \in Task, NEW e \in Bits, EventWait(t, e)
    PROVE  /\ \A u \in Task : thread'[u] = IF u = t /\ e \notin events THEN e ELSE thread[u]
           /\ events' = events \ {e} /\ count' = count
BY DEF InType, EventWait

\* k_event_post() wakes every waiter of the bit, or leaves it posted.
LEMMA PostEffect ==
    ASSUME InType, NEW e \in Bits, EventPost(e)
    PROVE  /\ \A u \in Task : thread'[u] = IF thread[u] = e THEN "ready" ELSE thread[u]
           /\ events' = IF \E u \in Task : thread[u] = e THEN events \ {e} ELSE events \cup {e}
           /\ count' = count
BY DEF InType, EventPost, Waiters

\* The kernel operations keep the kernel's state well typed.
LEMMA KernelTyping ==
    ASSUME InType, NEW t \in Task, NEW s \in Sems, NEW e \in Bits,
           \/ Create(t) \/ Abort(t) \/ Suspend(t)
           \/ SemTake(t, s) \/ SemTry(s) \/ SemGive(s) \/ SemReset(s)
           \/ EventWait(t, e) \/ EventPost(e) \/ NoCall
    PROVE  /\ thread' \in [Task -> {"none", "ready", "suspended", "dead"} \cup Sems \cup Bits]
           /\ count' \in [Sems -> Nat]
<1> USE DEF InType
<1>1. CASE Create(t)  BY <1>1 DEF Create
<1>2. CASE Abort(t)  BY <1>2 DEF Abort
<1>3. CASE Suspend(t)  BY <1>3 DEF Suspend
<1>4. CASE SemTake(t, s)  BY <1>4 DEF SemTake
<1>5. CASE SemTry(s)  BY <1>5 DEF SemTry
<1>6. CASE SemGive(s)  BY <1>6 DEF SemGive
<1>7. CASE SemReset(s)  BY <1>7 DEF SemReset
<1>8. CASE EventWait(t, e)  BY <1>8 DEF EventWait
<1>9. CASE EventPost(e)  BY <1>9 DEF EventPost
<1>10. CASE NoCall  BY <1>10 DEF NoCall, kvars
<1>11. QED  BY <1>1, <1>2, <1>3, <1>4, <1>5, <1>6, <1>7, <1>8, <1>9, <1>10

\* The end of a loop body goes to the next iteration, the next size or the end.
LEMMA IterationEffect ==
    ASSUME InType, NEW t, NEW l, NEW again, NEW done, NextIteration(t, l, again, done)
    PROVE  /\ \/ i + 1 < MEASUREMENT_COUNT /\ i' = i + 1 /\ step' = step /\ Step(t, l, again)
              \/ /\ i + 1 = MEASUREMENT_COUNT /\ step + 1 < MESSAGE_SIZE_STEPS
                 /\ i' = 0 /\ step' = step + 1 /\ Step(t, l, again)
              \/ /\ i + 1 = MEASUREMENT_COUNT /\ step + 1 = MESSAGE_SIZE_STEPS
                 /\ i' = 0 /\ step' = 0 /\ Step(t, l, done)
           /\ active' = active /\ armed' = armed /\ received' = received
           /\ i' \in 0..(MEASUREMENT_COUNT - 1) /\ step' \in Steps
<1>0. /\ MEASUREMENT_COUNT \in Nat \ {0} /\ MESSAGE_SIZE_STEPS \in Nat \ {0}
      /\ i \in 0..(MEASUREMENT_COUNT - 1) /\ step \in 0..(MESSAGE_SIZE_STEPS - 1)
  BY CountAssumption DEF InType, Steps
<1>1. \/ i + 1 < MEASUREMENT_COUNT /\ i' = i + 1 /\ step' = step /\ Step(t, l, again)
      \/ /\ i + 1 = MEASUREMENT_COUNT /\ step + 1 < MESSAGE_SIZE_STEPS
         /\ i' = 0 /\ step' = step + 1 /\ Step(t, l, again)
      \/ /\ i + 1 = MEASUREMENT_COUNT /\ step + 1 = MESSAGE_SIZE_STEPS
         /\ i' = 0 /\ step' = 0 /\ Step(t, l, done)
  BY <1>0 DEF NextIteration
<1>2. i' \in 0..(MEASUREMENT_COUNT - 1) /\ step' \in 0..(MESSAGE_SIZE_STEPS - 1)
  BY <1>0, <1>1
<1>3. QED  BY <1>1, <1>2 DEF NextIteration, Steps

\* One iteration of the series of the current size is counted.
LEMMA IterateEffect ==
    ASSUME InType, NEW s \in Scenario, Iterate(s)
    PROVE  /\ \A r \in Scenario, n \in Steps :
                 samples'[r][n] = IF r = s /\ n = step THEN samples[r][n] + 1 ELSE samples[r][n]
           /\ \A r \in Scenario \ {s} : samples'[r] = samples[r]
           /\ samples' \in [Scenario -> [Steps -> Nat]]
           /\ window' = "closed"
BY DEF InType, Iterate

\* A series advances with the loops, and is complete when they are.
LEMMA SeriesStep ==
    ASSUME InType, NEW t, NEW l, NEW again, NEW done, NEW s \in Scenario,
           NextIteration(t, l, again, done), Iterate(s), AtLoop(s)
    PROVE  \/ AtLoop(s)' /\ Step(t, l, again)
           \/ Full(s)' /\ step' = 0 /\ i' = 0 /\ Step(t, l, done)
<1>1. \A n \in Steps : samples'[s][n] = IF n = step THEN samples[s][n] + 1 ELSE samples[s][n]
  BY IterateEffect
<1>2. \A n \in Steps :
        samples[s][n] = IF n < step THEN MEASUREMENT_COUNT ELSE IF n = step THEN i ELSE 0
  BY DEF AtLoop
<1>i. /\ step \in Nat /\ i \in Nat /\ MEASUREMENT_COUNT \in Nat
      /\ MESSAGE_SIZE_STEPS \in Nat /\ \A n \in Steps : n \in 0..(MESSAGE_SIZE_STEPS - 1)
  BY CountAssumption DEF InType, Steps
<1>3. CASE i + 1 < MEASUREMENT_COUNT /\ i' = i + 1 /\ step' = step /\ Step(t, l, again)
  <2>1. ASSUME NEW n \in Steps
        PROVE  samples'[s][n] = IF n < step' THEN MEASUREMENT_COUNT ELSE IF n = step' THEN i' ELSE 0
    BY <1>i, <1>1, <1>2, <1>3
  <2>2. QED  BY <1>3, <2>1 DEF AtLoop
<1>4. CASE /\ i + 1 = MEASUREMENT_COUNT /\ step + 1 < MESSAGE_SIZE_STEPS
           /\ i' = 0 /\ step' = step + 1 /\ Step(t, l, again)
  <2>1. ASSUME NEW n \in Steps
        PROVE  samples'[s][n] = IF n < step' THEN MEASUREMENT_COUNT ELSE IF n = step' THEN i' ELSE 0
    BY <1>i, <1>1, <1>2, <1>4
  <2>2. QED  BY <1>4, <2>1 DEF AtLoop
<1>5. CASE /\ i + 1 = MEASUREMENT_COUNT /\ step + 1 = MESSAGE_SIZE_STEPS
           /\ i' = 0 /\ step' = 0 /\ Step(t, l, done)
  <2>1. ASSUME NEW n \in Steps PROVE samples'[s][n] = MEASUREMENT_COUNT
    <3>1. n < step \/ n = step
      BY <1>i, <1>5
    <3>2. QED  BY <1>i, <1>1, <1>2, <1>5, <3>1
  <2>2. QED  BY <1>5, <2>1 DEF Full
<1>6. QED  BY <1>3, <1>4, <1>5, IterationEffect

\* Every step keeps the state well typed.
LEMMA TypeStep == InType /\ [Next]_vars => InType'
<1> SUFFICES ASSUME InType, [Next]_vars PROVE InType'
  OBVIOUS
<1>0. /\ {"I_Task", "T_Self"} \subseteq Task
      /\ \A d \in Dir : Sender[d] \in Task /\ Receiver[d] \in Task /\ Releaser[d] \in Task
      /\ \A s \in Scenario : Object[s] \in Sems /\ START[s] \in Bits /\ DONE[s] \in Bits
      /\ Gates \subseteq Sems /\ Gates = {"test_arm_sem", "test_recv_sem"}
      /\ "self" \in Scenario /\ \A d \in Dir : d \in Scenario
      /\ 0 \in Steps
  BY Names, Objects, CountAssumption DEF Group, Scenario, Gates, Steps
<1>k. ASSUME NEW t \in Task, NEW s \in Sems, NEW e \in Bits,
             \/ Create(t) \/ Abort(t) \/ Suspend(t)
             \/ SemTake(t, s) \/ SemTry(s) \/ SemGive(s) \/ SemReset(s)
             \/ EventWait(t, e) \/ EventPost(e) \/ NoCall
      PROVE  /\ thread' \in [Task -> {"none", "ready", "suspended", "dead"} \cup Sems \cup Bits]
             /\ count' \in [Sems -> Nat]
  BY <1>k, KernelTyping
<1>s. ASSUME NEW t \in Task, NEW l, NEW m \in Labels, Step(t, l, m)
      PROVE  pc' \in [Task -> Labels] /\ control' \in 1..23 /\ kind' \in Kinds
  BY <1>s DEF Step, InType
<1>l. ASSUME loop' = loop
      PROVE  /\ step' \in Steps /\ active' \in Steps /\ received' \in Steps /\ armed' \subseteq Steps
             /\ i' \in 0..(MEASUREMENT_COUNT - 1)
  BY <1>l DEF loop, InType
<1>e. ASSUME SetStep
      PROVE  /\ step' \in Steps /\ active' \in Steps /\ received' \in Steps /\ armed' \subseteq Steps
             /\ i' \in 0..(MEASUREMENT_COUNT - 1)
  BY <1>e DEF SetStep, InType
<1>n. ASSUME NEW t \in Task, NEW l, NEW again \in Labels, NEW done \in Labels,
             NEW s \in Scenario, NextIteration(t, l, again, done), Iterate(s)
      PROVE  /\ pc' \in [Task -> Labels] /\ control' \in 1..23 /\ kind' \in Kinds
             /\ step' \in Steps /\ active' \in Steps /\ received' \in Steps /\ armed' \subseteq Steps
             /\ i' \in 0..(MEASUREMENT_COUNT - 1)
             /\ samples' \in [Scenario -> [Steps -> Nat]]
  <2>1. i' \in 0..(MEASUREMENT_COUNT - 1) /\ step' \in Steps
    BY <1>n, IterationEffect
  <2>2. active' = active /\ armed' = armed /\ received' = received
    BY <1>n, IterationEffect
  <2>3. \E m \in Labels : Step(t, l, m)
    BY <1>n, IterationEffect
  <2>4. samples' \in [Scenario -> [Steps -> Nat]]
    BY <1>n, IterateEffect
  <2>5. pc' \in [Task -> Labels] /\ control' \in 1..23 /\ kind' \in Kinds
    BY <2>3, <1>s
  <2>6. QED  BY <2>1, <2>2, <2>4, <2>5 DEF InType
<1>c. ASSUME NEW c \in {"create", "post", "wait", "abort", "reset"}, I_Call(c)
      PROVE  /\ control \in 1..22 /\ Control[control].call = c
             /\ pc' \in [Task -> Labels] /\ control' \in 1..23 /\ kind' \in Kinds
             /\ step' \in Steps /\ received' \in Steps
             /\ i' \in 0..(MEASUREMENT_COUNT - 1)
             /\ samples' \in [Scenario -> [Steps -> Nat]]
  BY <1>c, Calls DEF I_Call, measured, InType
<1>a. ASSUME UNCHANGED <<active, armed>> \/ \E t : Rearm(t)
      PROVE  active' \in Steps /\ armed' \subseteq Steps
  BY <1>a, <1>0 DEF Rearm, InType
<1>1. CASE Self_WaitStart
  BY <1>1, <1>0, <1>k, <1>s, <1>l DEF Self_WaitStart, InType, Labels, measured
<1>2. CASE Self_Put
  BY <1>2, <1>0, <1>k, <1>s, <1>l, <1>e DEF Self_Put, InType, Labels
<1>3. CASE Self_Get
  BY <1>3, <1>0, <1>k, <1>s DEF Self_Get, InType, Labels, measured, Match
<1>4. CASE Self_Stop
  BY <1>4, <1>0, <1>k, <1>n DEF Self_Stop, InType, Labels
<1>5. CASE Self_PostDone
  BY <1>5, <1>0, <1>k, <1>s, <1>l DEF Self_PostDone, InType, Labels, measured
<1>6. CASE Self_Suspend
  BY <1>6, <1>0, <1>k, <1>s, <1>l DEF Self_Suspend, InType, Labels, measured
<1>7. ASSUME NEW d \in Dir,
             \/ Send_WaitStart(d) \/ Send_Take(d) \/ Recv_Take(d)
             \/ Arm_WaitStart(d) \/ Arm_PostDone(d) \/ Arm_Suspend(d)
      PROVE  InType'
  BY <1>7, <1>0, <1>k, <1>s, <1>l
  DEF Send_WaitStart, Send_Take, Recv_Take, Arm_WaitStart, Arm_PostDone, Arm_Suspend,
      InType, Labels, measured
<1>8. ASSUME NEW d \in Dir, Send_Put(d) PROVE InType'
  BY <1>8, <1>0, <1>k, <1>s DEF Send_Put, InType, Labels, Match
<1>9. ASSUME NEW d \in Dir, Recv_Get(d) PROVE InType'
  BY <1>9, <1>0, <1>k, <1>s DEF Recv_Get, InType, Labels, Match, measured
<1>10. ASSUME NEW d \in Dir, Recv_Stop(d) PROVE InType'
  BY <1>10, <1>0, <1>k, <1>s, <1>l DEF Recv_Stop, InType, Labels
<1>11. ASSUME NEW d \in Dir, Arm_GiveRecv(d) PROVE InType'
  BY <1>11, <1>0, <1>k, <1>s, <1>e DEF Arm_GiveRecv, InType, Labels, measured
<1>12. ASSUME NEW d \in Dir, Arm_GiveArm(d) PROVE InType'
  BY <1>12, <1>0, <1>k, <1>s, <1>l DEF Arm_GiveArm, InType, Labels
<1>13. ASSUME NEW d \in Dir, Arm_Iterate(d) PROVE InType'
  BY <1>13, <1>0, <1>k, <1>n DEF Arm_Iterate, InType, Labels
<1>14. CASE I_Create
  BY <1>14, <1>0, <1>k, <1>c, <1>a, CallTypes DEF I_Create, InType
<1>15. CASE I_Post
  BY <1>15, <1>0, <1>k, <1>c, <1>a, CallTypes DEF I_Post, InType
<1>16. CASE I_Wait
  BY <1>16, <1>0, <1>k, <1>c, <1>a, CallTypes DEF I_Wait, InType
<1>17. CASE I_Abort
  BY <1>17, <1>0, <1>k, <1>c, <1>a, CallTypes DEF I_Abort, InType
<1>18. CASE I_Reset
  BY <1>18, <1>0, <1>k, <1>c, <1>a, CallTypes DEF I_Reset, InType
<1>19. CASE UNCHANGED vars
  BY <1>19 DEF vars, InType
<1>20. I_Signalize => UNCHANGED vars
  BY DEF I_Signalize
<1>21. QED
  BY <1>1, <1>2, <1>3, <1>4, <1>5, <1>6, <1>7, <1>8, <1>9, <1>10, <1>11, <1>12, <1>13,
     <1>14, <1>15, <1>16, <1>17, <1>18, <1>19, <1>20 DEF Next

-----------------------------------------------------------------------------
(***************************************************************************)
(* Where the scenario is when each thread runs at each label.              *)
(***************************************************************************)
\* T_Self is ready only in scenario self.
LEMMA SelfRuns ==
    ASSUME IInv, thread["T_Self"] = "ready"
    PROVE  /\ SelfPhase
           /\ pc["T_Self"] = "wait_start" => Self_Setup /\ control = 2
           /\ pc["T_Self"] \in {"put", "get", "stop"} => Self_Loop
           /\ pc["T_Self"] \in {"post_done", "suspend"} => Self_End /\ control = 3
<1>1. SelfPhase
  BY DEF IInv, DirPhase
<1>2. Self_Setup => control = 2 /\ pc["T_Self"] = "wait_start"
  BY Objects DEF Self_Setup, Is
<1>3. Self_Loop => pc["T_Self"] \in {"put", "get", "stop"}
  BY DEF Self_Loop, Is
<1>4. Self_End => control = 3 /\ pc["T_Self"] \in {"post_done", "suspend"}
  BY DEF Self_End, Is
<1>5. QED  BY <1>1, <1>2, <1>3, <1>4 DEF SelfPhase

\* A thread of a direction is ready only in its scenario.
LEMMA DirRuns ==
    ASSUME IInv, NEW d \in Dir, NEW t \in Group(d), thread[t] = "ready"
    PROVE  DirPhase(d)
<1>1. ~ SelfPhase
  BY DEF SelfPhase, Unborn, Is, Group, Dir
<1>2. ASSUME NEW e \in Dir, DirPhase(e) PROVE e = d
  BY <1>2 DEF DirPhase, Unborn, Dead, Is, Group, Dir
<1>3. QED  BY <1>1, <1>2 DEF IInv

\* The sender waits for the start, then for its gate, then sends.
LEMMA SendRuns ==
    ASSUME IInv, NEW d \in Dir, thread[Sender[d]] = "ready"
    PROVE  /\ DirPhase(d)
           /\ pc[Sender[d]] = "wait_start" => Setup(d) /\ control = Base(d) + 1
           /\ pc[Sender[d]] = "take" => Loop(d) /\ (Rest(d) \/ Sent(d))
           /\ pc[Sender[d]] = "put" => Loop(d) /\ Opened(d)
<1>0. "ready" # START[d] /\ "ready" # "test_arm_sem"
  BY Objects DEF Scenario
<1>1. DirPhase(d)
  BY DirRuns DEF Group
<1>2. Setup(d) => control = Base(d) + 1 /\ pc[Sender[d]] = "wait_start"
  BY <1>0 DEF Setup, Unborn, Is
<1>3. Loop(d) => \/ (Rest(d) \/ Sent(d)) /\ pc[Sender[d]] = "take"
                 \/ Opened(d) /\ pc[Sender[d]] = "put"
  BY <1>0 DEF Loop, Rest, Released, Opened, Sent, Is
<1>4. ~ End(d)
  BY <1>0 DEF End, Dead, Group, Is
<1>5. Setup(d) \/ Loop(d)
  BY <1>1, <1>4 DEF DirPhase
<1>6. QED  BY <1>1, <1>2, <1>3, <1>5

\* The receiver waits for its gate, then on the object.
LEMMA RecvRuns ==
    ASSUME IInv, NEW d \in Dir, thread[Receiver[d]] = "ready"
    PROVE  /\ DirPhase(d)
           /\ pc[Receiver[d]] = "take" => Setup(d) /\ control = Base(d) + 2
           /\ pc[Receiver[d]] = "get" => Loop(d) /\ Released(d)
           /\ pc[Receiver[d]] = "stop" => Loop(d) /\ Sent(d) /\ markers = <<"start">>
<1>0. "ready" # Object[d] /\ "ready" # "test_recv_sem"
  BY Objects DEF Scenario
<1>1. DirPhase(d)
  BY DirRuns DEF Group
<1>2. Setup(d) => control = Base(d) + 2 /\ pc[Receiver[d]] = "take"
  BY <1>0 DEF Setup, Unborn, Is
<1>3. Loop(d) => \/ Released(d) /\ pc[Receiver[d]] = "get"
                 \/ Sent(d) /\ pc[Receiver[d]] = "stop" /\ markers = <<"start">>
  BY <1>0 DEF Loop, Rest, Released, Opened, Sent, Is
<1>4. ~ End(d)
  BY <1>0 DEF End, Dead, Group, Is
<1>5. Setup(d) \/ Loop(d)
  BY <1>1, <1>4 DEF DirPhase
<1>6. QED  BY <1>1, <1>2, <1>3, <1>5

\* The releaser runs only when the sender and the receiver are both blocked.
LEMMA ArmRuns ==
    ASSUME IInv, NEW d \in Dir, thread[Releaser[d]] = "ready",
           \A u \in Task : thread[u] = "ready" => prio[Releaser[d]] <= prio[u]
    PROVE  /\ DirPhase(d)
           /\ pc[Releaser[d]] = "wait_start" => Setup(d) /\ control = Base(d) + 3
           /\ pc[Releaser[d]] = "give_recv" =>
                 Loop(d) /\ Rest(d) /\ Is(Sender[d], "test_arm_sem", "put")
           /\ pc[Releaser[d]] = "give_arm" =>
                 Loop(d) /\ Released(d) /\ Is(Receiver[d], Object[d], "stop")
           /\ pc[Releaser[d]] = "iterate" =>
                 /\ Loop(d) /\ Sent(d) /\ Both
                 /\ Is(Sender[d], "test_arm_sem", "put") /\ Is(Receiver[d], "test_recv_sem", "get")
           /\ pc[Releaser[d]] = "post_done" => End(d) /\ control = Base(d) + 4 /\ events = {}
           /\ pc[Releaser[d]] = "suspend" => End(d) /\ control = Base(d) + 4 /\ events = {DONE[d]}
<1>0. "ready" # START[d]
  BY Objects DEF Scenario
<1>1. thread[Sender[d]] # "ready" /\ thread[Receiver[d]] # "ready"
  BY Names DEF Group
<1>2. DirPhase(d)
  BY DirRuns DEF Group
<1>3. Setup(d) => control = Base(d) + 3 /\ pc[Releaser[d]] = "wait_start"
  BY <1>0 DEF Setup, Unborn, Is
<1>4. Rest(d) => Is(Sender[d], "test_arm_sem", "put") /\ pc[Releaser[d]] = "give_recv"
  BY <1>1 DEF Rest, Is
<1>5. Released(d) => Is(Receiver[d], Object[d], "stop") /\ pc[Releaser[d]] = "give_arm"
  BY <1>1 DEF Released, Is
<1>6. ~ Opened(d)
  BY <1>1 DEF Opened, Is
<1>7. Sent(d) =>
        /\ Both /\ pc[Releaser[d]] = "iterate"
        /\ Is(Sender[d], "test_arm_sem", "put") /\ Is(Receiver[d], "test_recv_sem", "get")
  BY <1>1 DEF Sent, Is
<1>8. End(d) => /\ control = Base(d) + 4
                /\ \/ pc[Releaser[d]] = "post_done" /\ events = {}
                   \/ pc[Releaser[d]] = "suspend" /\ events = {DONE[d]}
  BY DEF End, Dead, Group, Is
<1>9. Setup(d) \/ End(d) \/ (Loop(d) /\ (Rest(d) \/ Released(d) \/ Sent(d)))
  BY <1>2, <1>6 DEF DirPhase, Loop
<1>10. QED  BY <1>2, <1>3, <1>4, <1>5, <1>7, <1>8, <1>9

\* When I_Task runs, its next call tells where the threads are.
LEMMA ControlRuns ==
    ASSUME IInv, \A u \in Task : thread[u] = "ready" => u = "I_Task"
    PROVE  \/ SelfPhase /\ Self_Setup
           \/ SelfPhase /\ Self_End /\ control \in {3, 4} /\ thread["T_Self"] = "suspended"
           \/ \E d \in Dir :
                 /\ DirPhase(d)
                 /\ \/ Setup(d)
                    \/ End(d) /\ (control = Base(d) + 4 => events = {DONE[d]})
<1>0. ASSUME NEW d \in Dir
      PROVE  thread[Sender[d]] # "ready" /\ thread[Receiver[d]] # "ready" /\ thread[Releaser[d]] # "ready"
  BY Names DEF Group
<1>1. ~ Self_Loop
  BY Names DEF Self_Loop, Is
<1>2. Self_End => control \in {3, 4} /\ thread["T_Self"] = "suspended"
  BY Names DEF Self_End, Is
<1>3. ASSUME NEW d \in Dir PROVE ~ Loop(d)
  BY <1>0 DEF Loop, Rest, Released, Opened, Sent, Is
<1>4. ASSUME NEW d \in Dir, End(d), control = Base(d) + 4 PROVE events = {DONE[d]}
  <2>1. Base(d) \in Nat
    BY DEF Base
  <2>2. QED  BY <1>0, <1>4, <2>1 DEF End, Is
<1>5. CASE SelfPhase
  BY <1>1, <1>2, <1>5 DEF SelfPhase
<1>6. ASSUME NEW d \in Dir, DirPhase(d)
      PROVE  Setup(d) \/ (End(d) /\ (control = Base(d) + 4 => events = {DONE[d]}))
  BY <1>3, <1>4, <1>6 DEF DirPhase
<1>7. QED  BY <1>5, <1>6 DEF IInv

-----------------------------------------------------------------------------
(***************************************************************************)
(* Each action leads from its stage to the next.                           *)
(***************************************************************************)
\* A step of T_Self or of I_Task leaves the other scenarios unborn.
LEMMA StaySelf ==
    ASSUME SelfPhase, samples'["up"] = samples["up"], samples'["down"] = samples["down"],
           \A t \in Group("up") \cup Group("down") : thread'[t] = thread[t] /\ pc'[t] = pc[t],
           Self_Setup' \/ Self_Loop' \/ Self_End'
    PROVE  SelfPhase'
BY DEF SelfPhase, Unborn, Zero, Is, Group

\* A step of one direction leaves the others as they are.
LEMMA StayDir ==
    ASSUME NEW d \in Dir, DirPhase(d), NoCount', thread'["T_Self"] = thread["T_Self"],
           \A r \in Scenario \ {d} : samples'[r] = samples[r],
           \A t \in Task \ (Group(d) \cup {"I_Task"}) : thread'[t] = thread[t] /\ pc'[t] = pc[t],
           Setup(d)' \/ Loop(d)' \/ End(d)'
    PROVE  DirPhase(d)'
<1>1. \A e \in Dir \ {d} : Group(e) \subseteq Task \ (Group(d) \cup {"I_Task"})
  BY Names
<1>2. Full("self")'
  BY Objects DEF DirPhase, Full, Dir
<1>3. d = "up" => Unborn("down")' /\ Zero("down")'
  BY <1>1, Objects DEF DirPhase, Unborn, Zero, Is, Group, Dir
<1>4. d = "down" => Dead("up")' /\ Full("up")'
  BY <1>1, Objects DEF DirPhase, Dead, Full, Dir
<1>5. QED  BY <1>2, <1>3, <1>4 DEF DirPhase

\* The steps of T_Self keep the inductive invariant.
LEMMA SelfStep ==
    ASSUME IInv, InType',
           \/ Self_WaitStart \/ Self_Put \/ Self_Get
           \/ Self_Stop \/ Self_PostDone \/ Self_Suspend
    PROVE  IInv'
<1>i. /\ InType /\ thread["I_Task"] = "ready"
      /\ "I_Task" \in Task /\ "T_Self" \in Task
      /\ "I_Task" \notin Group("up") \cup Group("down")
      /\ "T_Self" \notin Group("up") \cup Group("down")
      /\ Group("up") \cup Group("down") \subseteq Task
  BY Names DEF IInv, Dir
<1>a. ASSUME NEW l, NEW m, Step("T_Self", l, m)
      PROVE  /\ thread["T_Self"] = "ready" /\ pc["T_Self"] = l
             /\ \A u \in Task : pc'[u] = IF u = "T_Self" THEN m ELSE pc[u]
             /\ control' = control
  BY <1>a, <1>i, StepEffect
<1>q. ASSUME SelfPhase, samples'["up"] = samples["up"], samples'["down"] = samples["down"],
             \A t \in Task \ {"T_Self"} : thread'[t] = thread[t] /\ pc'[t] = pc[t],
             Self_Setup' \/ Self_Loop' \/ Self_End'
      PROVE  IInv'
  BY <1>q, <1>i, StaySelf DEF IInv
<1>1. CASE Self_WaitStart
  <2>1. /\ SelfPhase /\ Self_Setup /\ control = 2 /\ control' = control
        /\ \A u \in Task : pc'[u] = IF u = "T_Self" THEN "put" ELSE pc[u]
    BY <1>1, <1>a, SelfRuns DEF Self_WaitStart
  <2>2. /\ \A u \in Task : thread'[u] = IF u = "T_Self" THEN START["self"] ELSE thread[u]
        /\ events' = {} /\ count' = count
    BY <1>1, <1>i, <2>1, WaitEffect, Objects DEF Self_WaitStart, Self_Setup
  <2>3. loop' = loop /\ measured' = measured
    BY <1>1 DEF Self_WaitStart
  <2>4. Self_Setup'
    BY <1>i, <2>1, <2>2, <2>3 DEF Self_Setup, AtStart, Closed, Zero, NoCount, Is, loop, measured
  <2>5. QED  BY <1>q, <2>1, <2>2, <2>3, <2>4 DEF measured
<1>2. CASE Self_Put
  <2>1. /\ SelfPhase /\ Self_Loop /\ Is("T_Self", "ready", "put") /\ control' = control
        /\ \A u \in Task : pc'[u] = IF u = "T_Self" THEN "get" ELSE pc[u]
    BY <1>2, <1>a, SelfRuns DEF Self_Put, Is
  <2>2. NoCount /\ events = {} /\ control = 3 /\ AtLoop("self")
    BY <2>1 DEF Self_Loop, Is
  <2>3. \A u \in Task : thread[u] # Object["self"]
    <3>1. \A d \in Dir : thread[Sender[d]] = "none" /\ thread[Receiver[d]] = "none"
                         /\ thread[Releaser[d]] = "none"
      BY <2>1 DEF SelfPhase, Unborn, Is, Dir
    <3>2. \A u \in Task : thread[u] \in {"none", "ready"}
      BY <1>i, <2>1, <3>1, Names DEF Is, Group, Dir
    <3>3. QED  BY <3>2, Objects
  <2>4. /\ thread' = thread /\ events' = {}
        /\ \A r \in Sems : count'[r] = IF r = Object["self"] THEN 1 ELSE 0
    BY <1>2, <1>i, <2>2, <2>3, StoreEffect, Objects DEF Self_Put, NoCount
  <2>5. /\ step' = step /\ i' = i /\ samples' = samples
        /\ window' = "self" /\ markers' = <<"start">>
    BY <1>2 DEF Self_Put, SetStep, loop
  <2>6. Self_Loop'
    BY <1>i, <2>1, <2>2, <2>4, <2>5 DEF Self_Loop, AtLoop, Is
  <2>7. QED  BY <1>q, <2>1, <2>4, <2>5, <2>6
<1>3. CASE Self_Get
  <2>1. /\ SelfPhase /\ Self_Loop /\ Is("T_Self", "ready", "get") /\ control' = control
        /\ \A u \in Task : pc'[u] = IF u = "T_Self" THEN "stop" ELSE pc[u]
    BY <1>3, <1>a, SelfRuns DEF Self_Get, Is
  <2>2. /\ events = {} /\ control = 3 /\ AtLoop("self") /\ window = "self" /\ markers = <<"start">>
        /\ \A s \in Sems : count[s] = IF s = Object["self"] THEN 1 ELSE 0
    BY <2>1 DEF Self_Loop, Is
  <2>3. thread' = thread /\ events' = {} /\ NoCount'
    BY <1>3, <1>i, <2>2, FetchEffect, Objects DEF Self_Get, NoCount
  <2>4. step' = step /\ i' = i /\ measured' = measured
    BY <1>3 DEF Self_Get
  <2>5. Self_Loop'
    BY <1>i, <2>1, <2>2, <2>3, <2>4 DEF Self_Loop, AtLoop, Is, measured
  <2>6. QED  BY <1>q, <2>1, <2>3, <2>4, <2>5 DEF measured
<1>4. CASE Self_Stop
  <2>1. \E m : Step("T_Self", "stop", m)
    BY <1>4, <1>i, IterationEffect DEF Self_Stop
  <2>2. SelfPhase /\ Self_Loop /\ Is("T_Self", "ready", "stop") /\ control' = control
    BY <2>1, <1>a, SelfRuns DEF Is
  <2>3. /\ events = {} /\ control = 3 /\ AtLoop("self") /\ markers = <<"start">> /\ NoCount
    BY <2>2 DEF Self_Loop, Is
  <2>4. thread' = thread /\ events' = {} /\ NoCount'
    BY <1>4, <2>3 DEF Self_Stop, NoCall, kvars, NoCount
  <2>9. Both'
    BY <1>4, <2>3, StopMarker DEF Self_Stop, Both
  <2>10. Iterate("self") /\ "up" \in Scenario \ {"self"} /\ "down" \in Scenario \ {"self"}
    BY <1>4, Objects DEF Self_Stop
  <2>5. /\ samples'["up"] = samples["up"] /\ samples'["down"] = samples["down"]
        /\ window' = "closed" /\ Both'
    BY <1>i, <2>9, <2>10, IterateEffect, Objects
  <2>6. CASE AtLoop("self")' /\ Step("T_Self", "stop", "put")
    <3>1. \A u \in Task : pc'[u] = IF u = "T_Self" THEN "put" ELSE pc[u]
      BY <2>6, <1>a
    <3>2. Self_Loop'
      BY <1>i, <2>2, <2>3, <2>4, <2>5, <2>6, <3>1 DEF Self_Loop, Closed, Is, Both
    <3>3. QED  BY <1>q, <2>2, <2>4, <2>5, <3>1, <3>2
  <2>7. CASE Full("self")' /\ step' = 0 /\ i' = 0 /\ Step("T_Self", "stop", "post_done")
    <3>1. \A u \in Task : pc'[u] = IF u = "T_Self" THEN "post_done" ELSE pc[u]
      BY <2>7, <1>a
    <3>2. Self_End'
      BY <1>i, <2>2, <2>3, <2>4, <2>5, <2>7, <3>1 DEF Self_End, AtStart, Closed, Is
    <3>3. QED  BY <1>q, <2>2, <2>4, <2>5, <3>1, <3>2
  <2>8. QED  BY <1>4, <1>i, <2>3, <2>6, <2>7, SeriesStep, Objects DEF Self_Stop
<1>5. CASE Self_PostDone
  <2>1. /\ SelfPhase /\ Self_End /\ Is("T_Self", "ready", "post_done") /\ control' = control
        /\ \A u \in Task : pc'[u] = IF u = "T_Self" THEN "suspend" ELSE pc[u]
    BY <1>5, <1>a, SelfRuns DEF Self_PostDone, Is
  <2>2. events = {} /\ control = 3
    BY <2>1 DEF Self_End, Is
  <2>3. \A u \in Task : thread[u] # DONE["self"]
    <3>1. \A d \in Dir : thread[Sender[d]] = "none" /\ thread[Receiver[d]] = "none"
                         /\ thread[Releaser[d]] = "none"
      BY <2>1 DEF SelfPhase, Unborn, Is, Dir
    <3>2. \A u \in Task : thread[u] \in {"none", "ready"}
      BY <1>i, <2>1, <3>1, Names DEF Is, Group, Dir
    <3>3. QED  BY <3>2, Objects
  <2>4. /\ \A u \in Task : thread'[u] = thread[u]
        /\ events' = {DONE["self"]} /\ count' = count
    BY <1>5, <1>i, <2>2, <2>3, PostEffect, Objects DEF Self_PostDone
  <2>5. loop' = loop /\ measured' = measured
    BY <1>5 DEF Self_PostDone
  <2>6. Self_End'
    BY <1>i, <2>1, <2>2, <2>4, <2>5
    DEF Self_End, AtStart, Closed, Full, NoCount, Both, Is, loop, measured
  <2>7. QED  BY <1>q, <2>1, <2>4, <2>5, <2>6 DEF measured
<1>6. CASE Self_Suspend
  <2>1. /\ SelfPhase /\ Self_End /\ Is("T_Self", "ready", "suspend") /\ control' = control
        /\ \A u \in Task : pc'[u] = IF u = "T_Self" THEN "suspend" ELSE pc[u]
    BY <1>6, <1>a, SelfRuns DEF Self_Suspend, Is
  <2>2. events = {DONE["self"]} /\ control = 3
    BY <2>1 DEF Self_End, Is
  <2>3. /\ \A u \in Task : thread'[u] = IF u = "T_Self" THEN "suspended" ELSE thread[u]
        /\ events' = events /\ count' = count
    BY <1>6, <1>i, SuspendEffect DEF Self_Suspend
  <2>4. loop' = loop /\ measured' = measured
    BY <1>6 DEF Self_Suspend
  <2>5. Self_End'
    BY <1>i, <2>1, <2>2, <2>3, <2>4
    DEF Self_End, AtStart, Closed, Full, NoCount, Both, Is, loop, measured
  <2>6. QED  BY <1>q, <2>1, <2>3, <2>4, <2>5 DEF measured
<1>7. QED  BY <1>1, <1>2, <1>3, <1>4, <1>5, <1>6

\* A thread of direction d that steps moves no other thread's label.
LEMMA DirStepEffect ==
    ASSUME IInv, NEW d \in Dir, NEW t \in Group(d), NEW l, NEW m, Step(t, l, m)
    PROVE  /\ DirPhase(d) /\ thread[t] = "ready" /\ pc[t] = l
           /\ \A u \in Task : thread[u] = "ready" => prio[t] <= prio[u]
           /\ \A u \in Task : pc'[u] = IF u = t THEN m ELSE pc[u]
           /\ control' = control /\ kind' = kind
<1>1. InType /\ t \in Task
  BY Names DEF IInv
<1>2. QED  BY <1>1, StepEffect, DirRuns

\* The direction keeps the inductive invariant when its stage becomes one of its stages.
LEMMA DirStay ==
    ASSUME IInv, InType', NEW d \in Dir, DirPhase(d), NoCount',
           \A r \in Scenario \ {d} : samples'[r] = samples[r],
           \A t \in Task \ Group(d) : thread'[t] = thread[t] /\ pc'[t] = pc[t],
           Setup(d)' \/ Loop(d)' \/ End(d)'
    PROVE  IInv'
<1>1. thread'["I_Task"] = thread["I_Task"] /\ thread'["T_Self"] = thread["T_Self"]
  BY Names
<1>2. DirPhase(d)'
  BY <1>1, StayDir
<1>3. QED  BY <1>1, <1>2 DEF IInv

\* The three threads of direction d, for the proofs below.
LEMMA Three ==
    ASSUME NEW d \in Dir
    PROVE  /\ Sender[d] \in Group(d) /\ Receiver[d] \in Group(d) /\ Releaser[d] \in Group(d)
           /\ Sender[d] \in Task /\ Receiver[d] \in Task /\ Releaser[d] \in Task
           /\ Sender[d] # Receiver[d] /\ Sender[d] # Releaser[d] /\ Receiver[d] # Releaser[d]
           /\ "test_arm_sem" \in Sems /\ "test_recv_sem" \in Sems
           /\ Object[d] \in Sems /\ Object[d] # "test_arm_sem" /\ Object[d] # "test_recv_sem"
           /\ START[d] \in Bits /\ DONE[d] \in Bits
           /\ d \in Scenario
BY Names, Objects DEF Group, Scenario, Gates

\* The threads of other scenarios pend on nothing while direction d is measured.
LEMMA OthersRest ==
    ASSUME IInv, NEW d \in Dir, DirPhase(d), NEW u \in Task \ Group(d)
    PROVE  thread[u] \in {"none", "ready", "dead"}
<1>1. CASE u \in {"I_Task", "T_Self"}
  BY <1>1 DEF IInv, DirPhase
<1>2. ASSUME NEW e \in Dir \ {d}, u \in Group(e) PROVE thread[u] \in {"none", "dead"}
  BY <1>2 DEF DirPhase, Unborn, Dead, Is, Group, Dir
<1>3. QED  BY <1>1, <1>2, Names DEF Dir

\* The steps of the senders keep the inductive invariant.
LEMMA SendStep ==
    ASSUME IInv, InType', NEW d \in Dir, Send_WaitStart(d) \/ Send_Take(d) \/ Send_Put(d)
    PROVE  IInv'
<1> USE Three
<1>i. InType
  BY DEF IInv
<1>1. CASE Send_WaitStart(d)
  <2>1. /\ DirPhase(d) /\ Setup(d) /\ control = Base(d) + 1 /\ control' = control
        /\ \A u \in Task : pc'[u] = IF u = Sender[d] THEN "take" ELSE pc[u]
    BY <1>1, DirStepEffect, SendRuns DEF Send_WaitStart
  <2>2. NoCount /\ events = {}
    BY <2>1 DEF DirPhase, Setup
  <2>3. /\ \A u \in Task : thread'[u] = IF u = Sender[d] THEN START[d] ELSE thread[u]
        /\ events' = {} /\ NoCount'
    BY <1>1, <1>i, <2>2, WaitEffect DEF Send_WaitStart, NoCount
  <2>4. loop' = loop /\ measured' = measured
    BY <1>1 DEF Send_WaitStart
  <2>5. Setup(d)'
    <3>1. /\ Is(Receiver[d], "none", "take") /\ Is(Releaser[d], "none", "wait_start")
          /\ AtStart /\ Zero(d) /\ Both
      BY <2>1 DEF Setup, Unborn, Base, Dir, Is
    <3>2. QED
      BY <2>1, <2>3, <2>4, <3>1 DEF Setup, AtStart, Closed, Zero, Both, Is, loop, measured
  <2>6. QED  BY <2>1, <2>3, <2>4, <2>5, DirStay DEF measured
<1>2. CASE Send_Take(d)
  <2>1. /\ DirPhase(d) /\ Loop(d) /\ (Rest(d) \/ Sent(d)) /\ control' = control
        /\ Is(Sender[d], "ready", "take")
        /\ \A u \in Task : pc'[u] = IF u = Sender[d] THEN "put" ELSE pc[u]
    BY <1>2, DirStepEffect, SendRuns DEF Send_Take, Is
  <2>2. NoCount /\ events = {}
    BY <2>1 DEF DirPhase, Loop
  <2>3. /\ \A u \in Task : thread'[u] = IF u = Sender[d] THEN "test_arm_sem" ELSE thread[u]
        /\ events' = {} /\ NoCount'
    BY <1>2, <1>i, <2>2, PendEffect DEF Send_Take, NoCount
  <2>4. loop' = loop /\ measured' = measured
    BY <1>2 DEF Send_Take
  <2>5. Rest(d) => Rest(d)'
    BY <2>1, <2>3, <2>4 DEF Rest, Closed, Both, Is, measured, loop
  <2>6. Sent(d) => Sent(d)'
    BY <2>1, <2>3, <2>4 DEF Sent, Both, Is, measured, loop
  <2>7. Loop(d)'
    BY <2>1, <2>3, <2>4, <2>5, <2>6 DEF Loop, AtLoop, measured, loop
  <2>8. QED  BY <2>1, <2>3, <2>4, <2>7, DirStay DEF measured
<1>3. CASE Send_Put(d)
  <2>1. /\ DirPhase(d) /\ Loop(d) /\ Opened(d) /\ control' = control
        /\ \A u \in Task : pc'[u] = IF u = Sender[d] THEN "take" ELSE pc[u]
    BY <1>3, DirStepEffect, SendRuns DEF Send_Put
  <2>2. \A u \in Task : thread[u] = Object[d] <=> u = Receiver[d]
    <3>1. \A u \in Task \ Group(d) : thread[u] # Object[d]
      BY <2>1, OthersRest, Objects
    <3>2. thread[Sender[d]] # Object[d] /\ thread[Releaser[d]] # Object[d] /\ thread[Receiver[d]] = Object[d]
      BY <2>1, Objects DEF Opened, Is
    <3>3. QED  BY <3>1, <3>2 DEF Group
  <2>3. /\ \A u \in Task : thread'[u] = IF u = Receiver[d] THEN "ready" ELSE thread[u]
        /\ events' = events /\ count' = count
    BY <1>3, <1>i, <2>2, GiveEffect DEF Send_Put
  <2>4. /\ step' = step /\ i' = i /\ received' = received /\ active' = active
        /\ window' = window /\ samples' = samples /\ markers' = Append(markers, "start")
    BY <1>3 DEF Send_Put
  <2>5. markers' = <<"start">>
    BY <2>1, <2>4 DEF Opened
  <2>6. Sent(d)'
    BY <2>1, <2>3, <2>4, <2>5 DEF Opened, Sized, Sent, Is
  <2>7. Loop(d)'
    BY <2>1, <2>3, <2>4, <2>6 DEF Loop, AtLoop
  <2>8. NoCount'
    BY <2>1, <2>3 DEF DirPhase, NoCount
  <2>9. QED  BY <2>1, <2>3, <2>4, <2>7, <2>8, DirStay
<1>4. QED  BY <1>1, <1>2, <1>3

\* The steps of the receivers keep the inductive invariant.
LEMMA RecvStep ==
    ASSUME IInv, InType', NEW d \in Dir, Recv_Take(d) \/ Recv_Get(d) \/ Recv_Stop(d)
    PROVE  IInv'
<1> USE Three
<1>i. InType
  BY DEF IInv
<1>1. CASE Recv_Take(d)
  <2>1. /\ DirPhase(d) /\ Setup(d) /\ control = Base(d) + 2 /\ control' = control
        /\ \A u \in Task : pc'[u] = IF u = Receiver[d] THEN "get" ELSE pc[u]
    BY <1>1, DirStepEffect, RecvRuns DEF Recv_Take
  <2>2. NoCount /\ events = {}
    BY <2>1 DEF DirPhase, Setup
  <2>3. /\ \A u \in Task : thread'[u] = IF u = Receiver[d] THEN "test_recv_sem" ELSE thread[u]
        /\ events' = {} /\ NoCount'
    BY <1>1, <1>i, <2>2, PendEffect DEF Recv_Take, NoCount
  <2>4. loop' = loop /\ measured' = measured
    BY <1>1 DEF Recv_Take
  <2>5. Setup(d)'
    <3>1. /\ Is(Sender[d], START[d], "take") /\ Is(Releaser[d], "none", "wait_start")
          /\ AtStart /\ Zero(d) /\ Both
      BY <2>1 DEF Setup, Unborn, Base, Dir, Is
    <3>2. QED
      BY <2>1, <2>3, <2>4, <3>1 DEF Setup, AtStart, Closed, Zero, Both, Is, loop, measured
  <2>6. QED  BY <2>1, <2>3, <2>4, <2>5, DirStay DEF measured
<1>2. CASE Recv_Get(d)
  <2>1. /\ DirPhase(d) /\ Loop(d) /\ Released(d) /\ control' = control /\ kind' = kind
        /\ \A u \in Task : pc'[u] = IF u = Receiver[d] THEN "stop" ELSE pc[u]
    BY <1>2, DirStepEffect, RecvRuns DEF Recv_Get
  <2>2. NoCount /\ events = {}
    BY <2>1 DEF DirPhase, Loop
  <2>3. /\ \A u \in Task : thread'[u] = IF u = Receiver[d] THEN Object[d] ELSE thread[u]
        /\ events' = {} /\ NoCount'
    BY <1>2, <1>i, <2>2, PendEffect DEF Recv_Get, NoCount
  <2>4. /\ step' = step /\ i' = i /\ active' = active /\ received' = active /\ measured' = measured
        /\ armed' = armed
    <3>1. ~ count[Object[d]] > 0
      BY <2>2 DEF NoCount
    <3>2. QED  BY <1>2, <3>1 DEF Recv_Get, Match
  <2>5. Released(d)'
    BY <2>1, <2>3, <2>4 DEF Released, Closed, Both, Sized, Is, measured
  <2>6. Loop(d)'
    BY <2>1, <2>3, <2>4, <2>5 DEF Loop, AtLoop, measured
  <2>7. QED  BY <2>1, <2>3, <2>4, <2>6, DirStay DEF measured
<1>3. CASE Recv_Stop(d)
  <2>1. /\ DirPhase(d) /\ Loop(d) /\ Sent(d) /\ markers = <<"start">> /\ control' = control
        /\ \A u \in Task : pc'[u] = IF u = Receiver[d] THEN "get" ELSE pc[u]
    BY <1>3, DirStepEffect, RecvRuns DEF Recv_Stop
  <2>2. NoCount /\ events = {}
    BY <2>1 DEF DirPhase, Loop
  <2>3. /\ \A u \in Task : thread'[u] = IF u = Receiver[d] THEN "test_recv_sem" ELSE thread[u]
        /\ events' = {} /\ NoCount'
    BY <1>3, <1>i, <2>2, PendEffect DEF Recv_Stop, NoCount
  <2>4. loop' = loop /\ window' = window /\ samples' = samples /\ Both'
    BY <1>3, <2>1, StopMarker DEF Recv_Stop, Both
  <2>5. Sent(d)'
    BY <2>1, <2>3, <2>4 DEF Sent, Is, loop
  <2>6. Loop(d)'
    BY <2>1, <2>3, <2>4, <2>5 DEF Loop, AtLoop, loop
  <2>7. QED  BY <2>1, <2>3, <2>4, <2>6, DirStay
<1>4. QED  BY <1>1, <1>2, <1>3

\* The steps of the releasers keep the inductive invariant.
LEMMA ArmStep ==
    ASSUME IInv, InType', NEW d \in Dir,
           \/ Arm_WaitStart(d) \/ Arm_GiveRecv(d) \/ Arm_GiveArm(d)
           \/ Arm_Iterate(d) \/ Arm_PostDone(d) \/ Arm_Suspend(d)
    PROVE  IInv'
<1> USE Three
<1>i. InType
  BY DEF IInv
<1>1. CASE Arm_WaitStart(d)
  <2>1. /\ DirPhase(d) /\ Setup(d) /\ control = Base(d) + 3 /\ control' = control
        /\ \A u \in Task : pc'[u] = IF u = Releaser[d] THEN "give_recv" ELSE pc[u]
    BY <1>1, DirStepEffect, ArmRuns DEF Arm_WaitStart
  <2>2. NoCount /\ events = {}
    BY <2>1 DEF DirPhase, Setup
  <2>3. /\ \A u \in Task : thread'[u] = IF u = Releaser[d] THEN START[d] ELSE thread[u]
        /\ events' = {} /\ NoCount'
    BY <1>1, <1>i, <2>2, WaitEffect DEF Arm_WaitStart, NoCount
  <2>4. loop' = loop /\ measured' = measured
    BY <1>1 DEF Arm_WaitStart
  <2>5. Setup(d)'
    <3>1. /\ Is(Sender[d], START[d], "take") /\ Is(Receiver[d], "test_recv_sem", "get")
          /\ AtStart /\ Zero(d) /\ Both
      BY <2>1 DEF Setup, Unborn, Base, Dir, Is
    <3>2. QED
      BY <2>1, <2>3, <2>4, <3>1 DEF Setup, AtStart, Closed, Zero, Both, Is, loop, measured
  <2>6. QED  BY <2>1, <2>3, <2>4, <2>5, DirStay DEF measured
<1>2. CASE Arm_GiveRecv(d)
  <2>1. /\ DirPhase(d) /\ Loop(d) /\ Rest(d) /\ Is(Sender[d], "test_arm_sem", "put")
        /\ control' = control /\ kind' = kind
        /\ \A u \in Task : pc'[u] = IF u = Releaser[d] THEN "give_arm" ELSE pc[u]
    BY <1>2, DirStepEffect, ArmRuns DEF Arm_GiveRecv
  <2>2. \A u \in Task : thread[u] = "test_recv_sem" <=> u = Receiver[d]
    <3>1. \A u \in Task \ Group(d) : thread[u] # "test_recv_sem"
      BY <2>1, OthersRest
    <3>2. /\ thread[Sender[d]] # "test_recv_sem" /\ thread[Releaser[d]] # "test_recv_sem"
          /\ thread[Receiver[d]] = "test_recv_sem"
      BY <2>1 DEF Rest, Is
    <3>3. QED  BY <3>1, <3>2 DEF Group
  <2>3. /\ \A u \in Task : thread'[u] = IF u = Receiver[d] THEN "ready" ELSE thread[u]
        /\ events' = events /\ count' = count
    BY <1>2, <1>i, <2>2, GiveEffect DEF Arm_GiveRecv
  <2>4. /\ step' = step /\ i' = i /\ measured' = measured
    BY <1>2 DEF Arm_GiveRecv, SetStep
  <2>5. Sized'
    <3>1. active' = step
      BY <1>2, <2>1 DEF Arm_GiveRecv, SetStep, Rest
    <3>2. kind = "mailbox_async" => armed' = {step}
      BY <1>2, <3>1 DEF Arm_GiveRecv, SetStep
    <3>3. kind' = kind /\ step' = step
      BY <2>1, <2>4
    <3>4. QED  BY <3>1, <3>2, <3>3 DEF Sized
  <2>6. Released(d)'
    BY <2>1, <2>3, <2>4, <2>5 DEF Rest, Released, Closed, Both, Is, measured
  <2>7. Loop(d)'
    BY <2>1, <2>3, <2>4, <2>6 DEF Loop, AtLoop, measured
  <2>8. NoCount'
    BY <2>1, <2>3 DEF DirPhase, NoCount
  <2>9. QED  BY <2>1, <2>3, <2>4, <2>7, <2>8, DirStay DEF measured
<1>3. CASE Arm_GiveArm(d)
  <2>1. /\ DirPhase(d) /\ Loop(d) /\ Released(d) /\ Is(Receiver[d], Object[d], "stop")
        /\ control' = control /\ kind' = kind
        /\ \A u \in Task : pc'[u] = IF u = Releaser[d] THEN "iterate" ELSE pc[u]
    BY <1>3, DirStepEffect, ArmRuns DEF Arm_GiveArm
  <2>2. \A u \in Task : thread[u] = "test_arm_sem" <=> u = Sender[d]
    <3>1. \A u \in Task \ Group(d) : thread[u] # "test_arm_sem"
      BY <2>1, OthersRest
    <3>2. /\ thread[Receiver[d]] # "test_arm_sem" /\ thread[Releaser[d]] # "test_arm_sem"
          /\ thread[Sender[d]] = "test_arm_sem"
      BY <2>1 DEF Released, Is
    <3>3. QED  BY <3>1, <3>2 DEF Group
  <2>3. /\ \A u \in Task : thread'[u] = IF u = Sender[d] THEN "ready" ELSE thread[u]
        /\ events' = events /\ count' = count
    BY <1>3, <1>i, <2>2, GiveEffect DEF Arm_GiveArm
  <2>4. loop' = loop /\ samples' = samples /\ window' = d /\ markers' = <<>>
    BY <1>3 DEF Arm_GiveArm
  <2>5. received = step
    BY <2>1, Objects DEF Released, Is, Scenario
  <2>6. Opened(d)'
    BY <2>1, <2>3, <2>4, <2>5 DEF Released, Opened, Sized, Is, loop
  <2>7. Loop(d)'
    BY <2>1, <2>3, <2>4, <2>6 DEF Loop, AtLoop, loop
  <2>8. NoCount'
    BY <2>1, <2>3 DEF DirPhase, NoCount
  <2>9. QED  BY <2>1, <2>3, <2>4, <2>7, <2>8, DirStay
<1>4. CASE Arm_Iterate(d)
  <2>0. /\ NextIteration(Releaser[d], "iterate", "give_recv", "post_done") /\ Iterate(d)
        /\ markers' = markers
    BY <1>4 DEF Arm_Iterate
  <2>1. \E m : Step(Releaser[d], "iterate", m)
    BY <2>0, <1>i, IterationEffect
  <2>2. /\ DirPhase(d) /\ Loop(d) /\ Sent(d) /\ Both /\ control' = control
        /\ Is(Sender[d], "test_arm_sem", "put") /\ Is(Receiver[d], "test_recv_sem", "get")
        /\ thread[Releaser[d]] = "ready"
    BY <2>1, DirStepEffect, ArmRuns
  <2>3. NoCount /\ events = {} /\ AtLoop(d) /\ control = Base(d) + 4
    BY <2>2 DEF DirPhase, Loop
  <2>4. /\ \A u \in Task : thread'[u] = thread[u]
        /\ events' = {} /\ NoCount'
    <3>1. \A u \in Task : thread[u] # Object[d]
      <4>1. \A u \in Task \ Group(d) : thread[u] # Object[d]
        BY <2>2, OthersRest, Objects
      <4>2. \A u \in Group(d) : thread[u] # Object[d]
        BY <2>2, Objects DEF Is, Group
      <4>3. QED  BY <4>1, <4>2
    <3>2. CASE kind = "pipe_async"
      BY <1>4, <1>i, <2>3, <3>1, <3>2, ResetEffect DEF Arm_Iterate
    <3>3. CASE kind # "pipe_async"
      BY <1>4, <2>3, <3>3 DEF Arm_Iterate, NoCall, kvars, NoCount
    <3>4. QED  BY <3>2, <3>3
  <2>5. /\ \A r \in Scenario \ {d} : samples'[r] = samples[r]
        /\ window' = "closed" /\ Both'
    BY <2>0, <2>2, <1>i, IterateEffect DEF Both
  <2>6. CASE AtLoop(d)' /\ Step(Releaser[d], "iterate", "give_recv")
    <3>1. \A u \in Task : pc'[u] = IF u = Releaser[d] THEN "give_recv" ELSE pc[u]
      BY <2>6, DirStepEffect
    <3>2. i' # 0 => active' = step'
      <4>1. i' # 0 => step' = step
        BY <2>0, <1>i, IterationEffect
      <4>2. active' = active /\ active = step
        BY <2>0, <2>2, <1>i, IterationEffect DEF Sent
      <4>3. QED  BY <4>1, <4>2
    <3>3. Rest(d)'
      BY <2>2, <2>4, <2>5, <3>1, <3>2 DEF Rest, Closed, Is
    <3>4. Loop(d)'
      BY <2>2, <2>3, <2>4, <2>6, <3>3 DEF Loop
    <3>5. QED  BY <2>2, <2>4, <2>5, <3>1, <3>4, DirStay
  <2>7. CASE Full(d)' /\ step' = 0 /\ i' = 0 /\ Step(Releaser[d], "iterate", "post_done")
    <3>1. \A u \in Task : pc'[u] = IF u = Releaser[d] THEN "post_done" ELSE pc[u]
      BY <2>7, DirStepEffect
    <3>2. End(d)'
      BY <2>2, <2>3, <2>4, <2>5, <2>7, <3>1 DEF End, AtStart, Closed, Is
    <3>3. QED  BY <2>2, <2>4, <2>5, <3>1, <3>2, DirStay
  <2>8. QED  BY <2>0, <1>i, <2>3, <2>6, <2>7, SeriesStep
<1>5. CASE Arm_PostDone(d)
  <2>1. /\ DirPhase(d) /\ End(d) /\ control = Base(d) + 4 /\ events = {} /\ control' = control
        /\ thread[Releaser[d]] = "ready"
        /\ \A u \in Task : pc'[u] = IF u = Releaser[d] THEN "suspend" ELSE pc[u]
    BY <1>5, DirStepEffect, ArmRuns DEF Arm_PostDone
  <2>2. /\ NoCount /\ AtStart /\ Full(d) /\ Both
        /\ thread[Sender[d]] = "test_arm_sem" /\ thread[Receiver[d]] = "test_recv_sem"
    BY <2>1 DEF DirPhase, End, Base
  <2>3. \A u \in Task : thread[u] # DONE[d]
    <3>1. \A u \in Task \ Group(d) : thread[u] # DONE[d]
      BY <2>1, OthersRest, Objects
    <3>2. \A u \in Group(d) : thread[u] # DONE[d]
      BY <2>1, <2>2, Objects DEF Group
    <3>3. QED  BY <3>1, <3>2
  <2>4. /\ \A u \in Task : thread'[u] = thread[u]
        /\ events' = {DONE[d]} /\ NoCount'
    BY <1>5, <1>i, <2>1, <2>2, <2>3, PostEffect DEF Arm_PostDone, NoCount
  <2>5. loop' = loop /\ measured' = measured
    BY <1>5 DEF Arm_PostDone
  <2>6. End(d)'
    BY <2>1, <2>2, <2>4, <2>5 DEF End, AtStart, Closed, Full, Both, Is, loop, measured
  <2>7. QED  BY <2>1, <2>4, <2>5, <2>6, DirStay DEF measured
<1>6. CASE Arm_Suspend(d)
  <2>1. /\ DirPhase(d) /\ End(d) /\ control = Base(d) + 4 /\ events = {DONE[d]}
        /\ control' = control
        /\ \A u \in Task : pc'[u] = IF u = Releaser[d] THEN "suspend" ELSE pc[u]
    BY <1>6, DirStepEffect, ArmRuns DEF Arm_Suspend
  <2>2. /\ NoCount /\ AtStart /\ Full(d) /\ Both
        /\ thread[Sender[d]] = "test_arm_sem" /\ thread[Receiver[d]] = "test_recv_sem"
    BY <2>1 DEF DirPhase, End, Base
  <2>3. /\ \A u \in Task : thread'[u] = IF u = Releaser[d] THEN "suspended" ELSE thread[u]
        /\ events' = events /\ NoCount'
    BY <1>6, <1>i, <2>2, SuspendEffect DEF Arm_Suspend, NoCount
  <2>4. loop' = loop /\ measured' = measured
    BY <1>6 DEF Arm_Suspend
  <2>5. End(d)'
    BY <2>1, <2>2, <2>3, <2>4 DEF End, AtStart, Closed, Full, Both, Is, loop, measured
  <2>6. QED  BY <2>1, <2>3, <2>4, <2>5, DirStay DEF measured
<1>7. QED  BY <1>1, <1>2, <1>3, <1>4, <1>5, <1>6

\* What the next call of I_Task does, and what it leaves alone.
LEMMA CallEffect ==
    ASSUME InType, I_Create \/ I_Post \/ I_Wait \/ I_Abort \/ I_Reset,
           NEW c, NEW n, Control[control] = Call(c, n)
    PROVE  /\ control' = control + 1 /\ control <= 22
           /\ \A u \in Task : thread[u] = "ready" => u = "I_Task"
           /\ pc' = pc /\ step' = step /\ i' = i /\ measured' = measured
           /\ c = "create" => Create(n)
           /\ c = "post" => EventPost(n)
           /\ c = "wait" => EventWait("I_Task", n)
           /\ c = "abort" => Abort(n)
           /\ c = "reset" => SemReset(n)
<1>1. Control[control].call = c /\ Control[control].on = n
  BY DEF Call
<1>2. /\ control' = control + 1 /\ control <= Len(Control) /\ Runs("I_Task")
      /\ pc' = pc /\ step' = step /\ i' = i /\ measured' = measured
  BY DEF I_Create, I_Post, I_Wait, I_Abort, I_Reset, I_Call, measured
<1>3. /\ c = "create" => Create(n)
      /\ c = "post" => EventPost(n)
      /\ c = "wait" => EventWait("I_Task", n)
      /\ c = "abort" => Abort(n)
      /\ c = "reset" => SemReset(n)
  BY <1>1 DEF I_Create, I_Post, I_Wait, I_Abort, I_Reset, I_Call
<1>4. QED  BY <1>2, <1>3, Calls, ControlEffect

\* I_Task in scenario self: creates, starts, waits for and aborts T_Self.
LEMMA ControlStepSelf ==
    ASSUME IInv, InType', I_Create \/ I_Post \/ I_Wait \/ I_Abort \/ I_Reset, SelfPhase
    PROVE  IInv'
<1>i. /\ InType /\ thread["I_Task"] = "ready" /\ "self" \in Scenario
      /\ "I_Task" \in Task /\ "T_Self" \in Task
      /\ "I_Task" \notin Group("up") \cup Group("down")
      /\ "T_Self" \notin Group("up") \cup Group("down")
      /\ Group("up") \cup Group("down") \subseteq Task
      /\ START["self"] \in Bits /\ DONE["self"] \in Bits
  BY Names, Objects DEF IInv, Dir
<1>q. ASSUME pc' = pc, samples' = samples,
             \A t \in Task \ {"T_Self"} : thread'[t] = thread[t],
             Self_Setup' \/ Self_Loop' \/ Self_End'
      PROVE  IInv'
  BY <1>q, <1>i, StaySelf DEF IInv
<1>c. control \in 1..22 /\ \A u \in Task : thread[u] = "ready" => u = "I_Task"
  <2>1. Runs("I_Task") /\ control <= 22
    BY Calls DEF I_Create, I_Post, I_Wait, I_Abort, I_Reset, I_Call
  <2>2. QED  BY <1>i, <2>1, ControlEffect DEF InType
<1>0. \/ Self_Setup
      \/ Self_End /\ control \in {3, 4} /\ thread["T_Self"] = "suspended"
  <2>1. ~ Self_Loop
    BY <1>c, <1>i DEF Self_Loop, Is
  <2>2. Self_End => control \in {3, 4} /\ thread["T_Self"] = "suspended"
    BY <1>c, <1>i DEF Self_End, Is
  <2>3. QED  BY <2>1, <2>2 DEF SelfPhase
<1>n. /\ \A d \in Dir : /\ thread[Sender[d]] = "none" /\ thread[Receiver[d]] = "none"
                        /\ thread[Releaser[d]] = "none"
      /\ \A u \in Task \ {"T_Self"} : thread[u] \in {"none", "ready"}
  BY <1>i, Names DEF SelfPhase, Unborn, Is, Dir, Group
<1>1. CASE Self_Setup /\ control = 1
  <2>1. /\ control' = 2 /\ pc' = pc /\ step' = step /\ i' = i /\ measured' = measured
        /\ Create("T_Self")
    BY <1>1, <1>i, CallEffect, Calls
  <2>2. /\ \A u \in Task : thread'[u] = IF u = "T_Self" THEN "ready" ELSE thread[u]
        /\ events' = events /\ count' = count
    BY <1>i, <2>1, CreateEffect
  <2>3. Self_Setup'
    BY <1>1, <1>i, <2>1, <2>2 DEF Self_Setup, AtStart, Closed, Zero, NoCount, Is, measured
  <2>4. QED  BY <1>q, <2>1, <2>2, <2>3 DEF measured
<1>2. CASE Self_Setup /\ control = 2
  <2>1. /\ control' = 3 /\ pc' = pc /\ step' = step /\ i' = i /\ measured' = measured
        /\ EventPost(START["self"])
    BY <1>2, <1>i, CallEffect, Calls
  <2>2. Is("T_Self", START["self"], "put") /\ events = {}
    BY <1>2, <1>c, <1>i DEF Self_Setup, Is
  <2>3. /\ \A u \in Task : thread'[u] = IF thread[u] = START["self"] THEN "ready" ELSE thread[u]
        /\ events' = {} /\ count' = count
    BY <1>i, <2>1, <2>2, PostEffect DEF Is
  <2>4. \A u \in Task : thread'[u] = IF u = "T_Self" THEN "ready" ELSE thread[u]
    BY <1>i, <1>n, <2>2, <2>3, Objects DEF Is
  <2>5. Self_Loop'
    <3>1. AtLoop("self")'
      BY <1>2, <2>1, CountAssumption DEF Self_Setup, AtStart, Zero, AtLoop, measured, Steps
    <3>2. QED
      BY <1>2, <1>i, <2>1, <2>2, <2>3, <2>4, <3>1
      DEF Self_Setup, Self_Loop, AtStart, Closed, NoCount, Is, measured
  <2>6. QED  BY <1>q, <2>1, <2>4, <2>5 DEF measured
<1>3. CASE Self_End /\ control = 3 /\ thread["T_Self"] = "suspended"
  <2>1. /\ control' = 4 /\ pc' = pc /\ step' = step /\ i' = i /\ measured' = measured
        /\ EventWait("I_Task", DONE["self"])
    BY <1>3, <1>i, CallEffect, Calls
  <2>2. events = {DONE["self"]}
    BY <1>3 DEF Self_End, Is
  <2>3. /\ \A u \in Task : thread'[u] = thread[u]
        /\ events' = {} /\ count' = count
    BY <1>i, <2>1, <2>2, WaitEffect
  <2>4. Self_End'
    BY <1>3, <1>i, <2>1, <2>3
    DEF Self_End, AtStart, Closed, Full, NoCount, Both, Is, measured
  <2>5. QED  BY <1>q, <2>1, <2>3, <2>4 DEF measured
<1>4. CASE Self_End /\ control = 4 /\ thread["T_Self"] = "suspended"
  <2>1. /\ control' = 5 /\ pc' = pc /\ step' = step /\ i' = i /\ measured' = measured
        /\ Abort("T_Self")
    BY <1>4, <1>i, CallEffect, Calls
  <2>2. /\ \A u \in Task : thread'[u] = IF u = "T_Self" THEN "dead" ELSE thread[u]
        /\ events' = events /\ count' = count
    BY <1>i, <2>1, AbortEffect
  <2>3. AtStart /\ Full("self") /\ NoCount /\ Both /\ events = {}
    BY <1>4 DEF Self_End
  <2>4. Unborn("up")' /\ Unborn("down")' /\ Zero("up")' /\ Zero("down")'
    BY <1>i, <2>1, <2>2 DEF SelfPhase, Unborn, Zero, Is, Group, measured
  <2>5. Setup("up")'
    BY <2>1, <2>2, <2>3, <2>4 DEF Setup, AtStart, Closed, Both, measured
  <2>6. DirPhase("up")'
    BY <1>i, <2>1, <2>2, <2>3, <2>4, <2>5 DEF DirPhase, Full, NoCount, measured
  <2>7. QED  BY <1>i, <2>2, <2>6 DEF IInv, Dir
<1>5. Self_Setup => control \in {1, 2}
  BY DEF Self_Setup
<1>6. QED  BY <1>0, <1>1, <1>2, <1>3, <1>4, <1>5

\* I_Task in direction d: creates, starts, waits for and aborts its three threads.
LEMMA ControlStepDir ==
    ASSUME IInv, InType', I_Create \/ I_Post \/ I_Wait \/ I_Abort \/ I_Reset,
           NEW d \in Dir, DirPhase(d)
    PROVE  IInv'
<1> USE Three
<1>i. /\ InType /\ thread["I_Task"] = "ready" /\ "I_Task" \in Task
      /\ "I_Task" \notin Group(d) /\ "T_Self" \notin Group(d) /\ NoCount
      /\ Base(d) \in {5, 15} /\ (d = "up" => Base(d) = 5) /\ (d = "down" => Base(d) = 15)
      /\ d = "up" \/ d = "down"
  BY Names DEF IInv, Dir, DirPhase, Base
<1>q. ASSUME pc' = pc, samples' = samples, count' = count \/ NoCount',
             \A t \in Task \ Group(d) : thread'[t] = thread[t],
             Setup(d)' \/ Loop(d)' \/ End(d)'
      PROVE  IInv'
  BY <1>q, <1>i, DirStay DEF NoCount
<1>c. /\ control \in 1..22 /\ \A u \in Task : thread[u] = "ready" => u = "I_Task"
      /\ thread[Sender[d]] # "ready" /\ thread[Receiver[d]] # "ready" /\ thread[Releaser[d]] # "ready"
  <2>1. Runs("I_Task") /\ control <= 22
    BY Calls DEF I_Create, I_Post, I_Wait, I_Abort, I_Reset, I_Call
  <2>2. QED  BY <1>i, <2>1, ControlEffect DEF InType, Group
<1>n. \A u \in Task \ Group(d) : thread[u] \in {"none", "ready", "dead"}
  BY OthersRest
<1>1. CASE Setup(d)
  <2>0. AtStart /\ Zero(d) /\ events = {} /\ Both
    BY <1>1 DEF Setup
  <2>1. CASE Unborn(d) /\ d = "down" /\ control \in {13, 14}
    <3>1. PICK s \in Gates : Control[control] = Call("reset", s)
      BY <2>1, Calls DEF Gates
    <3>2. /\ control' = control + 1 /\ pc' = pc /\ step' = step /\ i' = i /\ measured' = measured
          /\ SemReset(s)
      BY <3>1, <1>i, CallEffect
    <3>3. \A u \in Task : thread[u] # s
      BY <1>n, <2>1, <3>1 DEF Unborn, Is, Group, Gates
    <3>4. /\ \A u \in Task : thread'[u] = thread[u]
          /\ events' = {} /\ NoCount'
      BY <1>i, <2>0, <3>1, <3>2, <3>3, ResetEffect, Objects
    <3>5. Setup(d)'
      BY <2>0, <2>1, <3>2, <3>4 DEF Setup, Unborn, AtStart, Closed, Zero, Both, Is, measured
    <3>6. QED  BY <1>q, <3>2, <3>4, <3>5 DEF measured
  <2>2. CASE Unborn(d) /\ control = Base(d)
    <3>1. /\ control' = Base(d) + 1 /\ pc' = pc /\ step' = step /\ i' = i /\ measured' = measured
          /\ Create(Sender[d])
      BY <2>2, <1>i, CallEffect, Calls
    <3>2. /\ \A u \in Task : thread'[u] = IF u = Sender[d] THEN "ready" ELSE thread[u]
          /\ events' = {} /\ count' = count
      BY <1>i, <2>0, <3>1, CreateEffect
    <3>3. Setup(d)'
      BY <2>0, <2>2, <3>1, <3>2 DEF Setup, Unborn, AtStart, Closed, Zero, Both, Is, measured
    <3>4. QED  BY <1>q, <3>1, <3>2, <3>3 DEF measured
  <2>3. CASE control = Base(d) + 1
    <3>1. /\ control' = Base(d) + 2 /\ pc' = pc /\ step' = step /\ i' = i /\ measured' = measured
          /\ Create(Receiver[d])
      BY <2>3, <1>i, CallEffect, Calls
    <3>2. /\ \A u \in Task : thread'[u] = IF u = Receiver[d] THEN "ready" ELSE thread[u]
          /\ events' = {} /\ count' = count
      BY <1>i, <2>0, <3>1, CreateEffect
    <3>3. /\ Is(Sender[d], START[d], "take") /\ Is(Receiver[d], "none", "take")
          /\ Is(Releaser[d], "none", "wait_start")
      BY <1>1, <1>c, <1>i, <2>3 DEF Setup, Is
    <3>4. Setup(d)'
      BY <2>0, <3>1, <3>2, <3>3 DEF Setup, AtStart, Closed, Zero, Both, Is, measured
    <3>5. QED  BY <1>q, <3>1, <3>2, <3>4 DEF measured
  <2>4. CASE control = Base(d) + 2
    <3>1. /\ control' = Base(d) + 3 /\ pc' = pc /\ step' = step /\ i' = i /\ measured' = measured
          /\ Create(Releaser[d])
      BY <2>4, <1>i, CallEffect, Calls
    <3>2. /\ \A u \in Task : thread'[u] = IF u = Releaser[d] THEN "ready" ELSE thread[u]
          /\ events' = {} /\ count' = count
      BY <1>i, <2>0, <3>1, CreateEffect
    <3>3. /\ Is(Sender[d], START[d], "take") /\ Is(Receiver[d], "test_recv_sem", "get")
          /\ Is(Releaser[d], "none", "wait_start")
      BY <1>1, <1>c, <1>i, <2>4 DEF Setup, Is
    <3>4. Setup(d)'
      BY <2>0, <3>1, <3>2, <3>3 DEF Setup, AtStart, Closed, Zero, Both, Is, measured
    <3>5. QED  BY <1>q, <3>1, <3>2, <3>4 DEF measured
  <2>5. CASE control = Base(d) + 3
    <3>1. /\ control' = Base(d) + 4 /\ pc' = pc /\ step' = step /\ i' = i /\ measured' = measured
          /\ EventPost(START[d])
      BY <2>5, <1>i, CallEffect, Calls
    <3>2. /\ Is(Sender[d], START[d], "take") /\ Is(Receiver[d], "test_recv_sem", "get")
          /\ Is(Releaser[d], START[d], "give_recv")
      BY <1>1, <1>c, <1>i, <2>5 DEF Setup, Is
    <3>3. /\ \A u \in Task : thread'[u] = IF thread[u] = START[d] THEN "ready" ELSE thread[u]
          /\ events' = {} /\ count' = count
      BY <1>i, <2>0, <3>1, <3>2, PostEffect DEF Is
    <3>4. /\ thread'[Sender[d]] = "ready" /\ thread'[Releaser[d]] = "ready"
          /\ thread'[Receiver[d]] = "test_recv_sem"
          /\ \A u \in Task \ Group(d) : thread'[u] = thread[u]
      BY <1>n, <3>2, <3>3, Objects DEF Is, Gates
    <3>5. Rest(d)'
      BY <2>0, <3>1, <3>2, <3>4 DEF Rest, AtStart, Closed, Both, Is, measured
    <3>6. AtLoop(d)'
      BY <2>0, <3>1, CountAssumption DEF AtStart, Zero, AtLoop, Steps, measured
    <3>7. Loop(d)'
      BY <3>1, <3>3, <3>5, <3>6 DEF Loop, Base
    <3>8. QED  BY <1>q, <3>1, <3>3, <3>4, <3>7 DEF measured
  <2>6. \/ Unborn(d) /\ (control = Base(d) \/ (d = "down" /\ control \in {13, 14}))
        \/ control \in {Base(d) + 1, Base(d) + 2, Base(d) + 3}
    BY <1>1, <1>i DEF Setup
  <2>7. QED  BY <2>1, <2>2, <2>3, <2>4, <2>5, <2>6
<1>2. CASE End(d)
  <2>0. AtStart /\ Full(d) /\ Both
    BY <1>2 DEF End
  <2>1. CASE control = Base(d) + 4
    <3>1. /\ control' = Base(d) + 5 /\ pc' = pc /\ step' = step /\ i' = i /\ measured' = measured
          /\ EventWait("I_Task", DONE[d])
      BY <2>1, <1>i, CallEffect, Calls
    <3>2. /\ events = {DONE[d]} /\ thread[Releaser[d]] = "suspended"
          /\ thread[Sender[d]] = "test_arm_sem" /\ thread[Receiver[d]] = "test_recv_sem"
      BY <1>2, <1>c, <1>i, <2>1 DEF End, Is
    <3>3. /\ \A u \in Task : thread'[u] = thread[u]
          /\ events' = {} /\ count' = count
      BY <1>i, <3>1, <3>2, WaitEffect
    <3>4. End(d)'
      BY <2>0, <3>1, <3>2, <3>3 DEF End, AtStart, Closed, Full, Both, Base, measured
    <3>5. QED  BY <1>q, <3>1, <3>3, <3>4 DEF measured
  <2>2. CASE control = Base(d) + 5
    <3>1. /\ control' = Base(d) + 6 /\ pc' = pc /\ step' = step /\ i' = i /\ measured' = measured
          /\ Abort(Sender[d])
      BY <2>2, <1>i, CallEffect, Calls
    <3>2. /\ events = {} /\ thread[Releaser[d]] = "suspended"
          /\ thread[Receiver[d]] = "test_recv_sem"
      BY <1>2, <1>i, <2>2 DEF End
    <3>3. /\ \A u \in Task : thread'[u] = IF u = Sender[d] THEN "dead" ELSE thread[u]
          /\ events' = {} /\ count' = count
      BY <1>i, <3>1, <3>2, AbortEffect
    <3>4. End(d)'
      BY <2>0, <3>1, <3>2, <3>3 DEF End, AtStart, Closed, Full, Both, Base, measured
    <3>5. QED  BY <1>q, <3>1, <3>3, <3>4 DEF measured
  <2>3. CASE control = Base(d) + 6
    <3>1. /\ control' = Base(d) + 7 /\ pc' = pc /\ step' = step /\ i' = i /\ measured' = measured
          /\ Abort(Receiver[d])
      BY <2>3, <1>i, CallEffect, Calls
    <3>2. events = {} /\ thread[Releaser[d]] = "suspended" /\ thread[Sender[d]] = "dead"
      BY <1>2, <1>i, <2>3 DEF End
    <3>3. /\ \A u \in Task : thread'[u] = IF u = Receiver[d] THEN "dead" ELSE thread[u]
          /\ events' = {} /\ count' = count
      BY <1>i, <3>1, <3>2, AbortEffect
    <3>4. End(d)'
      BY <2>0, <3>1, <3>2, <3>3 DEF End, AtStart, Closed, Full, Both, Base, measured
    <3>5. QED  BY <1>q, <3>1, <3>3, <3>4 DEF measured
  <2>4. CASE control = Base(d) + 7
    <3>1. /\ control' = Base(d) + 8 /\ pc' = pc /\ step' = step /\ i' = i /\ measured' = measured
          /\ Abort(Releaser[d])
      BY <2>4, <1>i, CallEffect, Calls
    <3>2. events = {} /\ thread[Receiver[d]] = "dead" /\ thread[Sender[d]] = "dead"
      BY <1>2, <1>i, <2>4 DEF End
    <3>3. /\ \A u \in Task : thread'[u] = IF u = Releaser[d] THEN "dead" ELSE thread[u]
          /\ events' = {} /\ count' = count
      BY <1>i, <3>1, <3>2, AbortEffect
    <3>4. Dead(d)'
      BY <3>2, <3>3 DEF Dead, Group
    <3>5. CASE d = "down"
      <4>1. End(d)'
        BY <2>0, <3>1, <3>3, <3>4, <3>5 DEF End, AtStart, Closed, Full, Both, Base, measured
      <4>2. QED  BY <1>q, <3>1, <3>3, <4>1 DEF measured
    <3>6. CASE d = "up"
      <4>1. "down" \in Dir /\ Group("down") \subseteq Task /\ Releaser["up"] \notin Group("down")
        BY <3>6, Names DEF Dir, Group
      <4>2. Unborn("down") /\ Zero("down") /\ Full("self") /\ Full("up")
            /\ thread["T_Self"] = "dead" /\ "T_Self" \in Task
        BY <2>0, <3>6, Names DEF DirPhase
      <4>3. Unborn("down")'
        BY <3>1, <3>3, <3>6, <4>1, <4>2 DEF Unborn, Is, Group
      <4>4. Setup("down")'
        BY <2>0, <3>1, <3>3, <3>6, <4>2, <4>3, <1>i
        DEF Setup, AtStart, Closed, Zero, Both, measured
      <4>5. DirPhase("down")'
        BY <1>i, <3>1, <3>3, <3>4, <3>6, <4>2, <4>4 DEF DirPhase, Full, NoCount, measured
      <4>6. QED  BY <1>i, <3>3, <4>1, <4>5 DEF IInv
    <3>7. QED  BY <3>5, <3>6, <1>i
  <2>5. control # Base(d) + 8 \/ d # "down"
    BY <1>c, <1>i
  <2>6. QED  BY <1>2, <2>1, <2>2, <2>3, <2>4, <2>5 DEF End
<1>3. ~ Loop(d)
  BY <1>c DEF Loop, Rest, Released, Opened, Sent, Is
<1>4. QED  BY <1>1, <1>2, <1>3 DEF DirPhase

\* The inductive invariant holds when main() has returned.
LEMMA IInvInit == Init => IInv
<1> SUFFICES ASSUME Init PROVE IInv
  OBVIOUS
<1>0. /\ Task = {"I_Task", "T_Self", "T_SendUp", "T_RecvUp", "T_ArmUp",
                 "T_SendDown", "T_RecvDown", "T_ArmDown"}
      /\ {"test_arm_sem", "test_recv_sem"} \cup {Object[s] : s \in Scenario} = Sems
  BY DEF Task, prio, Sems, Gates
<1>1. /\ \A t \in Task : thread[t] = IF t = "I_Task" THEN "ready" ELSE "none"
      /\ \A t \in Task : pc[t] = IF t \in {"T_RecvUp", "T_RecvDown"} THEN "take"
                                 ELSE IF t = "I_Task" THEN "control" ELSE "wait_start"
      /\ thread \in [Task -> {"none", "ready"}]
      /\ pc \in [Task -> {"take", "control", "wait_start"}]
  BY <1>0 DEF Init
<1>2. InType
  BY <1>0, <1>1, CountAssumption DEF Init, InType, Steps, Labels, Scenario
<1>3. SelfPhase
  <2>1. \A s \in Scenario : Zero(s)
    BY DEF Init, Zero
  <2>2. Unborn("up") /\ Unborn("down")
    BY <1>0, <1>1 DEF Unborn, Is, Sender, Receiver, Releaser
  <2>3. Self_Setup
    BY <1>0, <1>1, <2>1, Objects DEF Init, Self_Setup, AtStart, Closed, NoCount, Is
  <2>4. QED  BY <2>1, <2>2, <2>3, Objects DEF SelfPhase
<1>4. QED  BY <1>0, <1>1, <1>2, <1>3 DEF IInv

\* The inductive invariant is kept by every step.
LEMMA IInvStep == IInv /\ [Next]_vars => IInv'
<1> SUFFICES ASSUME IInv, [Next]_vars PROVE IInv'
  OBVIOUS
<1>1. InType'
  BY TypeStep DEF IInv
<1>2. CASE UNCHANGED vars
  <2>1. SelfPhase => SelfPhase'
    BY <1>2 DEF vars, SelfPhase, Self_Setup, Self_Loop, Self_End, AtStart, AtLoop, Zero, Full,
                Closed, NoCount, Both, Unborn, Is
  <2>2. ASSUME NEW d \in Dir, DirPhase(d) PROVE DirPhase(d)'
    <3>1. /\ Setup(d) => Setup(d)'
          /\ End(d) => End(d)'
      BY <1>2 DEF vars, Setup, End, AtStart, Zero, Full, Closed, Both, Unborn, Dead, Is
    <3>2. Loop(d) => Loop(d)'
      BY <1>2 DEF vars, Loop, Rest, Released, Opened, Sent, AtLoop, Closed, Both, Sized, Is
    <3>3. QED
      BY <1>2, <2>2, <3>1, <3>2 DEF vars, DirPhase, Full, Zero, NoCount, Unborn, Dead, Is
  <2>3. QED  BY <1>1, <1>2, <2>1, <2>2 DEF IInv, vars
<1>3. CASE I_Create \/ I_Post \/ I_Wait \/ I_Abort \/ I_Reset
  BY <1>1, <1>3, ControlStepSelf, ControlStepDir DEF IInv
<1>4. I_Signalize => UNCHANGED vars
  BY DEF I_Signalize
<1>5. QED
  BY <1>1, <1>2, <1>3, <1>4, SelfStep, SendStep, RecvStep, ArmStep DEF Next

\* The inductive invariant: where the threads of the measured scenario can be,
\* and how far each series has come.
THEOREM Invariance == Spec => []IInv
<1>1. QED  BY IInvInit, IInvStep, PTL DEF Spec

-----------------------------------------------------------------------------
(***************************************************************************)
(* The properties, from the inductive invariant.                           *)
(***************************************************************************)
\* The markers of a window in their three states, which are all different.
LEMMA Markers ==
    /\ <<"start">> # <<"start", "stop">> /\ <<>> # <<"start", "stop">>
    /\ \A m \in {<<>>, <<"start">>, <<"start", "stop">>} :
          m \in Seq({"start", "stop"}) /\ Len(m) <= 2
<1>1. Len(<<"start">>) = 1 /\ Len(<<"start", "stop">>) = 2 /\ Len(<<>>) = 0
  OBVIOUS
<1>2. /\ <<"start">> \in Seq({"start", "stop"}) /\ <<"start", "stop">> \in Seq({"start", "stop"})
      /\ <<>> \in Seq({"start", "stop"})
  OBVIOUS
<1>3. QED  BY <1>1, <1>2

\* How far each scenario has come: those before the measured one are complete.
LEMMA Progress ==
    ASSUME IInv
    PROVE  /\ \A s \in Scenario : Zero(s) \/ Full(s) \/ AtLoop(s)
           /\ Self_Loop => AtLoop("self")
           /\ \A d \in Dir : Loop(d) => AtLoop(d)
           /\ \A d \in Dir : DirPhase(d) => Full("self") /\ (d = "down" => Full("up"))
<1>1. \A s \in Scenario : s = "self" \/ s = "up" \/ s = "down"
  BY DEF Scenario, Dir
<1>2. SelfPhase => /\ Zero("up") /\ Zero("down")
                   /\ Zero("self") \/ AtLoop("self") \/ Full("self")
  BY DEF SelfPhase, Self_Setup, Self_Loop, Self_End
<1>3. \A d \in Dir : DirPhase(d) => /\ Full("self") /\ (d = "down" => Full("up"))
                                    /\ (d = "up" => Zero("down"))
                                    /\ Zero(d) \/ AtLoop(d) \/ Full(d)
  BY DEF DirPhase, Setup, Loop, End
<1>4. QED  BY <1>1, <1>2, <1>3 DEF IInv, Self_Loop, Loop, Dir

\* The window, the markers and the posted bits, wherever the scenarios are.
LEMMA Ranges ==
    ASSUME IInv
    PROVE  /\ events \subseteq Bits
           /\ window \in Scenario \cup {"closed"}
           /\ markers \in {<<>>, <<"start">>, <<"start", "stop">>}
<1>1. CASE SelfPhase
  BY <1>1, Objects DEF SelfPhase, Self_Setup, Self_Loop, Self_End, AtStart, Closed, Both, Is
<1>2. ASSUME NEW d \in Dir, DirPhase(d)
      PROVE  /\ events \subseteq Bits
             /\ window \in Scenario \cup {"closed"}
             /\ markers \in {<<>>, <<"start">>, <<"start", "stop">>}
  <2>1. Setup(d) \/ Loop(d) \/ End(d)
    BY <1>2 DEF DirPhase
  <2>2. d \in Scenario /\ DONE[d] \in Bits
    BY Three
  <2>3. CASE Setup(d)
    BY <2>3 DEF Setup, AtStart, Closed, Both
  <2>4. CASE Loop(d)
    BY <2>2, <2>4 DEF Loop, Rest, Released, Opened, Sent, Closed, Both
  <2>5. CASE End(d)
    BY <2>2, <2>5 DEF End, AtStart, Closed, Both
  <2>6. QED  BY <2>1, <2>3, <2>4, <2>5
<1>3. QED  BY <1>1, <1>2 DEF IInv

\* The inductive invariant implies the type invariant.
LEMMA TypeHolds == IInv => TypeOK
<1> SUFFICES ASSUME IInv PROVE TypeOK
  OBVIOUS
<1>1. KernelTypeOK
  <2>1. {"test_arm_sem", "test_recv_sem"} \cup {Object[s] : s \in Scenario} = Sems
    BY DEF Sems, Gates
  <2>2. {START[s] : s \in Scenario} \cup {DONE[s] : s \in Scenario} = Bits
    BY DEF Bits
  <2>3. QED  BY <2>1, <2>2, Ranges DEF KernelTypeOK, ThreadState, IInv, InType
<1>2. pc \in [Task -> Labels]
  BY DEF IInv, InType
<1>3. markers \in Seq({"start", "stop"}) /\ Len(markers) <= 2
  BY Ranges, Markers
<1>4. samples \in [Scenario -> [Steps -> 0..MEASUREMENT_COUNT]]
  <2>1. ASSUME NEW s \in Scenario, NEW n \in Steps
        PROVE  samples[s][n] \in 0..MEASUREMENT_COUNT
    <3>1. \/ samples[s][n] = 0 \/ samples[s][n] = MEASUREMENT_COUNT \/ samples[s][n] = i
      BY Progress DEF Zero, Full, AtLoop
    <3>2. QED  BY <3>1, CountAssumption DEF IInv, InType
  <2>2. QED  BY <2>1 DEF IInv, InType
<1>5. ASSUME NEW d \in Dir, Runs(Releaser[d])
      PROVE  count["test_recv_sem"] = 0 /\ count["test_arm_sem"] = 0
  <2>1. DirPhase(d)
    BY <1>5, Three, DirRuns DEF Runs, Ready
  <2>2. QED  BY <2>1, Three DEF DirPhase, NoCount
<1>6. control \in 1..(Len(Control) + 1)
  BY Calls DEF IInv, InType
<1>7. QED
  BY <1>1, <1>2, <1>3, <1>4, <1>5, <1>6, Ranges DEF TypeOK, IInv, InType

\* The inductive invariant implies MarkersSettled.
LEMMA SettledHolds == IInv => MarkersSettled
<1> SUFFICES ASSUME IInv, NEW d \in Dir, Runs(Releaser[d]), pc[Releaser[d]] = "iterate"
             PROVE  /\ window = d /\ markers = <<"start", "stop">>
                    /\ thread[Sender[d]] = "test_arm_sem"
                    /\ thread[Receiver[d]] = "test_recv_sem"
  BY DEF MarkersSettled
<1>1. /\ Sent(d) /\ Both
      /\ Is(Sender[d], "test_arm_sem", "put") /\ Is(Receiver[d], "test_recv_sem", "get")
  BY ArmRuns DEF Runs, Ready
<1>2. QED  BY <1>1 DEF Sent, Both, Is

\* The inductive invariant implies SameStep.
LEMMA SameStepHolds == IInv => SameStep
<1> SUFFICES ASSUME IInv PROVE SameStep
  OBVIOUS
<1>1. ASSUME NEW d \in Dir, Runs(Sender[d]), pc[Sender[d]] = "put"
      PROVE  /\ window = d
             /\ Waiters(Object[d]) = {Receiver[d]}
             /\ active = step /\ received = step
             /\ kind = "mailbox_async" => armed = {step}
  <2>1. DirPhase(d) /\ Opened(d)
    BY <1>1, SendRuns DEF Runs, Ready
  <2>2. \A u \in Task : thread[u] = Object[d] <=> u = Receiver[d]
    <3>1. \A u \in Task \ Group(d) : thread[u] # Object[d]
      BY <2>1, OthersRest, Objects, Three
    <3>2. thread[Sender[d]] # Object[d] /\ thread[Releaser[d]] # Object[d] /\ thread[Receiver[d]] = Object[d]
      BY <2>1, Objects, Three DEF Opened, Is
    <3>3. QED  BY <3>1, <3>2 DEF Group
  <2>3. Waiters(Object[d]) = {Receiver[d]}
    BY <2>2, Three DEF Waiters
  <2>4. QED  BY <2>1, <2>3 DEF Opened, Sized
<1>2. ASSUME Runs("T_Self"), pc["T_Self"] = "put" PROVE count[Object["self"]] = 0
  <2>1. Self_Loop
    BY <1>2, SelfRuns DEF Runs, Ready
  <2>2. QED  BY <1>2, <2>1, Objects DEF Self_Loop, NoCount, Is
<1>3. QED  BY <1>1, <1>2 DEF SameStep

\* Every variable has its type and the gates are only given at zero, for every
\* number of iterations and of sizes (src/itc/*.c).
THEOREM Types == Spec => []TypeOK
<1>1. QED  BY Invariance, TypeHolds, PTL

\* When the releaser feeds the series, the window it has opened holds the two
\* markers and nothing else has happened: both threads are back at their gates.
THEOREM Settled == Spec => []MarkersSettled
<1>1. QED  BY Invariance, SettledHolds, PTL

\* A message always meets the waiting receiver, at the size of the series.
THEOREM Sizes == Spec => []SameStep
<1>1. QED  BY Invariance, SameStepHolds, PTL

-----------------------------------------------------------------------------
(***************************************************************************)
(* The program implements Transaction.                                     *)
(***************************************************************************)
\* The series that the loops have reached is the one that is due.
LEMMA IsDue ==
    ASSUME IInv, NEW s \in Scenario, AtLoop(s), s # "self" => Full("self"), s = "down" => Full("up")
    PROVE  step \in Transaction!Sizes /\ Transaction!Due(s, step)
<1>0. /\ step \in 0..(MESSAGE_SIZE_STEPS - 1) /\ MESSAGE_SIZE_STEPS \in Nat \ {0}
      /\ i \in 0..(MEASUREMENT_COUNT - 1) /\ MEASUREMENT_COUNT \in Nat \ {0}
  BY CountAssumption DEF IInv, InType, Steps
<1>1. step \in Transaction!Sizes /\ Steps = Transaction!Sizes
  BY <1>0 DEF Transaction!Sizes, Steps
<1>2. samples[s][step] < MEASUREMENT_COUNT
  BY <1>0, <1>1 DEF AtLoop
<1>3. \A m \in 0..(step - 1) : samples[s][m] = MEASUREMENT_COUNT
  <2>1. ASSUME NEW m \in 0..(step - 1) PROVE m \in Steps /\ m < step
    BY <1>0 DEF Steps
  <2>2. QED  BY <2>1 DEF AtLoop
<1>4. \E k \in 1..3 :
         /\ <<"self", "up", "down">>[k] = s
         /\ \A j \in 1..(k - 1), m \in Transaction!Sizes :
               samples[<<"self", "up", "down">>[j]][m] = MEASUREMENT_COUNT
  <2>1. CASE s = "self"
    <3>1. <<"self", "up", "down">>[1] = s /\ 1..(1 - 1) = {}
      BY <2>1
    <3>2. QED  BY <3>1
  <2>2. CASE s = "up"
    <3>1. <<"self", "up", "down">>[2] = s /\ \A j \in 1..(2 - 1) : <<"self", "up", "down">>[j] = "self"
      BY <2>2
    <3>2. QED  BY <1>1, <2>2, <3>1 DEF Full
  <2>3. CASE s = "down"
    <3>1. /\ <<"self", "up", "down">>[3] = s
          /\ \A j \in 1..(3 - 1) : <<"self", "up", "down">>[j] \in {"self", "up"}
      BY <2>3
    <3>2. \A r \in {"self", "up"}, m \in Steps : samples[r][m] = MEASUREMENT_COUNT
      BY <2>3 DEF Full
    <3>3. QED  BY <1>1, <3>1, <3>2
  <2>4. QED  BY <2>1, <2>2, <2>3 DEF Scenario, Dir
<1>5. DOMAIN <<"self", "up", "down">> = 1..3
  OBVIOUS
<1>6. QED  BY <1>1, <1>2, <1>3, <1>4, <1>5 DEF Transaction!Due

\* A step that leaves the window closed and feeds no series is a stutter.
LEMMA ClosedStutters ==
    ASSUME Closed, measured' = measured
    PROVE  UNCHANGED Transaction!tvars
BY DEF Closed, measured, Delivered, Transaction!tvars

\* The scenarios of the abstract specification are those of the program.
LEMMA TheScenarios == Transaction!Scenario = Scenario
<1>1. DOMAIN <<"self", "up", "down">> = 1..3
  OBVIOUS
<1>2. /\ <<"self", "up", "down">>[1] = "self" /\ <<"self", "up", "down">>[2] = "up"
      /\ <<"self", "up", "down">>[3] = "down"
      /\ 1..3 = {1, 2, 3}
  OBVIOUS
<1>3. QED  BY <1>1, <1>2 DEF Transaction!Scenario, Scenario, Dir

\* The initial state maps to the initial state.
LEMMA InitMaps == Init => Transaction!Init
<1> SUFFICES ASSUME Init PROVE Transaction!Init
  OBVIOUS
<1>1. Delivered = {} /\ window = "closed"
  BY DEF Init, Delivered
<1>2. Steps = Transaction!Sizes
  BY DEF Steps, Transaction!Sizes
<1>3. samples = [s \in Transaction!Scenario |-> [n \in Transaction!Sizes |-> 0]]
  BY <1>2, TheScenarios DEF Init
<1>4. QED  BY <1>1, <1>3 DEF Transaction!Init

\* T_Self opens its window, takes the message and records it; its other steps
\* leave the abstract state alone.
LEMMA SelfMaps ==
    ASSUME IInv, InType',
           \/ Self_WaitStart \/ Self_Put \/ Self_Get
           \/ Self_Stop \/ Self_PostDone \/ Self_Suspend
    PROVE  [Transaction!Next]_(Transaction!tvars)
<1>i. InType /\ "T_Self" \in Task /\ "self" \in Scenario /\ "self" \in Transaction!Scenario
  BY Names, Objects, TheScenarios DEF IInv
<1>a. ASSUME NEW l, NEW m, Step("T_Self", l, m)
      PROVE  thread["T_Self"] = "ready" /\ pc["T_Self"] = l /\ pc'["T_Self"] = m
  BY <1>a, <1>i, StepEffect
<1>1. CASE Self_WaitStart \/ Self_PostDone \/ Self_Suspend
  <2>1. Self_Setup \/ Self_End
    BY <1>1, <1>a, SelfRuns DEF Self_WaitStart, Self_PostDone, Self_Suspend
  <2>2. measured' = measured
    BY <1>1 DEF Self_WaitStart, Self_PostDone, Self_Suspend
  <2>3. QED  BY <2>1, <2>2, ClosedStutters DEF Self_Setup, Self_End, AtStart
<1>2. CASE Self_Put
  <2>1. Self_Loop /\ Is("T_Self", "ready", "put") /\ pc'["T_Self"] = "get"
    BY <1>2, <1>a, SelfRuns DEF Self_Put, Is
  <2>2. Closed /\ AtLoop("self")
    BY <2>1 DEF Self_Loop, Is
  <2>3. window' = "self" /\ samples' = samples
    BY <1>2 DEF Self_Put
  <2>4. Delivered = {} /\ Delivered' = {}
    BY <2>1, <2>2, <2>3 DEF Delivered, Closed
  <2>5. Transaction!Open("self")
    BY <1>i, <2>2, <2>3, <2>4, IsDue DEF Transaction!Open, Closed
  <2>6. QED  BY <1>i, <2>5 DEF Transaction!Next
<1>3. CASE Self_Get
  <2>1. Self_Loop /\ Is("T_Self", "ready", "get") /\ pc'["T_Self"] = "stop"
    BY <1>3, <1>a, SelfRuns DEF Self_Get, Is
  <2>2. /\ AtLoop("self") /\ window = "self"
        /\ \A s \in Sems : count[s] = IF s = Object["self"] THEN 1 ELSE 0
    BY <2>1 DEF Self_Loop, Is
  <2>3. thread' = thread
    BY <1>3, <1>i, <2>2, FetchEffect, Objects DEF Self_Get
  <2>4. window' = window /\ samples' = samples /\ step' = step
    BY <1>3 DEF Self_Get, measured
  <2>5. Delivered = {} /\ Delivered' = {step}
    BY <2>1, <2>2, <2>3, <2>4 DEF Delivered, Is
  <2>6. Transaction!Transfer("self")
    BY <1>i, <2>2, <2>4, <2>5, IsDue DEF Transaction!Transfer
  <2>7. QED  BY <1>i, <2>6 DEF Transaction!Next
<1>4. CASE Self_Stop
  <2>1. \E m : Step("T_Self", "stop", m)
    BY <1>4, <1>i, IterationEffect DEF Self_Stop
  <2>2. Self_Loop /\ Is("T_Self", "ready", "stop")
    BY <2>1, <1>a, SelfRuns DEF Is
  <2>3. window = "self"
    BY <2>2 DEF Self_Loop, Is
  <2>4. window' = "closed" /\ samples' = [samples EXCEPT !["self"][step] = @ + 1]
    BY <1>4 DEF Self_Stop, Iterate
  <2>5. Delivered = {step} /\ Delivered' = {}
    BY <2>2, <2>3, <2>4 DEF Delivered, Is
  <2>6. Transaction!Record("self")
    BY <2>3, <2>4, <2>5 DEF Transaction!Record
  <2>7. QED  BY <1>i, <2>6 DEF Transaction!Next
<1>5. QED  BY <1>1, <1>2, <1>3, <1>4

\* In each direction the releaser opens the window, the receiver's stop marker
\* completes the transfer, and the releaser records it.
LEMMA DirMaps ==
    ASSUME IInv, InType', NEW d \in Dir,
           \/ Send_WaitStart(d) \/ Send_Take(d) \/ Send_Put(d)
           \/ Recv_Take(d) \/ Recv_Get(d) \/ Recv_Stop(d)
           \/ Arm_WaitStart(d) \/ Arm_GiveRecv(d) \/ Arm_GiveArm(d)
           \/ Arm_Iterate(d) \/ Arm_PostDone(d) \/ Arm_Suspend(d)
    PROVE  [Transaction!Next]_(Transaction!tvars)
<1> USE Three
<1>i. /\ InType /\ d \in Scenario /\ d \in Transaction!Scenario /\ d # "closed" /\ d # "self"
      /\ d # "self" => d \in {"up", "down"}
  BY TheScenarios DEF IInv, Dir
<1>d. ASSUME DirPhase(d), Loop(d)
      PROVE  step \in Transaction!Sizes /\ Transaction!Due(d, step)
  BY <1>d, <1>i, IsDue, Progress
<1>1. CASE \/ Send_WaitStart(d) \/ Recv_Take(d) \/ Recv_Get(d) \/ Arm_WaitStart(d)
           \/ Arm_GiveRecv(d) \/ Arm_PostDone(d) \/ Arm_Suspend(d)
  <2>1. \E m : \/ Step(Sender[d], "wait_start", m)
               \/ \E l \in {"take", "get"} : Step(Receiver[d], l, m)
               \/ \E l \in {"wait_start", "give_recv", "post_done", "suspend"} :
                     Step(Releaser[d], l, m)
    BY <1>1 DEF Send_WaitStart, Recv_Take, Recv_Get, Arm_WaitStart, Arm_GiveRecv, Arm_PostDone,
                Arm_Suspend
  <2>2. Setup(d) \/ End(d) \/ Rest(d) \/ Released(d)
    BY <2>1, DirStepEffect, SendRuns, RecvRuns, ArmRuns
  <2>3. Closed
    BY <2>2 DEF Setup, End, Rest, Released, AtStart
  <2>4. measured' = measured
    BY <1>1 DEF Send_WaitStart, Recv_Take, Recv_Get, Arm_WaitStart, Arm_GiveRecv, Arm_PostDone,
                Arm_Suspend
  <2>5. QED  BY <2>3, <2>4, ClosedStutters
<1>2. CASE Send_Take(d)
  <2>1. loop' = loop /\ measured' = measured
    BY <1>2 DEF Send_Take
  <2>2. Rest(d) \/ Sent(d)
    BY <1>2, DirStepEffect, SendRuns DEF Send_Take
  <2>3. CASE Rest(d)
    BY <2>1, <2>3, ClosedStutters DEF Rest
  <2>4. CASE Sent(d)
    <3>1. window = d /\ window' = window /\ markers' = markers /\ received' = received
      BY <2>1, <2>4 DEF Sent, loop, measured
    <3>2. Delivered' = Delivered
      BY <1>i, <3>1 DEF Delivered
    <3>3. QED  BY <2>1, <3>2 DEF measured, Transaction!tvars
  <2>5. QED  BY <2>2, <2>3, <2>4
<1>3. CASE Send_Put(d)
  <2>1. Opened(d)
    BY <1>3, DirStepEffect, SendRuns DEF Send_Put
  <2>2. /\ window' = window /\ samples' = samples /\ window = d
        /\ markers = <<>> /\ markers' = <<"start">>
    BY <1>3, <2>1 DEF Send_Put, Opened
  <2>3. Delivered = {} /\ Delivered' = {}
    BY <1>i, <2>2, Markers DEF Delivered
  <2>4. QED  BY <2>2, <2>3 DEF Transaction!tvars
<1>4. CASE Recv_Stop(d)
  <2>1. DirPhase(d) /\ Loop(d) /\ Sent(d) /\ markers = <<"start">>
    BY <1>4, DirStepEffect, RecvRuns DEF Recv_Stop
  <2>2. window = d /\ window' = d /\ samples' = samples /\ received = step /\ received' = step
    BY <1>4, <2>1 DEF Recv_Stop, Sent, loop
  <2>3. markers' = <<"start", "stop">>
    BY <1>4, <2>1, StopMarker DEF Recv_Stop
  <2>4. Delivered = {} /\ Delivered' = {step}
    BY <1>i, <2>1, <2>2, <2>3, Markers DEF Delivered
  <2>5. Transaction!Transfer(d)
    BY <1>d, <2>1, <2>2, <2>4 DEF Transaction!Transfer
  <2>6. QED  BY <1>i, <2>5 DEF Transaction!Next
<1>5. CASE Arm_GiveArm(d)
  <2>1. DirPhase(d) /\ Loop(d) /\ Released(d)
    BY <1>5, DirStepEffect, ArmRuns DEF Arm_GiveArm
  <2>2. window = "closed" /\ window' = d /\ samples' = samples /\ markers' = <<>>
    BY <1>5, <2>1 DEF Arm_GiveArm, Released, Closed
  <2>3. Delivered = {} /\ Delivered' = {}
    BY <1>i, <2>2, Markers DEF Delivered
  <2>4. Transaction!Open(d)
    BY <1>d, <2>1, <2>2, <2>3 DEF Transaction!Open
  <2>5. QED  BY <1>i, <2>4 DEF Transaction!Next
<1>6. CASE Arm_Iterate(d)
  <2>1. \E m : Step(Releaser[d], "iterate", m)
    BY <1>6, <1>i, IterationEffect DEF Arm_Iterate
  <2>2. Sent(d) /\ Both
    BY <2>1, DirStepEffect, ArmRuns
  <2>3. window = d /\ received = step /\ markers = <<"start", "stop">>
    BY <2>2 DEF Sent, Both
  <2>4. window' = "closed" /\ samples' = [samples EXCEPT ![d][step] = @ + 1]
    BY <1>6 DEF Arm_Iterate, Iterate
  <2>5. Delivered = {step} /\ Delivered' = {}
    BY <1>i, <2>3, <2>4 DEF Delivered
  <2>6. Transaction!Record(d)
    BY <2>3, <2>4, <2>5 DEF Transaction!Record
  <2>7. QED  BY <1>i, <2>6 DEF Transaction!Next
<1>7. QED  BY <1>1, <1>2, <1>3, <1>4, <1>5, <1>6

\* I_Task runs only between the scenarios, when the window is closed.
LEMMA ControlMaps ==
    ASSUME IInv, I_Create \/ I_Post \/ I_Wait \/ I_Abort \/ I_Reset
    PROVE  [Transaction!Next]_(Transaction!tvars)
<1>1. Runs("I_Task") /\ measured' = measured
  BY DEF I_Create, I_Post, I_Wait, I_Abort, I_Reset, I_Call, measured
<1>2. Closed
  BY <1>1, ControlEffect, ControlRuns DEF IInv, Self_Setup, Self_End, Setup, End, AtStart
<1>3. QED  BY <1>1, <1>2, ClosedStutters

\* Each of the six programs implements Transaction: its steps are an opening
\* of a window, a transfer, a record, or nothing.
THEOREM Refinement == Spec => Transaction!Init /\ [][Transaction!Next]_(Transaction!tvars)
<1>1. IInv /\ [Next]_vars => [Transaction!Next]_(Transaction!tvars)
  <2> SUFFICES ASSUME IInv, [Next]_vars PROVE [Transaction!Next]_(Transaction!tvars)
    OBVIOUS
  <2>1. InType'
    BY TypeStep DEF IInv
  <2>2. CASE UNCHANGED vars
    BY <2>2 DEF vars, Delivered, Transaction!tvars
  <2>3. I_Signalize => UNCHANGED vars
    BY DEF I_Signalize
  <2>4. QED  BY <2>1, <2>2, <2>3, SelfMaps, DirMaps, ControlMaps DEF Next
<1>2. QED  BY <1>1, InitMaps, Invariance, PTL DEF Spec
=============================================================================
