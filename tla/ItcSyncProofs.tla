--------------------------- MODULE ItcSyncProofs ---------------------------
(***************************************************************************)
(* Theorems about ItcSync, for both programs, every number of iterations   *)
(* and every number of message sizes.                                      *)
(*                                                                         *)
(* As in ItcAsyncProofs the position of I_Task in Control says which       *)
(* direction is measured.  Here the order of the sender and the receiver   *)
(* matters as well: it decides which of the two takes its stop marker      *)
(* first.                                                                  *)
(***************************************************************************)
EXTENDS ItcSync, SequenceTheorems, TLAPS

Gates == {"test_arm_sem", "test_recv_sem"}
Sems == Gates \cup {Receiving, Sending, Matched}
Bits == {START[d] : d \in Dir} \cup {DONE[d] : d \in Dir}
Group(d) == {Sender[d], Receiver[d], Releaser[d]}
Labels == {"wait_start", "take", "put", "stop", "get", "dispose", "give_recv", "give_arm",
           "iterate", "post_done", "suspend", "control"}

InType ==
    /\ thread \in [Task -> {"none", "ready", "suspended", "dead"} \cup Sems \cup Bits]
    /\ count \in [Sems -> Nat]
    /\ pc \in [Task -> Labels]
    /\ control \in 1..19
    /\ step \in Steps
    /\ i \in 0..(MEASUREMENT_COUNT - 1)
    /\ samples \in [Dir -> [Series -> [Steps -> Nat]]]
    /\ kind \in {"mailbox_sync", "pipe_sync"}

Is(t, state, label) == thread[t] = state /\ pc[t] = label

\* How far the series of a direction have come: not begun, complete, or at the
\* iteration that the two loops have reached.
Zero(d) == \A s \in Series, n \in Steps : samples[d][s][n] = 0
Full(d) == \A s \in Series, n \in Steps : samples[d][s][n] = MEASUREMENT_COUNT
AtLoop(d) ==
    \A s \in Series, n \in Steps :
        samples[d][s][n] = IF n < step THEN MEASUREMENT_COUNT ELSE IF n = step THEN i ELSE 0

Closed == window = "closed"
AtStart == Closed /\ step = 0 /\ i = 0
NoCount == \A s \in Sems : count[s] = 0

Unborn(d) ==
    /\ Is(Sender[d], "none", "wait_start") /\ Is(Receiver[d], "none", "take")
    /\ Is(Releaser[d], "none", "wait_start")
Dead(d) == \A t \in Group(d) : thread[t] = "dead"

\* The position of I_Task in Control when it creates the sender.
Base(d) == IF d = "up" THEN 1 ELSE 11

Setup(d) ==
    /\ AtStart /\ Zero(d) /\ events = {}
    /\ \/ Unborn(d) /\ control \in (IF d = "up" THEN {1} ELSE {9, 10, 11})
       \/ /\ control = Base(d) + 1
          /\ Is(Sender[d], "ready", "wait_start") \/ Is(Sender[d], START[d], "take")
          /\ Is(Receiver[d], "none", "take") /\ Is(Releaser[d], "none", "wait_start")
       \/ /\ control = Base(d) + 2
          /\ Is(Sender[d], START[d], "take")
          /\ Is(Receiver[d], "ready", "take") \/ Is(Receiver[d], "test_recv_sem", "get")
          /\ Is(Releaser[d], "none", "wait_start")
       \/ /\ control = Base(d) + 3
          /\ Is(Sender[d], START[d], "take")
          /\ Is(Receiver[d], "test_recv_sem", "get")
          /\ Is(Releaser[d], "ready", "wait_start") \/ Is(Releaser[d], START[d], "give_recv")

\* The releaser is at the head of its loops; the sender gets to its gate first.
\* The size is set only at the head of the outer loop.
Rest(d) ==
    /\ Closed /\ (i # 0 => active = step)
    /\ Is(Sender[d], "ready", "take") \/ Is(Sender[d], "test_arm_sem", "put")
    /\ Is(Receiver[d], "test_recv_sem", "get")
    /\ Is(Releaser[d], "ready", "give_recv")

\* The step is set, and the descriptors are fresh.
Sized == active = step /\ (kind = "mailbox_sync" => armed = {step})

\* Where the receiver continues when a message comes.
Handed == IF kind = "mailbox_sync" THEN "dispose" ELSE "stop"

\* The receiver is released, then waits in the object with the size of the step.
Released(d) ==
    /\ Closed /\ Sized
    /\ Is(Sender[d], "test_arm_sem", "put") /\ Is(Releaser[d], "ready", "give_arm")
    /\ \/ Is(Receiver[d], "ready", "get")
       \/ Is(Receiver[d], Receiving, Handed) /\ received = step

Opened(d) ==
    /\ window = d /\ markers = <<>> /\ Sized /\ received = step
    /\ Is(Sender[d], "ready", "put") /\ Is(Receiver[d], Receiving, Handed)
    /\ Is(Releaser[d], "ready", "iterate")

\* What is the same from the sender's call to the end of the window.
Sent(d) ==
    /\ window = d /\ received = step /\ active = step
    /\ Is(Releaser[d], "ready", "iterate")

\* The mailbox's sender waits until the receiver has disposed of the message.
Matching(d) ==
    /\ kind = "mailbox_sync" /\ markers = <<"start">>
    /\ Is(Sender[d], Matched, "stop") /\ Is(Receiver[d], "ready", "dispose")

\* Both return from their calls.
Returning(d) ==
    /\ markers = <<"start">>
    /\ Is(Sender[d], "ready", "stop") /\ Is(Receiver[d], "ready", "stop")

\* The more urgent one has taken its marker and is back at its gate.
OneBack(d) ==
    \/ /\ d = "up" /\ markers = <<"start", "direct">>
       /\ Is(Sender[d], "ready", "stop") /\ Is(Receiver[d], "test_recv_sem", "get")
    \/ /\ d = "down" /\ markers = <<"start", "rendezvous">>
       /\ Is(Sender[d], "test_arm_sem", "put") /\ Is(Receiver[d], "ready", "stop")

\* Both are back, and the releaser runs.
All3(d) == IF d = "up" THEN <<"start", "direct", "rendezvous">> ELSE <<"start", "rendezvous", "direct">>
BothBack(d) ==
    /\ markers = All3(d)
    /\ Is(Sender[d], "test_arm_sem", "put") /\ Is(Receiver[d], "test_recv_sem", "get")

Loop(d) ==
    /\ control = Base(d) + 4 /\ AtLoop(d) /\ events = {}
    /\ \/ Rest(d) \/ Released(d) \/ Opened(d)
       \/ Sent(d) /\ (Matching(d) \/ Returning(d) \/ OneBack(d) \/ BothBack(d))

\* The series are complete; I_Task waits and aborts the three threads.
End(d) ==
    /\ AtStart /\ Full(d)
    /\ \/ /\ control = Base(d) + 4
          /\ thread[Sender[d]] = "test_arm_sem" /\ thread[Receiver[d]] = "test_recv_sem"
          /\ \/ events = {} /\ Is(Releaser[d], "ready", "post_done")
             \/ events = {DONE[d]} /\ Is(Releaser[d], "ready", "suspend")
             \/ events = {DONE[d]} /\ Is(Releaser[d], "suspended", "suspend")
       \/ /\ control = Base(d) + 5 /\ events = {}
          /\ thread[Sender[d]] = "test_arm_sem" /\ thread[Receiver[d]] = "test_recv_sem"
          /\ thread[Releaser[d]] = "suspended"
       \/ /\ control = Base(d) + 6 /\ events = {}
          /\ thread[Sender[d]] = "dead" /\ thread[Receiver[d]] = "test_recv_sem"
          /\ thread[Releaser[d]] = "suspended"
       \/ /\ control = Base(d) + 7 /\ events = {}
          /\ thread[Sender[d]] = "dead" /\ thread[Receiver[d]] = "dead"
          /\ thread[Releaser[d]] = "suspended"
       \/ d = "down" /\ control = Base(d) + 8 /\ events = {} /\ Dead(d)

DirPhase(d) ==
    /\ NoCount
    /\ d = "up" => Unborn("down") /\ Zero("down")
    /\ d = "down" => Dead("up") /\ Full("up")
    /\ Setup(d) \/ Loop(d) \/ End(d)

IInv ==
    /\ InType
    /\ thread["I_Task"] = "ready"
    /\ \E d \in Dir : DirPhase(d)

-----------------------------------------------------------------------------
\* The names of the threads of the two directions are all different; the
\* releaser is the least urgent of the three, and the receiver precedes the
\* sender up, the sender the receiver down.
LEMMA Names ==
    /\ Task = {"I_Task"} \cup Group("up") \cup Group("down")
    /\ "up" \in Dir /\ "down" \in Dir /\ \A d \in Dir : d = "up" \/ d = "down"
    /\ \A d \in Dir :
          /\ Group(d) \subseteq Task
          /\ "I_Task" \notin Group(d)
          /\ Sender[d] # Receiver[d] /\ Sender[d] # Releaser[d] /\ Receiver[d] # Releaser[d]
          /\ \A e \in Dir \ {d} : Group(d) \cap Group(e) = {}
          /\ ~ prio[Releaser[d]] <= prio[Sender[d]] /\ ~ prio[Releaser[d]] <= prio[Receiver[d]]
    /\ ~ prio[Sender["up"]] <= prio[Receiver["up"]]
    /\ ~ prio[Receiver["down"]] <= prio[Sender["down"]]
    /\ \A t \in Task : prio[t] \in Nat
    /\ \A t \in Task \ {"I_Task"} : ~ prio["I_Task"] <= prio[t]
BY DEF Task, prio, Group, Sender, Receiver, Releaser, Dir

\* The names of the objects and events are different from each other and from
\* the states of a thread.
LEMMA Objects ==
    /\ Sems = {"test_arm_sem", "test_recv_sem", Receiving, Sending, Matched}
    /\ Receiving \notin Gates /\ Sending \notin Gates /\ Matched \notin Gates
    /\ Receiving # Sending /\ Receiving # Matched /\ Sending # Matched
    /\ Sems \cap {"none", "ready", "suspended", "dead"} = {}
    /\ \A d \in Dir :
          /\ START[d] \in Bits /\ DONE[d] \in Bits /\ START[d] # DONE[d]
          /\ START[d] \notin {"none", "ready", "suspended", "dead"} \cup Sems
          /\ DONE[d] \notin {"none", "ready", "suspended", "dead"} \cup Sems
BY DEF Dir, START, DONE, Bits, Sems, Gates, Receiving, Sending, Matched

\* The three threads of direction d, for the proofs below.
LEMMA Three ==
    ASSUME NEW d \in Dir
    PROVE  /\ Sender[d] \in Group(d) /\ Receiver[d] \in Group(d) /\ Releaser[d] \in Group(d)
           /\ Sender[d] \in Task /\ Receiver[d] \in Task /\ Releaser[d] \in Task
           /\ Sender[d] # Receiver[d] /\ Sender[d] # Releaser[d] /\ Receiver[d] # Releaser[d]
           /\ "test_arm_sem" \in Sems /\ "test_recv_sem" \in Sems
           /\ START[d] \in Bits /\ DONE[d] \in Bits
BY Names, Objects DEF Group

\* The calls of I_Task, one by one.
LEMMA Calls ==
    /\ Len(Control) = 18
    /\ Control[9] = Call("reset", "test_arm_sem") /\ Control[10] = Call("reset", "test_recv_sem")
    /\ \A d \in Dir :
          /\ Control[Base(d)] = Call("create", Sender[d])
          /\ Control[Base(d) + 1] = Call("create", Receiver[d])
          /\ Control[Base(d) + 2] = Call("create", Releaser[d])
          /\ Control[Base(d) + 3] = Call("post", START[d])
          /\ Control[Base(d) + 4] = Call("wait", DONE[d])
          /\ Control[Base(d) + 5] = Call("abort", Sender[d])
          /\ Control[Base(d) + 6] = Call("abort", Receiver[d])
          /\ Control[Base(d) + 7] = Call("abort", Releaser[d])
BY DEF Control, Phase, Call, Dir, Base

\* Every call of I_Task names an object of its kind.
LEMMA CallTypes ==
    \A k \in 1..18 :
        /\ Control[k].call \in {"create", "abort"} => Control[k].on \in Task
        /\ Control[k].call \in {"post", "wait"} => Control[k].on \in Bits
        /\ Control[k].call = "reset" => Control[k].on \in Gates
<1>0. "up" \in Dir /\ "down" \in Dir /\ Base("up") = 1 /\ Base("down") = 11
  BY DEF Dir, Base
<1>1. ASSUME NEW d \in Dir, NEW k \in Base(d)..(Base(d) + 7)
      PROVE  /\ Control[k].call \in {"create", "abort"} => Control[k].on \in Task
             /\ Control[k].call \in {"post", "wait"} => Control[k].on \in Bits
             /\ Control[k].call = "reset" => Control[k].on \in Gates
  <2>1. Base(d) \in Nat
    BY DEF Base
  <2>2. k - Base(d) \in 0..7 /\ k = Base(d) + (k - Base(d))
    BY <2>1
  <2>3. \/ k = Base(d) \/ k = Base(d) + 1 \/ k = Base(d) + 2 \/ k = Base(d) + 3
        \/ k = Base(d) + 4 \/ k = Base(d) + 5 \/ k = Base(d) + 6 \/ k = Base(d) + 7
    BY <2>1, <2>2
  <2>4. \/ \E t \in Task, c \in {"create", "abort"} : Control[k] = Call(c, t)
        \/ \E e \in Bits, c \in {"post", "wait"} : Control[k] = Call(c, e)
    BY <2>3, Calls, Three
  <2>5. \A t, c : Call(c, t).call = c /\ Call(c, t).on = t
    BY DEF Call
  <2>6. QED  BY <2>4, <2>5
<1>2. \A k \in {9, 10} :
          /\ Control[k].call \in {"create", "abort"} => Control[k].on \in Task
          /\ Control[k].call \in {"post", "wait"} => Control[k].on \in Bits
          /\ Control[k].call = "reset" => Control[k].on \in Gates
  BY Calls DEF Call, Gates
<1>3. \A k \in 1..18 : k \in {9, 10} \/ k \in 1..8 \/ k \in 11..18
  OBVIOUS
<1>4. QED  BY <1>0, <1>1, <1>2, <1>3

\* What Append returns, from its elements.
LEMMA AppendIs ==
    ASSUME NEW S, NEW s \in Seq(S), NEW e \in S, NEW t \in Seq(S), Len(t) = Len(s) + 1,
           \A k \in 1..Len(s) : t[k] = s[k], t[Len(s) + 1] = e
    PROVE  Append(s, e) = t
<1>1. /\ Append(s, e) \in Seq(S) /\ Len(Append(s, e)) = Len(s) + 1
      /\ \A k \in 1..Len(s) : Append(s, e)[k] = s[k]
      /\ Append(s, e)[Len(s) + 1] = e
  BY AppendProperties
<1>2. Len(s) \in Nat
  OBVIOUS
<1>3. \A k \in 1..Len(t) : Append(s, e)[k] = t[k]
  BY <1>1, <1>2
<1>4. QED  BY <1>1, <1>3

\* The second marker of a window, then the third.
LEMMA MarkerTaken ==
    ASSUME NEW a \in {"direct", "rendezvous"}, NEW b \in {"direct", "rendezvous"}
    PROVE  /\ Append(<<"start">>, a) = <<"start", a>>
           /\ Append(<<"start", a>>, b) = <<"start", a, b>>
<1> DEFINE S == {"start", "direct", "rendezvous"}
           r == <<"start">>
           s == <<"start", a>>
           t == <<"start", a, b>>
<1>1. /\ r \in Seq(S) /\ s \in Seq(S) /\ t \in Seq(S)
      /\ Len(r) = 1 /\ Len(s) = 2 /\ Len(t) = 3
      /\ s[1] = r[1] /\ s[2] = a /\ t[1] = s[1] /\ t[2] = s[2] /\ t[3] = b
      /\ a \in S /\ b \in S
  OBVIOUS
<1> HIDE DEF S, r, s, t
<1>2. /\ \A k \in 1..Len(r) : s[k] = r[k]
      /\ \A k \in 1..Len(s) : t[k] = s[k]
      /\ Len(s) = Len(r) + 1 /\ s[Len(r) + 1] = a
      /\ Len(t) = Len(s) + 1 /\ t[Len(s) + 1] = b
  BY <1>1
<1>3. Append(r, a) = s
  BY <1>1, <1>2, AppendIs
<1>4. Append(s, b) = t
  BY <1>1, <1>2, AppendIs
<1>5. QED  BY <1>3, <1>4 DEF r, s, t

-----------------------------------------------------------------------------
(***************************************************************************)
(* What Step and the kernel operations do, thread by thread.               *)
(***************************************************************************)
\* A step is taken by a thread that no ready thread precedes.
LEMMA StepEffect ==
    ASSUME InType, NEW t \in Task, NEW l, NEW m, Step(t, l, m)
    PROVE  /\ thread[t] = "ready" /\ pc[t] = l
           /\ \A u \in Task : thread[u] = "ready" => prio[t] <= prio[u]
           /\ \A u \in Task : pc'[u] = IF u = t THEN m ELSE pc[u]
           /\ control' = control /\ kind' = kind
BY DEF InType, Step, Runs, Ready

\* I_Task runs only when nothing else is ready.
LEMMA ControlEffect ==
    ASSUME InType, Runs("I_Task")
    PROVE  \A u \in Task : thread[u] = "ready" => u = "I_Task"
BY Names DEF InType, Runs, Ready

\* k_thread_create() makes one unborn thread ready.
LEMMA CreateEffect ==
    ASSUME InType, NEW t \in Task, Create(t)
    PROVE  /\ \A u \in Task : thread'[u] = IF u = t THEN "ready" ELSE thread[u]
           /\ events' = events /\ count' = count
BY DEF InType, Create

\* k_thread_abort() ends one thread.
LEMMA AbortEffect ==
    ASSUME InType, NEW t \in Task, Abort(t)
    PROVE  /\ \A u \in Task : thread'[u] = IF u = t THEN "dead" ELSE thread[u]
           /\ events' = events /\ count' = count
BY DEF InType, Abort

\* k_thread_suspend() suspends one thread.
LEMMA SuspendEffect ==
    ASSUME InType, NEW t \in Task, Suspend(t)
    PROVE  /\ \A u \in Task : thread'[u] = IF u = t THEN "suspended" ELSE thread[u]
           /\ events' = events /\ count' = count
BY DEF InType, Suspend

\* A closed gate pends the caller.
LEMMA PendEffect ==
    ASSUME InType, NEW t \in Task, NEW s \in Gates, SemTake(t, s), NoCount
    PROVE  /\ \A u \in Task : thread'[u] = IF u = t THEN s ELSE thread[u]
           /\ events' = events /\ count' = count
BY DEF InType, SemTake, NoCount, Sems

\* A give to the only thread at the gate makes it ready and leaves the gate closed.
LEMMA GiveEffect ==
    ASSUME InType, NEW t \in Task, NEW s \in Gates, SemGive(s),
           \A u \in Task : thread[u] = s <=> u = t
    PROVE  /\ \A u \in Task : thread'[u] = IF u = t THEN "ready" ELSE thread[u]
           /\ events' = events /\ count' = count
BY DEF InType, SemGive, IsHead, Waiters

\* A reset of a closed gate that nobody waits at changes nothing.
LEMMA ResetEffect ==
    ASSUME InType, NEW s \in Gates, SemReset(s), \A u \in Task : thread[u] # s, NoCount
    PROVE  /\ \A u \in Task : thread'[u] = thread[u]
           /\ events' = events /\ NoCount'
BY DEF InType, SemReset, NoCount

\* A send meets the only thread that waits for a message; the mailbox makes its
\* sender wait for the disposal, and uses up the descriptors.
LEMMA PutEffect ==
    ASSUME InType, NEW t \in Task, NEW r \in Task \ {t}, Put(t),
           \A u \in Task : thread[u] = Receiving <=> u = r
    PROVE  /\ \A u \in Task :
                 thread'[u] = IF u = r THEN "ready"
                              ELSE IF u = t /\ kind = "mailbox_sync" THEN Matched ELSE thread[u]
           /\ events' = events /\ count' = count
<1>1. Waiters(Receiving) = {r}
  BY DEF Waiters
<1>2. thread' = [thread EXCEPT ![r] = "ready",
                               ![t] = IF kind = "mailbox_sync" THEN Matched ELSE @]
  BY <1>1 DEF Put
<1>3. CASE kind = "mailbox_sync"
  BY <1>2, <1>3 DEF InType, Put
<1>4. CASE kind # "mailbox_sync"
  BY <1>2, <1>4 DEF InType, Put
<1>5. QED  BY <1>3, <1>4

\* A receive with nobody sending pends the caller in the object.
LEMMA GetEffect ==
    ASSUME InType, NEW t \in Task, Get(t), \A u \in Task : thread[u] # Sending
    PROVE  /\ \A u \in Task : thread'[u] = IF u = t THEN Receiving ELSE thread[u]
           /\ events' = events /\ count' = count /\ armed' = armed
<1>1. Waiters(Sending) = {}
  BY DEF Waiters
<1>2. QED  BY <1>1 DEF InType, Get

\* The disposal makes the matched sender ready again.
LEMMA DisposeEffect ==
    ASSUME InType, Dispose
    PROVE  /\ \A u \in Task : thread'[u] = IF thread[u] = Matched THEN "ready" ELSE thread[u]
           /\ events' = events /\ count' = count
BY DEF InType, Dispose

\* k_event_wait_safe() consumes the bit or pends the caller.
LEMMA WaitEffect ==
    ASSUME InType, NEW t \in Task, NEW e \in Bits, EventWait(t, e)
    PROVE  /\ \A u \in Task : thread'[u] = IF u = t /\ e \notin events THEN e ELSE thread[u]
           /\ events' = events \ {e} /\ count' = count
BY DEF InType, EventWait

\* k_event_post() wakes every waiter of the bit, or leaves it posted.
LEMMA PostEffect ==
    ASSUME InType, NEW e \in Bits, EventPost(e)
    PROVE  /\ \A u \in Task : thread'[u] = IF thread[u] = e THEN "ready" ELSE thread[u]
           /\ events' = IF \E u \in Task : thread[u] = e THEN events \ {e} ELSE events \cup {e}
           /\ count' = count
BY DEF InType, EventPost, Waiters

\* The kernel operations keep the kernel's state well typed.
LEMMA KernelTyping ==
    ASSUME InType, NEW t \in Task, NEW s \in Gates, NEW e \in Bits,
           \/ Create(t) \/ Abort(t) \/ Suspend(t) \/ Put(t) \/ Get(t) \/ Dispose
           \/ SemTake(t, s) \/ SemGive(s) \/ SemReset(s)
           \/ EventWait(t, e) \/ EventPost(e) \/ NoCall
    PROVE  /\ thread' \in [Task -> {"none", "ready", "suspended", "dead"} \cup Sems \cup Bits]
           /\ count' \in [Sems -> Nat]
<1> USE DEF InType
<1>0. s \in Sems /\ Receiving \in Sems /\ Sending \in Sems /\ Matched \in Sems
  BY DEF Sems
<1>1. CASE Create(t)  BY <1>1 DEF Create
<1>2. CASE Abort(t)  BY <1>2 DEF Abort
<1>3. CASE Suspend(t)  BY <1>3 DEF Suspend
<1>4. CASE Put(t)  BY <1>0, <1>4 DEF Put
<1>5. CASE Get(t)  BY <1>0, <1>5 DEF Get
<1>6. CASE Dispose  BY <1>6 DEF Dispose
<1>7. CASE SemTake(t, s)  BY <1>0, <1>7 DEF SemTake
<1>8. CASE SemGive(s)  BY <1>0, <1>8 DEF SemGive
<1>9. CASE SemReset(s)  BY <1>0, <1>9 DEF SemReset
<1>10. CASE EventWait(t, e)  BY <1>10 DEF EventWait
<1>11. CASE EventPost(e)  BY <1>11 DEF EventPost
<1>12. CASE NoCall  BY <1>12 DEF NoCall, kvars
<1>13. QED
  BY <1>1, <1>2, <1>3, <1>4, <1>5, <1>6, <1>7, <1>8, <1>9, <1>10, <1>11, <1>12

\* The end of the loop body goes to the next iteration, the next size or the end.
LEMMA IterationEffect ==
    ASSUME InType, NEW d \in Dir, Arm_Iterate(d)
    PROVE  /\ \/ /\ i + 1 < MEASUREMENT_COUNT /\ i' = i + 1 /\ step' = step
                 /\ Step(Releaser[d], "iterate", "give_recv")
              \/ /\ i + 1 = MEASUREMENT_COUNT /\ step + 1 < MESSAGE_SIZE_STEPS
                 /\ i' = 0 /\ step' = step + 1
                 /\ Step(Releaser[d], "iterate", "give_recv")
              \/ /\ i + 1 = MEASUREMENT_COUNT /\ step + 1 = MESSAGE_SIZE_STEPS
                 /\ i' = 0 /\ step' = 0
                 /\ Step(Releaser[d], "iterate", "post_done")
           /\ i' \in 0..(MEASUREMENT_COUNT - 1) /\ step' \in Steps
<1>0. /\ MEASUREMENT_COUNT \in Nat \ {0} /\ MESSAGE_SIZE_STEPS \in Nat \ {0}
      /\ i \in 0..(MEASUREMENT_COUNT - 1) /\ step \in 0..(MESSAGE_SIZE_STEPS - 1)
  BY CountAssumption DEF InType, Steps
<1>m. ASSUME NEW n \in Nat, NEW m \in Nat, n <= m, m # 0
      PROVE  n % m = IF n = m THEN 0 ELSE n
  BY <1>m
<1>1. /\ i' = (i + 1) % MEASUREMENT_COUNT
      /\ step' = IF i' # 0 THEN step ELSE (step + 1) % MESSAGE_SIZE_STEPS
      /\ Step(Releaser[d], "iterate", IF i' = 0 /\ step' = 0 THEN "post_done" ELSE "give_recv")
  BY DEF Arm_Iterate
<1>2. /\ (i + 1) % MEASUREMENT_COUNT = IF i + 1 = MEASUREMENT_COUNT THEN 0 ELSE i + 1
      /\ (step + 1) % MESSAGE_SIZE_STEPS = IF step + 1 = MESSAGE_SIZE_STEPS THEN 0 ELSE step + 1
  <2>1. i + 1 \in Nat /\ i + 1 <= MEASUREMENT_COUNT /\ MEASUREMENT_COUNT # 0
    BY <1>0
  <2>2. step + 1 \in Nat /\ step + 1 <= MESSAGE_SIZE_STEPS /\ MESSAGE_SIZE_STEPS # 0
    BY <1>0
  <2>3. QED  BY <1>0, <1>m, <2>1, <2>2
<1>3. CASE i + 1 < MEASUREMENT_COUNT
  <2>1. i' = i + 1 /\ i' # 0 /\ step' = step
    BY <1>0, <1>1, <1>2, <1>3
  <2>2. QED  BY <1>0, <1>1, <1>3, <2>1 DEF Steps
<1>4. CASE i + 1 = MEASUREMENT_COUNT /\ step + 1 < MESSAGE_SIZE_STEPS
  <2>1. i' = 0 /\ step' = step + 1 /\ step' # 0
    BY <1>0, <1>1, <1>2, <1>4
  <2>2. QED  BY <1>0, <1>1, <1>4, <2>1 DEF Steps
<1>5. CASE i + 1 = MEASUREMENT_COUNT /\ step + 1 = MESSAGE_SIZE_STEPS
  <2>1. i' = 0 /\ step' = 0
    BY <1>0, <1>1, <1>2, <1>5
  <2>2. QED  BY <1>0, <1>1, <1>5, <2>1 DEF Steps
<1>6. QED  BY <1>0, <1>3, <1>4, <1>5

\* One iteration of both series of the current size is counted.
LEMMA CountEffect ==
    ASSUME InType, NEW d \in Dir, Arm_Iterate(d)
    PROVE  /\ \A e \in Dir, s \in Series, n \in Steps :
                 samples'[e][s][n] =
                     IF e = d /\ n = step THEN samples[e][s][n] + 1 ELSE samples[e][s][n]
           /\ \A e \in Dir \ {d} : samples'[e] = samples[e]
           /\ samples' \in [Dir -> [Series -> [Steps -> Nat]]]
           /\ window' = "closed" /\ markers' = markers
           /\ thread' = thread /\ events' = events /\ count' = count
           /\ active' = active /\ armed' = armed /\ received' = received
<1>0. /\ thread' = thread /\ events' = events /\ count' = count
      /\ window' = "closed" /\ markers' = markers
      /\ active' = active /\ armed' = armed /\ received' = received
      /\ samples' = [samples EXCEPT ![d]["send"][step] = @ + 1, ![d]["rendezvous"][step] = @ + 1]
  BY DEF Arm_Iterate, NoCall, kvars
<1>1. samples' \in [Dir -> [Series -> [Steps -> Nat]]]
  BY <1>0 DEF InType, Series
<1>2. \A e \in Dir \ {d} : samples'[e] = samples[e]
  BY <1>0 DEF InType
<1>3. \A s \in Series, n \in Steps :
        samples'[d][s][n] = IF n = step THEN samples[d][s][n] + 1 ELSE samples[d][s][n]
  BY <1>0 DEF InType, Series
<1>4. QED  BY <1>0, <1>1, <1>2, <1>3

\* Both series advance with the loops, and are complete when they are.
LEMMA SeriesStep ==
    ASSUME InType, NEW d \in Dir, Arm_Iterate(d), AtLoop(d)
    PROVE  \/ AtLoop(d)' /\ Step(Releaser[d], "iterate", "give_recv") /\ (i' # 0 => step' = step)
           \/ Full(d)' /\ step' = 0 /\ i' = 0 /\ Step(Releaser[d], "iterate", "post_done")
<1>1. \A s \in Series, n \in Steps :
        samples'[d][s][n] = IF n = step THEN samples[d][s][n] + 1 ELSE samples[d][s][n]
  BY CountEffect
<1>2. \A s \in Series, n \in Steps :
        samples[d][s][n] = IF n < step THEN MEASUREMENT_COUNT ELSE IF n = step THEN i ELSE 0
  BY DEF AtLoop
<1>i. /\ step \in Nat /\ i \in Nat /\ MEASUREMENT_COUNT \in Nat
      /\ MESSAGE_SIZE_STEPS \in Nat /\ \A n \in Steps : n \in 0..(MESSAGE_SIZE_STEPS - 1)
  BY CountAssumption DEF InType, Steps
<1>3. CASE /\ i + 1 < MEASUREMENT_COUNT /\ i' = i + 1 /\ step' = step
           /\ Step(Releaser[d], "iterate", "give_recv")
  <2>1. ASSUME NEW s \in Series, NEW n \in Steps
        PROVE  samples'[d][s][n] =
                   IF n < step' THEN MEASUREMENT_COUNT ELSE IF n = step' THEN i' ELSE 0
    BY <1>i, <1>1, <1>2, <1>3
  <2>2. QED  BY <1>3, <2>1 DEF AtLoop
<1>4. CASE /\ i + 1 = MEASUREMENT_COUNT /\ step + 1 < MESSAGE_SIZE_STEPS
           /\ i' = 0 /\ step' = step + 1
           /\ Step(Releaser[d], "iterate", "give_recv")
  <2>1. ASSUME NEW s \in Series, NEW n \in Steps
        PROVE  samples'[d][s][n] =
                   IF n < step' THEN MEASUREMENT_COUNT ELSE IF n = step' THEN i' ELSE 0
    BY <1>i, <1>1, <1>2, <1>4
  <2>2. QED  BY <1>4, <2>1 DEF AtLoop
<1>5. CASE /\ i + 1 = MEASUREMENT_COUNT /\ step + 1 = MESSAGE_SIZE_STEPS
           /\ i' = 0 /\ step' = 0
           /\ Step(Releaser[d], "iterate", "post_done")
  <2>1. ASSUME NEW s \in Series, NEW n \in Steps PROVE samples'[d][s][n] = MEASUREMENT_COUNT
    <3>1. n < step \/ n = step
      BY <1>i, <1>5
    <3>2. QED  BY <1>i, <1>1, <1>2, <1>5, <3>1
  <2>2. QED  BY <1>5, <2>1 DEF Full
<1>6. QED  BY <1>3, <1>4, <1>5, IterationEffect

\* Every step keeps the state well typed.
LEMMA TypeStep == InType /\ [Next]_vars => InType'
<1> SUFFICES ASSUME InType, [Next]_vars PROVE InType'
  OBVIOUS
<1>0. /\ "I_Task" \in Task /\ "up" \in Dir
      /\ \A d \in Dir : Sender[d] \in Task /\ Receiver[d] \in Task /\ Releaser[d] \in Task
      /\ \A d \in Dir : START[d] \in Bits /\ DONE[d] \in Bits
      /\ Gates = {"test_arm_sem", "test_recv_sem"}
  BY Names, Objects, Three DEF Gates
<1>k. ASSUME NEW t \in Task, NEW s \in Gates, NEW e \in Bits,
             \/ Create(t) \/ Abort(t) \/ Suspend(t) \/ Put(t) \/ Get(t) \/ Dispose
             \/ SemTake(t, s) \/ SemGive(s) \/ SemReset(s)
             \/ EventWait(t, e) \/ EventPost(e) \/ NoCall
      PROVE  /\ thread' \in [Task -> {"none", "ready", "suspended", "dead"} \cup Sems \cup Bits]
             /\ count' \in [Sems -> Nat]
  BY <1>k, KernelTyping
<1>s. ASSUME NEW t \in Task, NEW l, NEW m \in Labels, Step(t, l, m)
      PROVE  /\ pc' \in [Task -> Labels] /\ control' \in 1..19
             /\ kind' \in {"mailbox_sync", "pipe_sync"}
  BY <1>s DEF Step, InType
<1>c. ASSUME NEW c \in {"create", "post", "wait", "abort", "reset"}, I_Call(c)
      PROVE  /\ control \in 1..18 /\ Control[control].call = c
             /\ pc' \in [Task -> Labels] /\ control' \in 1..19
             /\ kind' \in {"mailbox_sync", "pipe_sync"}
             /\ step' \in Steps /\ i' \in 0..(MEASUREMENT_COUNT - 1)
             /\ samples' \in [Dir -> [Series -> [Steps -> Nat]]]
  BY <1>c, Calls DEF I_Call, measured, InType
<1>1. ASSUME NEW d \in Dir, Send_WaitStart(d) \/ Send_Take(d) \/ Send_Stop(d) PROVE InType'
  BY <1>1, <1>0, <1>k, <1>s
  DEF Send_WaitStart, Send_Take, Send_Stop, InType, Labels, measured, loop
<1>2. ASSUME NEW d \in Dir, Send_Put(d) PROVE InType'
  BY <1>2, <1>0, <1>k, <1>s DEF Send_Put, InType, Labels
<1>3. ASSUME NEW d \in Dir, Recv_Take(d) \/ Recv_Dispose(d) \/ Recv_Stop(d) PROVE InType'
  BY <1>3, <1>0, <1>k, <1>s
  DEF Recv_Take, Recv_Dispose, Recv_Stop, InType, Labels, measured, loop
<1>4. ASSUME NEW d \in Dir, Recv_Get(d) PROVE InType'
  BY <1>4, <1>0, <1>k, <1>s DEF Recv_Get, InType, Labels, measured
<1>5. ASSUME NEW d \in Dir, Arm_WaitStart(d) \/ Arm_PostDone(d) \/ Arm_Suspend(d) PROVE InType'
  BY <1>5, <1>0, <1>k, <1>s
  DEF Arm_WaitStart, Arm_PostDone, Arm_Suspend, InType, Labels, measured, loop
<1>6. ASSUME NEW d \in Dir, Arm_GiveRecv(d) \/ Arm_GiveArm(d) PROVE InType'
  BY <1>6, <1>0, <1>k, <1>s DEF Arm_GiveRecv, Arm_GiveArm, InType, Labels, measured, loop
<1>7. ASSUME NEW d \in Dir, Arm_Iterate(d) PROVE InType'
  <2>1. \E m \in Labels : Step(Releaser[d], "iterate", m)
    BY <1>7, IterationEffect DEF Labels
  <2>2. QED  BY <1>7, <2>1, <1>0, <1>s, CountEffect, IterationEffect DEF InType
<1>8. CASE I_Create
  BY <1>8, <1>0, <1>k, <1>c, CallTypes DEF I_Create, InType
<1>9. CASE I_Post
  BY <1>9, <1>0, <1>k, <1>c, CallTypes DEF I_Post, InType
<1>10. CASE I_Wait
  BY <1>10, <1>0, <1>k, <1>c, CallTypes DEF I_Wait, InType
<1>11. CASE I_Abort
  BY <1>11, <1>0, <1>k, <1>c, CallTypes DEF I_Abort, InType
<1>12. CASE I_Reset
  BY <1>12, <1>0, <1>k, <1>c, CallTypes DEF I_Reset, InType
<1>13. CASE UNCHANGED vars
  BY <1>13 DEF vars, InType
<1>14. I_Signalize => UNCHANGED vars
  BY DEF I_Signalize
<1>15. QED
  BY <1>1, <1>2, <1>3, <1>4, <1>5, <1>6, <1>7, <1>8, <1>9, <1>10, <1>11, <1>12, <1>13,
     <1>14 DEF Next

-----------------------------------------------------------------------------
(***************************************************************************)
(* Where the direction is when each thread runs at each label.             *)
(***************************************************************************)
\* A thread of a direction is ready only while that direction is measured.
LEMMA DirRuns ==
    ASSUME IInv, NEW d \in Dir, NEW t \in Group(d), thread[t] = "ready"
    PROVE  DirPhase(d)
<1>1. ASSUME NEW e \in Dir, DirPhase(e) PROVE e = d
  BY <1>1 DEF DirPhase, Unborn, Dead, Is, Group, Dir
<1>2. QED  BY <1>1 DEF IInv

\* The sender waits for the start, then for its gate, sends, and takes the first
\* stop marker down, the second one up.
LEMMA SendRuns ==
    ASSUME IInv, NEW d \in Dir, thread[Sender[d]] = "ready",
           \A u \in Task : thread[u] = "ready" => prio[Sender[d]] <= prio[u]
    PROVE  /\ DirPhase(d)
           /\ pc[Sender[d]] = "wait_start" => Setup(d) /\ control = Base(d) + 1
           /\ pc[Sender[d]] = "take" => Loop(d) /\ Rest(d)
           /\ pc[Sender[d]] = "put" => Loop(d) /\ Opened(d)
           /\ pc[Sender[d]] = "stop" =>
                 /\ Loop(d) /\ Sent(d)
                 /\ (Returning(d) /\ d = "down") \/ (OneBack(d) /\ d = "up")
<1>0. "ready" # START[d] /\ "ready" # "test_arm_sem" /\ "ready" # Matched
  BY Objects
<1>1. DirPhase(d)
  BY DirRuns, Three
<1>2. Setup(d) => control = Base(d) + 1 /\ pc[Sender[d]] = "wait_start"
  BY <1>0 DEF Setup, Unborn, Is
<1>3. Loop(d) => \/ Rest(d) /\ pc[Sender[d]] = "take"
                 \/ Opened(d) /\ pc[Sender[d]] = "put"
                 \/ Sent(d) /\ (Returning(d) \/ (OneBack(d) /\ d = "up")) /\ pc[Sender[d]] = "stop"
  BY <1>0 DEF Loop, Rest, Released, Opened, Matching, Returning, OneBack, BothBack, Is
<1>4. Returning(d) => d = "down"
  BY Names, Three DEF Returning, Is
<1>5. ~ End(d)
  BY <1>0 DEF End, Dead, Group, Is
<1>6. Setup(d) \/ Loop(d)
  BY <1>1, <1>5 DEF DirPhase
<1>7. QED  BY <1>1, <1>2, <1>3, <1>4, <1>6

\* The receiver waits for its gate, then in the object, and takes the first stop
\* marker up, the second one down.
LEMMA RecvRuns ==
    ASSUME IInv, NEW d \in Dir, thread[Receiver[d]] = "ready",
           \A u \in Task : thread[u] = "ready" => prio[Receiver[d]] <= prio[u]
    PROVE  /\ DirPhase(d)
           /\ pc[Receiver[d]] = "take" => Setup(d) /\ control = Base(d) + 2
           /\ pc[Receiver[d]] = "get" => Loop(d) /\ Released(d)
           /\ pc[Receiver[d]] = "dispose" => Loop(d) /\ Sent(d) /\ Matching(d)
           /\ pc[Receiver[d]] = "stop" =>
                 /\ Loop(d) /\ Sent(d)
                 /\ (Returning(d) /\ d = "up") \/ (OneBack(d) /\ d = "down")
<1>0. "ready" # Receiving /\ "ready" # "test_recv_sem"
  BY Objects
<1>1. DirPhase(d)
  BY DirRuns, Three
<1>2. Setup(d) => control = Base(d) + 2 /\ pc[Receiver[d]] = "take"
  BY <1>0 DEF Setup, Unborn, Is
<1>3. Loop(d) => \/ Released(d) /\ pc[Receiver[d]] = "get"
                 \/ Sent(d) /\ Matching(d) /\ pc[Receiver[d]] = "dispose"
                 \/ Sent(d) /\ (Returning(d) \/ (OneBack(d) /\ d = "down")) /\ pc[Receiver[d]] = "stop"
  BY <1>0 DEF Loop, Rest, Released, Opened, Matching, Returning, OneBack, BothBack, Is
<1>4. Returning(d) => d = "up"
  BY Names, Three DEF Returning, Is
<1>5. ~ End(d)
  BY <1>0 DEF End, Dead, Group, Is
<1>6. Setup(d) \/ Loop(d)
  BY <1>1, <1>5 DEF DirPhase
<1>7. QED  BY <1>1, <1>2, <1>3, <1>4, <1>6

\* The releaser runs only when the sender and the receiver are both blocked.
LEMMA ArmRuns ==
    ASSUME IInv, NEW d \in Dir, thread[Releaser[d]] = "ready",
           \A u \in Task : thread[u] = "ready" => prio[Releaser[d]] <= prio[u]
    PROVE  /\ DirPhase(d)
           /\ pc[Releaser[d]] = "wait_start" => Setup(d) /\ control = Base(d) + 3
           /\ pc[Releaser[d]] = "give_recv" =>
                 Loop(d) /\ Rest(d) /\ Is(Sender[d], "test_arm_sem", "put")
           /\ pc[Releaser[d]] = "give_arm" =>
                 Loop(d) /\ Released(d) /\ Is(Receiver[d], Receiving, Handed) /\ received = step
           /\ pc[Releaser[d]] = "iterate" => Loop(d) /\ Sent(d) /\ BothBack(d)
           /\ pc[Releaser[d]] = "post_done" => End(d) /\ control = Base(d) + 4 /\ events = {}
           /\ pc[Releaser[d]] = "suspend" => End(d) /\ control = Base(d) + 4 /\ events = {DONE[d]}
<1>0. "ready" # START[d]
  BY Objects
<1>1. thread[Sender[d]] # "ready" /\ thread[Receiver[d]] # "ready"
  BY Names, Three
<1>2. DirPhase(d)
  BY DirRuns, Three
<1>3. Setup(d) => control = Base(d) + 3 /\ pc[Releaser[d]] = "wait_start"
  BY <1>0 DEF Setup, Unborn, Is
<1>4. Loop(d) =>
        \/ Rest(d) /\ Is(Sender[d], "test_arm_sem", "put") /\ pc[Releaser[d]] = "give_recv"
        \/ /\ Released(d) /\ Is(Receiver[d], Receiving, Handed) /\ received = step
           /\ pc[Releaser[d]] = "give_arm"
        \/ Sent(d) /\ BothBack(d) /\ pc[Releaser[d]] = "iterate"
  BY <1>1 DEF Loop, Rest, Released, Opened, Sent, Matching, Returning, OneBack, Is
<1>5. End(d) => /\ control = Base(d) + 4
                /\ \/ pc[Releaser[d]] = "post_done" /\ events = {}
                   \/ pc[Releaser[d]] = "suspend" /\ events = {DONE[d]}
  BY DEF End, Dead, Group, Is
<1>6. QED  BY <1>2, <1>3, <1>4, <1>5 DEF DirPhase

\* When I_Task runs, no loop is being measured.
LEMMA ControlRuns ==
    ASSUME IInv, \A u \in Task : thread[u] = "ready" => u = "I_Task", NEW d \in Dir, DirPhase(d)
    PROVE  Setup(d) \/ End(d)
<1>1. thread[Sender[d]] # "ready" /\ thread[Receiver[d]] # "ready" /\ thread[Releaser[d]] # "ready"
  <2>1. "I_Task" \notin Group(d)
    BY Names
  <2>2. QED  BY <2>1, Three
<1>2. ~ Loop(d)
  BY <1>1 DEF Loop, Rest, Released, Opened, Sent, Is
<1>3. QED  BY <1>2 DEF DirPhase

-----------------------------------------------------------------------------
(***************************************************************************)
(* Each action leads from its stage to the next.                           *)
(***************************************************************************)
\* A thread of direction d that steps moves no other thread's label.
LEMMA DirStepEffect ==
    ASSUME IInv, NEW d \in Dir, NEW t \in Group(d), NEW l, NEW m, Step(t, l, m)
    PROVE  /\ DirPhase(d) /\ thread[t] = "ready" /\ pc[t] = l
           /\ \A u \in Task : thread[u] = "ready" => prio[t] <= prio[u]
           /\ \A u \in Task : pc'[u] = IF u = t THEN m ELSE pc[u]
           /\ control' = control /\ kind' = kind
<1>1. InType /\ t \in Task
  BY Names DEF IInv
<1>2. QED  BY <1>1, StepEffect, DirRuns

\* A step of one direction leaves the other as it is: the invariant holds again
\* when the direction's stage becomes one of its stages.
LEMMA DirStay ==
    ASSUME IInv, InType', NEW d \in Dir, DirPhase(d), NoCount',
           \A e \in Dir \ {d} : samples'[e] = samples[e],
           \A t \in Task \ Group(d) : thread'[t] = thread[t] /\ pc'[t] = pc[t],
           Setup(d)' \/ Loop(d)' \/ End(d)'
    PROVE  IInv'
<1>1. thread'["I_Task"] = "ready"
  BY Names DEF IInv
<1>2. \A e \in Dir \ {d} : Group(e) \subseteq Task \ Group(d)
  BY Names
<1>3. d = "up" => Unborn("down")' /\ Zero("down")'
  <2>1. "down" \in Dir
    BY Names
  <2>2. QED  BY <1>2, <2>1, Three DEF DirPhase, Unborn, Zero, Is
<1>4. d = "down" => Dead("up")' /\ Full("up")'
  <2>1. "up" \in Dir
    BY Names
  <2>2. QED  BY <1>2, <2>1 DEF DirPhase, Dead, Full
<1>5. DirPhase(d)'
  <2>1. /\ NoCount'
        /\ Setup(d)' \/ Loop(d)' \/ End(d)'
    OBVIOUS
  <2>2. QED  BY <1>3, <1>4, <2>1 DEF DirPhase
<1>6. QED  BY <1>1, <1>5 DEF IInv

\* The threads of the other direction pend on nothing.
LEMMA OthersRest ==
    ASSUME IInv, NEW d \in Dir, DirPhase(d), NEW u \in Task \ Group(d)
    PROVE  thread[u] \in {"none", "ready", "dead"}
<1>1. CASE u = "I_Task"
  BY <1>1 DEF IInv
<1>2. ASSUME NEW e \in Dir \ {d}, u \in Group(e) PROVE thread[u] \in {"none", "dead"}
  BY <1>2, Names DEF DirPhase, Unborn, Dead, Is, Group
<1>3. QED  BY <1>1, <1>2, Names

\* No thread ever pends as a sender without a receiver.
LEMMA NobodySends ==
    ASSUME IInv, NEW d \in Dir, DirPhase(d), Loop(d)
    PROVE  \A u \in Task : thread[u] # Sending
<1>1. \A u \in Task \ Group(d) : thread[u] # Sending
  BY OthersRest, Objects
<1>2. /\ "test_arm_sem" # Sending /\ "test_recv_sem" # Sending /\ "ready" # Sending
      /\ Receiving # Sending /\ Matched # Sending
  BY Objects DEF Gates
<1>3. \A u \in Group(d) : thread[u] # Sending
  BY <1>2, Three DEF Group, Loop, Rest, Released, Opened, Sent, Matching, Returning, OneBack, BothBack, Is
<1>4. QED  BY <1>1, <1>3

\* The steps of the senders keep the inductive invariant.
LEMMA SendStep ==
    ASSUME IInv, InType', NEW d \in Dir,
           Send_WaitStart(d) \/ Send_Take(d) \/ Send_Put(d) \/ Send_Stop(d)
    PROVE  IInv'
<1> USE Three
<1>i. InType /\ "test_arm_sem" \in Gates
  BY DEF IInv, Gates
<1>1. CASE Send_WaitStart(d)
  <2>1. /\ DirPhase(d) /\ Setup(d) /\ control = Base(d) + 1 /\ control' = control
        /\ \A u \in Task : pc'[u] = IF u = Sender[d] THEN "take" ELSE pc[u]
    BY <1>1, DirStepEffect, SendRuns DEF Send_WaitStart
  <2>2. NoCount /\ events = {}
    BY <2>1 DEF DirPhase, Setup
  <2>3. /\ \A u \in Task : thread'[u] = IF u = Sender[d] THEN START[d] ELSE thread[u]
        /\ events' = {} /\ NoCount'
    BY <1>1, <1>i, <2>2, WaitEffect DEF Send_WaitStart, NoCount
  <2>4. step' = step /\ i' = i /\ measured' = measured
    BY <1>1 DEF Send_WaitStart, loop
  <2>5. Setup(d)'
    <3>1. /\ Is(Receiver[d], "none", "take") /\ Is(Releaser[d], "none", "wait_start")
          /\ AtStart /\ Zero(d)
      BY <2>1 DEF Setup, Unborn, Base, Dir, Is
    <3>2. QED
      BY <2>1, <2>3, <2>4, <3>1 DEF Setup, AtStart, Closed, Zero, Is, measured
  <2>6. QED  BY <2>1, <2>3, <2>4, <2>5, DirStay DEF measured
<1>2. CASE Send_Take(d)
  <2>1. /\ DirPhase(d) /\ Loop(d) /\ Rest(d) /\ control' = control
        /\ \A u \in Task : pc'[u] = IF u = Sender[d] THEN "put" ELSE pc[u]
    BY <1>2, DirStepEffect, SendRuns DEF Send_Take
  <2>2. NoCount /\ events = {}
    BY <2>1 DEF DirPhase, Loop
  <2>3. /\ \A u \in Task : thread'[u] = IF u = Sender[d] THEN "test_arm_sem" ELSE thread[u]
        /\ events' = {} /\ NoCount'
    BY <1>2, <1>i, <2>2, PendEffect DEF Send_Take, NoCount
  <2>4. loop' = loop /\ measured' = measured
    BY <1>2 DEF Send_Take
  <2>5. Rest(d)'
    BY <2>1, <2>3, <2>4 DEF Rest, Closed, Is, measured, loop
  <2>6. Loop(d)'
    BY <2>1, <2>3, <2>4, <2>5 DEF Loop, AtLoop, measured, loop
  <2>7. QED  BY <2>1, <2>3, <2>4, <2>6, DirStay DEF measured
<1>3. CASE Send_Put(d)
  <2>1. /\ DirPhase(d) /\ Loop(d) /\ Opened(d) /\ control' = control /\ kind' = kind
        /\ \A u \in Task : pc'[u] = IF u = Sender[d] THEN "stop" ELSE pc[u]
    BY <1>3, DirStepEffect, SendRuns DEF Send_Put
  <2>2. \A u \in Task : thread[u] = Receiving <=> u = Receiver[d]
    <3>1. \A u \in Task \ Group(d) : thread[u] # Receiving
      BY <2>1, OthersRest, Objects
    <3>2. thread[Sender[d]] # Receiving /\ thread[Releaser[d]] # Receiving /\ thread[Receiver[d]] = Receiving
      BY <2>1, Objects DEF Opened, Is
    <3>3. QED  BY <3>1, <3>2 DEF Group
  <2>3. /\ \A u \in Task :
              thread'[u] = IF u = Receiver[d] THEN "ready"
                           ELSE IF u = Sender[d] /\ kind = "mailbox_sync" THEN Matched ELSE thread[u]
        /\ events' = events /\ count' = count
    BY <1>3, <1>i, <2>2, PutEffect DEF Send_Put
  <2>4. /\ step' = step /\ i' = i /\ received' = received /\ active' = active
        /\ window' = window /\ samples' = samples /\ markers' = Append(markers, "start")
    BY <1>3 DEF Send_Put
  <2>5. markers' = <<"start">>
    BY <2>1, <2>4 DEF Opened
  <2>6. Sent(d)'
    BY <2>1, <2>3, <2>4 DEF Opened, Sized, Sent, Is
  <2>7. CASE kind = "mailbox_sync"
    <3>1. Matching(d)'
      BY <2>1, <2>3, <2>5, <2>7 DEF Opened, Matching, Handed, Is
    <3>2. QED  BY <2>1, <2>3, <2>4, <2>6, <3>1, DirStay DEF Loop, AtLoop, DirPhase, NoCount
  <2>8. CASE kind # "mailbox_sync"
    <3>1. Returning(d)'
      BY <2>1, <2>3, <2>5, <2>8 DEF Opened, Returning, Handed, Is
    <3>2. QED  BY <2>1, <2>3, <2>4, <2>6, <3>1, DirStay DEF Loop, AtLoop, DirPhase, NoCount
  <2>9. QED  BY <2>7, <2>8
<1>4. CASE Send_Stop(d)
  <2>1. /\ DirPhase(d) /\ Loop(d) /\ Sent(d) /\ control' = control
        /\ (Returning(d) /\ d = "down") \/ (OneBack(d) /\ d = "up")
        /\ \A u \in Task : pc'[u] = IF u = Sender[d] THEN "put" ELSE pc[u]
    BY <1>4, DirStepEffect, SendRuns DEF Send_Stop
  <2>2. NoCount /\ events = {}
    BY <2>1 DEF DirPhase, Loop
  <2>3. /\ \A u \in Task : thread'[u] = IF u = Sender[d] THEN "test_arm_sem" ELSE thread[u]
        /\ events' = {} /\ NoCount'
    BY <1>4, <1>i, <2>2, PendEffect DEF Send_Stop, NoCount
  <2>4. /\ loop' = loop /\ window' = window /\ samples' = samples
        /\ markers' = Append(markers, "rendezvous")
    BY <1>4 DEF Send_Stop
  <2>5. Sent(d)'
    BY <2>1, <2>3, <2>4 DEF Sent, Is, loop
  <2>6. CASE Returning(d) /\ d = "down"
    <3>1. markers' = <<"start", "rendezvous">>
      BY <2>4, <2>6, MarkerTaken DEF Returning
    <3>2. OneBack(d)'
      BY <2>1, <2>3, <2>6, <3>1 DEF Returning, OneBack, Is
    <3>3. QED  BY <2>1, <2>3, <2>4, <2>5, <3>2, DirStay DEF Loop, AtLoop, loop
  <2>7. CASE OneBack(d) /\ d = "up"
    <3>1. /\ markers = <<"start", "direct">>
          /\ Is(Sender[d], "ready", "stop") /\ Is(Receiver[d], "test_recv_sem", "get")
      BY <2>7 DEF OneBack
    <3>2. markers' = <<"start", "direct", "rendezvous">>
      BY <2>4, <3>1, MarkerTaken
    <3>3. BothBack(d)'
      BY <2>1, <2>3, <2>7, <3>1, <3>2 DEF BothBack, All3, Is
    <3>4. QED  BY <2>1, <2>3, <2>4, <2>5, <3>3, DirStay DEF Loop, AtLoop, loop
  <2>8. QED  BY <2>1, <2>6, <2>7
<1>5. QED  BY <1>1, <1>2, <1>3, <1>4

\* The steps of the receivers keep the inductive invariant.
LEMMA RecvStep ==
    ASSUME IInv, InType', NEW d \in Dir,
           Recv_Take(d) \/ Recv_Get(d) \/ Recv_Dispose(d) \/ Recv_Stop(d)
    PROVE  IInv'
<1> USE Three
<1>i. InType /\ "test_recv_sem" \in Gates
  BY DEF IInv, Gates
<1>1. CASE Recv_Take(d)
  <2>1. /\ DirPhase(d) /\ Setup(d) /\ control = Base(d) + 2 /\ control' = control
        /\ \A u \in Task : pc'[u] = IF u = Receiver[d] THEN "get" ELSE pc[u]
    BY <1>1, DirStepEffect, RecvRuns DEF Recv_Take
  <2>2. NoCount /\ events = {}
    BY <2>1 DEF DirPhase, Setup
  <2>3. /\ \A u \in Task : thread'[u] = IF u = Receiver[d] THEN "test_recv_sem" ELSE thread[u]
        /\ events' = {} /\ NoCount'
    BY <1>1, <1>i, <2>2, PendEffect DEF Recv_Take, NoCount
  <2>4. step' = step /\ i' = i /\ measured' = measured
    BY <1>1 DEF Recv_Take, loop
  <2>5. Setup(d)'
    <3>1. /\ Is(Sender[d], START[d], "take") /\ Is(Releaser[d], "none", "wait_start")
          /\ AtStart /\ Zero(d)
      BY <2>1 DEF Setup, Unborn, Base, Dir, Is
    <3>2. QED
      BY <2>1, <2>3, <2>4, <3>1 DEF Setup, AtStart, Closed, Zero, Is, measured
  <2>6. QED  BY <2>1, <2>3, <2>4, <2>5, DirStay DEF measured
<1>2. CASE Recv_Get(d)
  <2>0. Step(Receiver[d], "get", Handed)
    BY <1>2 DEF Recv_Get, Handed
  <2>1. /\ DirPhase(d) /\ Loop(d) /\ Released(d) /\ control' = control /\ kind' = kind
        /\ \A u \in Task : pc'[u] = IF u = Receiver[d] THEN Handed ELSE pc[u]
    BY <2>0, DirStepEffect, RecvRuns
  <2>2. NoCount /\ events = {}
    BY <2>1 DEF DirPhase, Loop
  <2>3. /\ \A u \in Task : thread'[u] = IF u = Receiver[d] THEN Receiving ELSE thread[u]
        /\ events' = {} /\ NoCount' /\ armed' = armed
    BY <1>2, <1>i, <2>1, <2>2, NobodySends, GetEffect DEF Recv_Get, NoCount
  <2>4. step' = step /\ i' = i /\ active' = active /\ received' = active /\ measured' = measured
    BY <1>2 DEF Recv_Get
  <2>5. Handed' = Handed
    BY <2>1 DEF Handed
  <2>6. Released(d)'
    BY <2>1, <2>3, <2>4, <2>5 DEF Released, Closed, Sized, Is, measured
  <2>7. Loop(d)'
    BY <2>1, <2>3, <2>4, <2>6 DEF Loop, AtLoop, measured
  <2>8. QED  BY <2>1, <2>3, <2>4, <2>7, DirStay DEF measured
<1>3. CASE Recv_Dispose(d)
  <2>1. /\ DirPhase(d) /\ Loop(d) /\ Sent(d) /\ Matching(d) /\ control' = control /\ kind' = kind
        /\ \A u \in Task : pc'[u] = IF u = Receiver[d] THEN "stop" ELSE pc[u]
    BY <1>3, DirStepEffect, RecvRuns DEF Recv_Dispose
  <2>2. \A u \in Task : thread[u] = Matched <=> u = Sender[d]
    <3>1. \A u \in Task \ Group(d) : thread[u] # Matched
      BY <2>1, OthersRest, Objects
    <3>2. thread[Receiver[d]] # Matched /\ thread[Releaser[d]] # Matched /\ thread[Sender[d]] = Matched
      BY <2>1, Objects DEF Matching, Sent, Is
    <3>3. QED  BY <3>1, <3>2 DEF Group
  <2>3. /\ \A u \in Task : thread'[u] = IF u = Sender[d] THEN "ready" ELSE thread[u]
        /\ events' = events /\ count' = count
    BY <1>3, <1>i, <2>2, DisposeEffect DEF Recv_Dispose
  <2>4. loop' = loop /\ measured' = measured
    BY <1>3 DEF Recv_Dispose
  <2>5. Sent(d)'
    BY <2>1, <2>3, <2>4 DEF Sent, Is, loop, measured
  <2>6. Returning(d)'
    BY <2>1, <2>3, <2>4 DEF Matching, Returning, Is, measured
  <2>7. Loop(d)'
    BY <2>1, <2>3, <2>4, <2>5, <2>6 DEF Loop, AtLoop, loop, measured
  <2>8. NoCount'
    BY <2>1, <2>3 DEF DirPhase, NoCount
  <2>9. QED  BY <2>1, <2>3, <2>4, <2>7, <2>8, DirStay DEF measured
<1>4. CASE Recv_Stop(d)
  <2>1. /\ DirPhase(d) /\ Loop(d) /\ Sent(d) /\ control' = control
        /\ (Returning(d) /\ d = "up") \/ (OneBack(d) /\ d = "down")
        /\ \A u \in Task : pc'[u] = IF u = Receiver[d] THEN "get" ELSE pc[u]
    BY <1>4, DirStepEffect, RecvRuns DEF Recv_Stop
  <2>2. NoCount /\ events = {}
    BY <2>1 DEF DirPhase, Loop
  <2>3. /\ \A u \in Task : thread'[u] = IF u = Receiver[d] THEN "test_recv_sem" ELSE thread[u]
        /\ events' = {} /\ NoCount'
    BY <1>4, <1>i, <2>2, PendEffect DEF Recv_Stop, NoCount
  <2>4. /\ loop' = loop /\ window' = window /\ samples' = samples
        /\ markers' = Append(markers, "direct")
    BY <1>4 DEF Recv_Stop
  <2>5. Sent(d)'
    BY <2>1, <2>3, <2>4 DEF Sent, Is, loop
  <2>6. CASE Returning(d) /\ d = "up"
    <3>1. markers' = <<"start", "direct">>
      BY <2>4, <2>6, MarkerTaken DEF Returning
    <3>2. OneBack(d)'
      BY <2>1, <2>3, <2>6, <3>1 DEF Returning, OneBack, Is
    <3>3. QED  BY <2>1, <2>3, <2>4, <2>5, <3>2, DirStay DEF Loop, AtLoop, loop
  <2>7. CASE OneBack(d) /\ d = "down"
    <3>1. /\ markers = <<"start", "rendezvous">>
          /\ Is(Sender[d], "test_arm_sem", "put") /\ Is(Receiver[d], "ready", "stop")
      BY <2>7 DEF OneBack
    <3>2. markers' = <<"start", "rendezvous", "direct">>
      BY <2>4, <3>1, MarkerTaken
    <3>3. BothBack(d)'
      BY <2>1, <2>3, <2>7, <3>1, <3>2 DEF BothBack, All3, Is
    <3>4. QED  BY <2>1, <2>3, <2>4, <2>5, <3>3, DirStay DEF Loop, AtLoop, loop
  <2>8. QED  BY <2>1, <2>6, <2>7
<1>5. QED  BY <1>1, <1>2, <1>3, <1>4

\* The steps of the releasers keep the inductive invariant.
LEMMA ArmStep ==
    ASSUME IInv, InType', NEW d \in Dir,
           \/ Arm_WaitStart(d) \/ Arm_GiveRecv(d) \/ Arm_GiveArm(d)
           \/ Arm_Iterate(d) \/ Arm_PostDone(d) \/ Arm_Suspend(d)
    PROVE  IInv'
<1> USE Three
<1>i. InType /\ "test_arm_sem" \in Gates /\ "test_recv_sem" \in Gates
  BY DEF IInv, Gates
<1>1. CASE Arm_WaitStart(d)
  <2>1. /\ DirPhase(d) /\ Setup(d) /\ control = Base(d) + 3 /\ control' = control
        /\ \A u \in Task : pc'[u] = IF u = Releaser[d] THEN "give_recv" ELSE pc[u]
    BY <1>1, DirStepEffect, ArmRuns DEF Arm_WaitStart
  <2>2. NoCount /\ events = {}
    BY <2>1 DEF DirPhase, Setup
  <2>3. /\ \A u \in Task : thread'[u] = IF u = Releaser[d] THEN START[d] ELSE thread[u]
        /\ events' = {} /\ NoCount'
    BY <1>1, <1>i, <2>2, WaitEffect DEF Arm_WaitStart, NoCount
  <2>4. step' = step /\ i' = i /\ measured' = measured
    BY <1>1 DEF Arm_WaitStart, loop
  <2>5. Setup(d)'
    <3>1. /\ Is(Sender[d], START[d], "take") /\ Is(Receiver[d], "test_recv_sem", "get")
          /\ AtStart /\ Zero(d)
      BY <2>1 DEF Setup, Unborn, Base, Dir, Is
    <3>2. QED
      BY <2>1, <2>3, <2>4, <3>1 DEF Setup, AtStart, Closed, Zero, Is, measured
  <2>6. QED  BY <2>1, <2>3, <2>4, <2>5, DirStay DEF measured
<1>2. CASE Arm_GiveRecv(d)
  <2>1. /\ DirPhase(d) /\ Loop(d) /\ Rest(d) /\ Is(Sender[d], "test_arm_sem", "put")
        /\ control' = control /\ kind' = kind
        /\ \A u \in Task : pc'[u] = IF u = Releaser[d] THEN "give_arm" ELSE pc[u]
    BY <1>2, DirStepEffect, ArmRuns DEF Arm_GiveRecv
  <2>2. \A u \in Task : thread[u] = "test_recv_sem" <=> u = Receiver[d]
    <3>1. \A u \in Task \ Group(d) : thread[u] # "test_recv_sem"
      BY <2>1, OthersRest
    <3>2. /\ thread[Sender[d]] # "test_recv_sem" /\ thread[Releaser[d]] # "test_recv_sem"
          /\ thread[Receiver[d]] = "test_recv_sem"
      BY <2>1 DEF Rest, Is
    <3>3. QED  BY <3>1, <3>2 DEF Group
  <2>3. /\ \A u \in Task : thread'[u] = IF u = Receiver[d] THEN "ready" ELSE thread[u]
        /\ events' = events /\ count' = count
    BY <1>2, <1>i, <2>2, GiveEffect DEF Arm_GiveRecv
  <2>4. step' = step /\ i' = i /\ measured' = measured
    BY <1>2 DEF Arm_GiveRecv
  <2>5. Sized'
    <3>1. active' = step
      BY <1>2, <2>1 DEF Arm_GiveRecv, Rest
    <3>2. kind = "mailbox_sync" => armed' = {step}
      BY <1>2, <3>1 DEF Arm_GiveRecv
    <3>3. QED  BY <2>1, <2>4, <3>1, <3>2 DEF Sized
  <2>6. Released(d)'
    BY <2>1, <2>3, <2>4, <2>5 DEF Rest, Released, Closed, Is, measured
  <2>7. Loop(d)'
    BY <2>1, <2>3, <2>4, <2>6 DEF Loop, AtLoop, measured
  <2>8. NoCount'
    BY <2>1, <2>3 DEF DirPhase, NoCount
  <2>9. QED  BY <2>1, <2>3, <2>4, <2>7, <2>8, DirStay DEF measured
<1>3. CASE Arm_GiveArm(d)
  <2>1. /\ DirPhase(d) /\ Loop(d) /\ Released(d) /\ Is(Receiver[d], Receiving, Handed)
        /\ received = step /\ control' = control /\ kind' = kind
        /\ \A u \in Task : pc'[u] = IF u = Releaser[d] THEN "iterate" ELSE pc[u]
    BY <1>3, DirStepEffect, ArmRuns DEF Arm_GiveArm
  <2>2. \A u \in Task : thread[u] = "test_arm_sem" <=> u = Sender[d]
    <3>1. \A u \in Task \ Group(d) : thread[u] # "test_arm_sem"
      BY <2>1, OthersRest
    <3>2. /\ thread[Receiver[d]] # "test_arm_sem" /\ thread[Releaser[d]] # "test_arm_sem"
          /\ thread[Sender[d]] = "test_arm_sem"
      BY <2>1, Objects DEF Released, Is, Gates
    <3>3. QED  BY <3>1, <3>2 DEF Group
  <2>3. /\ \A u \in Task : thread'[u] = IF u = Sender[d] THEN "ready" ELSE thread[u]
        /\ events' = events /\ count' = count
    BY <1>3, <1>i, <2>2, GiveEffect DEF Arm_GiveArm
  <2>4. loop' = loop /\ samples' = samples /\ window' = d /\ markers' = <<>>
    BY <1>3 DEF Arm_GiveArm
  <2>5. Handed' = Handed
    BY <2>1 DEF Handed
  <2>6. Opened(d)'
    BY <2>1, <2>3, <2>4, <2>5 DEF Released, Opened, Sized, Is, loop
  <2>7. Loop(d)'
    BY <2>1, <2>3, <2>4, <2>6 DEF Loop, AtLoop, loop
  <2>8. NoCount'
    BY <2>1, <2>3 DEF DirPhase, NoCount
  <2>9. QED  BY <2>1, <2>3, <2>4, <2>7, <2>8, DirStay
<1>4. CASE Arm_Iterate(d)
  <2>1. \E m : Step(Releaser[d], "iterate", m)
    BY <1>4, <1>i, IterationEffect
  <2>2. /\ DirPhase(d) /\ Loop(d) /\ Sent(d) /\ BothBack(d) /\ control' = control
    BY <2>1, DirStepEffect, ArmRuns
  <2>3. /\ NoCount /\ events = {} /\ AtLoop(d) /\ control = Base(d) + 4
        /\ Is(Sender[d], "test_arm_sem", "put") /\ Is(Receiver[d], "test_recv_sem", "get")
        /\ thread[Releaser[d]] = "ready" /\ active = step
    BY <2>2 DEF DirPhase, Loop, Sent, BothBack, Is
  <2>4. /\ thread' = thread /\ events' = {} /\ NoCount' /\ active' = active
        /\ \A e \in Dir \ {d} : samples'[e] = samples[e]
        /\ window' = "closed"
    BY <1>4, <1>i, <2>3, CountEffect DEF NoCount
  <2>5. CASE AtLoop(d)' /\ Step(Releaser[d], "iterate", "give_recv") /\ (i' # 0 => step' = step)
    <3>1. \A u \in Task : pc'[u] = IF u = Releaser[d] THEN "give_recv" ELSE pc[u]
      BY <2>5, DirStepEffect
    <3>2. Rest(d)'
      BY <2>3, <2>4, <2>5, <3>1 DEF Rest, Closed, Is
    <3>3. Loop(d)'
      BY <2>2, <2>3, <2>4, <2>5, <3>2 DEF Loop
    <3>4. QED  BY <2>2, <2>4, <3>1, <3>3, DirStay
  <2>6. CASE Full(d)' /\ step' = 0 /\ i' = 0 /\ Step(Releaser[d], "iterate", "post_done")
    <3>1. \A u \in Task : pc'[u] = IF u = Releaser[d] THEN "post_done" ELSE pc[u]
      BY <2>6, DirStepEffect
    <3>2. End(d)'
      BY <2>2, <2>3, <2>4, <2>6, <3>1 DEF End, AtStart, Closed, Is
    <3>3. QED  BY <2>2, <2>4, <3>1, <3>2, DirStay
  <2>7. QED  BY <1>4, <1>i, <2>3, <2>5, <2>6, SeriesStep
<1>5. CASE Arm_PostDone(d)
  <2>1. /\ DirPhase(d) /\ End(d) /\ control = Base(d) + 4 /\ events = {} /\ control' = control
        /\ thread[Releaser[d]] = "ready"
        /\ \A u \in Task : pc'[u] = IF u = Releaser[d] THEN "suspend" ELSE pc[u]
    BY <1>5, DirStepEffect, ArmRuns DEF Arm_PostDone
  <2>2. /\ NoCount /\ AtStart /\ Full(d)
        /\ thread[Sender[d]] = "test_arm_sem" /\ thread[Receiver[d]] = "test_recv_sem"
    BY <2>1 DEF DirPhase, End, Base
  <2>3. \A u \in Task : thread[u] # DONE[d]
    <3>1. \A u \in Task \ Group(d) : thread[u] # DONE[d]
      BY <2>1, OthersRest, Objects
    <3>2. \A u \in Group(d) : thread[u] # DONE[d]
      BY <2>1, <2>2, Objects DEF Group
    <3>3. QED  BY <3>1, <3>2
  <2>4. /\ \A u \in Task : thread'[u] = thread[u]
        /\ events' = {DONE[d]} /\ NoCount'
    BY <1>5, <1>i, <2>1, <2>2, <2>3, PostEffect DEF Arm_PostDone, NoCount
  <2>5. step' = step /\ i' = i /\ measured' = measured
    BY <1>5 DEF Arm_PostDone, loop
  <2>6. End(d)'
    BY <2>1, <2>2, <2>4, <2>5 DEF End, AtStart, Closed, Full, Is, measured
  <2>7. QED  BY <2>1, <2>4, <2>5, <2>6, DirStay DEF measured
<1>6. CASE Arm_Suspend(d)
  <2>1. /\ DirPhase(d) /\ End(d) /\ control = Base(d) + 4 /\ events = {DONE[d]}
        /\ control' = control
        /\ \A u \in Task : pc'[u] = IF u = Releaser[d] THEN "suspend" ELSE pc[u]
    BY <1>6, DirStepEffect, ArmRuns DEF Arm_Suspend
  <2>2. /\ NoCount /\ AtStart /\ Full(d)
        /\ thread[Sender[d]] = "test_arm_sem" /\ thread[Receiver[d]] = "test_recv_sem"
    BY <2>1 DEF DirPhase, End, Base
  <2>3. /\ \A u \in Task : thread'[u] = IF u = Releaser[d] THEN "suspended" ELSE thread[u]
        /\ events' = events /\ NoCount'
    BY <1>6, <1>i, <2>2, SuspendEffect DEF Arm_Suspend, NoCount
  <2>4. step' = step /\ i' = i /\ measured' = measured
    BY <1>6 DEF Arm_Suspend, loop
  <2>5. End(d)'
    BY <2>1, <2>2, <2>3, <2>4 DEF End, AtStart, Closed, Full, Is, measured
  <2>6. QED  BY <2>1, <2>3, <2>4, <2>5, DirStay DEF measured
<1>7. QED  BY <1>1, <1>2, <1>3, <1>4, <1>5, <1>6

\* What the next call of I_Task does, and what it leaves alone.
LEMMA CallEffect ==
    ASSUME InType, I_Create \/ I_Post \/ I_Wait \/ I_Abort \/ I_Reset,
           NEW c, NEW n, Control[control] = Call(c, n)
    PROVE  /\ control' = control + 1 /\ control <= 18
           /\ \A u \in Task : thread[u] = "ready" => u = "I_Task"
           /\ pc' = pc /\ step' = step /\ i' = i /\ measured' = measured
           /\ c = "create" => Create(n)
           /\ c = "post" => EventPost(n)
           /\ c = "wait" => EventWait("I_Task", n)
           /\ c = "abort" => Abort(n)
           /\ c = "reset" => SemReset(n)
<1>1. Control[control].call = c /\ Control[control].on = n
  BY DEF Call
<1>2. /\ control' = control + 1 /\ control <= Len(Control) /\ Runs("I_Task")
      /\ pc' = pc /\ step' = step /\ i' = i /\ measured' = measured
  BY DEF I_Create, I_Post, I_Wait, I_Abort, I_Reset, I_Call, measured
<1>3. /\ c = "create" => Create(n)
      /\ c = "post" => EventPost(n)
      /\ c = "wait" => EventWait("I_Task", n)
      /\ c = "abort" => Abort(n)
      /\ c = "reset" => SemReset(n)
  BY <1>1 DEF I_Create, I_Post, I_Wait, I_Abort, I_Reset, I_Call
<1>4. QED  BY <1>2, <1>3, Calls, ControlEffect

\* I_Task in direction d: creates, starts, waits for and aborts its three threads.
LEMMA ControlStep ==
    ASSUME IInv, InType', I_Create \/ I_Post \/ I_Wait \/ I_Abort \/ I_Reset,
           NEW d \in Dir, DirPhase(d)
    PROVE  IInv'
<1> USE Three
<1>i. /\ InType /\ thread["I_Task"] = "ready" /\ "I_Task" \in Task
      /\ "I_Task" \notin Group(d) /\ NoCount
      /\ Base(d) \in {1, 11} /\ (d = "up" => Base(d) = 1) /\ (d = "down" => Base(d) = 11)
      /\ d = "up" \/ d = "down"
  BY Names DEF IInv, DirPhase, Base
<1>q. ASSUME pc' = pc, samples' = samples, count' = count \/ NoCount',
             \A t \in Task \ Group(d) : thread'[t] = thread[t],
             Setup(d)' \/ Loop(d)' \/ End(d)'
      PROVE  IInv'
  BY <1>q, <1>i, DirStay DEF NoCount
<1>c. /\ control \in 1..18 /\ \A u \in Task : thread[u] = "ready" => u = "I_Task"
      /\ thread[Sender[d]] # "ready" /\ thread[Receiver[d]] # "ready" /\ thread[Releaser[d]] # "ready"
  <2>1. Runs("I_Task") /\ control <= 18
    BY Calls DEF I_Create, I_Post, I_Wait, I_Abort, I_Reset, I_Call
  <2>2. QED  BY <1>i, <2>1, ControlEffect DEF InType, Group
<1>n. \A u \in Task \ Group(d) : thread[u] \in {"none", "ready", "dead"}
  BY OthersRest
<1>1. CASE Setup(d)
  <2>0. AtStart /\ Zero(d) /\ events = {}
    BY <1>1 DEF Setup
  <2>1. CASE Unborn(d) /\ d = "down" /\ control \in {9, 10}
    <3>1. PICK s \in Gates : Control[control] = Call("reset", s)
      BY <2>1, Calls DEF Gates
    <3>2. /\ control' = control + 1 /\ pc' = pc /\ step' = step /\ i' = i /\ measured' = measured
          /\ SemReset(s)
      BY <3>1, <1>i, CallEffect
    <3>3. \A u \in Task : thread[u] # s
      BY <1>n, <2>1, <3>1 DEF Unborn, Is, Group, Gates
    <3>4. /\ \A u \in Task : thread'[u] = thread[u]
          /\ events' = {} /\ NoCount'
      BY <1>i, <2>0, <3>1, <3>2, <3>3, ResetEffect
    <3>5. Setup(d)'
      BY <2>0, <2>1, <3>2, <3>4 DEF Setup, Unborn, AtStart, Closed, Zero, Is, measured
    <3>6. QED  BY <1>q, <3>2, <3>4, <3>5 DEF measured
  <2>2. CASE Unborn(d) /\ control = Base(d)
    <3>1. /\ control' = Base(d) + 1 /\ pc' = pc /\ step' = step /\ i' = i /\ measured' = measured
          /\ Create(Sender[d])
      BY <2>2, <1>i, CallEffect, Calls
    <3>2. /\ \A u \in Task : thread'[u] = IF u = Sender[d] THEN "ready" ELSE thread[u]
          /\ events' = {} /\ count' = count
      BY <1>i, <2>0, <3>1, CreateEffect
    <3>3. Setup(d)'
      BY <2>0, <2>2, <3>1, <3>2 DEF Setup, Unborn, AtStart, Closed, Zero, Is, measured
    <3>4. QED  BY <1>q, <3>1, <3>2, <3>3 DEF measured
  <2>3. CASE control = Base(d) + 1
    <3>1. /\ control' = Base(d) + 2 /\ pc' = pc /\ step' = step /\ i' = i /\ measured' = measured
          /\ Create(Receiver[d])
      BY <2>3, <1>i, CallEffect, Calls
    <3>2. /\ \A u \in Task : thread'[u] = IF u = Receiver[d] THEN "ready" ELSE thread[u]
          /\ events' = {} /\ count' = count
      BY <1>i, <2>0, <3>1, CreateEffect
    <3>3. /\ Is(Sender[d], START[d], "take") /\ Is(Receiver[d], "none", "take")
          /\ Is(Releaser[d], "none", "wait_start")
      BY <1>1, <1>c, <1>i, <2>3 DEF Setup, Is
    <3>4. Setup(d)'
      BY <2>0, <3>1, <3>2, <3>3 DEF Setup, AtStart, Closed, Zero, Is, measured
    <3>5. QED  BY <1>q, <3>1, <3>2, <3>4 DEF measured
  <2>4. CASE control = Base(d) + 2
    <3>1. /\ control' = Base(d) + 3 /\ pc' = pc /\ step' = step /\ i' = i /\ measured' = measured
          /\ Create(Releaser[d])
      BY <2>4, <1>i, CallEffect, Calls
    <3>2. /\ \A u \in Task : thread'[u] = IF u = Releaser[d] THEN "ready" ELSE thread[u]
          /\ events' = {} /\ count' = count
      BY <1>i, <2>0, <3>1, CreateEffect
    <3>3. /\ Is(Sender[d], START[d], "take") /\ Is(Receiver[d], "test_recv_sem", "get")
          /\ Is(Releaser[d], "none", "wait_start")
      BY <1>1, <1>c, <1>i, <2>4 DEF Setup, Is
    <3>4. Setup(d)'
      BY <2>0, <3>1, <3>2, <3>3 DEF Setup, AtStart, Closed, Zero, Is, measured
    <3>5. QED  BY <1>q, <3>1, <3>2, <3>4 DEF measured
  <2>5. CASE control = Base(d) + 3
    <3>1. /\ control' = Base(d) + 4 /\ pc' = pc /\ step' = step /\ i' = i /\ measured' = measured
          /\ EventPost(START[d])
      BY <2>5, <1>i, CallEffect, Calls
    <3>2. /\ Is(Sender[d], START[d], "take") /\ Is(Receiver[d], "test_recv_sem", "get")
          /\ Is(Releaser[d], START[d], "give_recv")
      BY <1>1, <1>c, <1>i, <2>5 DEF Setup, Is
    <3>3. /\ \A u \in Task : thread'[u] = IF thread[u] = START[d] THEN "ready" ELSE thread[u]
          /\ events' = {} /\ count' = count
      BY <1>i, <2>0, <3>1, <3>2, PostEffect DEF Is
    <3>4. /\ thread'[Sender[d]] = "ready" /\ thread'[Releaser[d]] = "ready"
          /\ thread'[Receiver[d]] = "test_recv_sem"
          /\ \A u \in Task \ Group(d) : thread'[u] = thread[u]
      BY <1>n, <3>2, <3>3, Objects DEF Is
    <3>5. Rest(d)'
      BY <2>0, <3>1, <3>2, <3>4 DEF Rest, AtStart, Closed, Is, measured
    <3>6. AtLoop(d)'
      BY <2>0, <3>1, CountAssumption DEF AtStart, Zero, AtLoop, Steps, measured
    <3>7. Loop(d)'
      BY <3>1, <3>3, <3>5, <3>6 DEF Loop, Base
    <3>8. QED  BY <1>q, <3>1, <3>3, <3>4, <3>7 DEF measured
  <2>6. \/ Unborn(d) /\ (control = Base(d) \/ (d = "down" /\ control \in {9, 10}))
        \/ control \in {Base(d) + 1, Base(d) + 2, Base(d) + 3}
    BY <1>1, <1>i DEF Setup
  <2>7. QED  BY <2>1, <2>2, <2>3, <2>4, <2>5, <2>6
<1>2. CASE End(d)
  <2>0. AtStart /\ Full(d)
    BY <1>2 DEF End
  <2>1. CASE control = Base(d) + 4
    <3>1. /\ control' = Base(d) + 5 /\ pc' = pc /\ step' = step /\ i' = i /\ measured' = measured
          /\ EventWait("I_Task", DONE[d])
      BY <2>1, <1>i, CallEffect, Calls
    <3>2. /\ events = {DONE[d]} /\ thread[Releaser[d]] = "suspended"
          /\ thread[Sender[d]] = "test_arm_sem" /\ thread[Receiver[d]] = "test_recv_sem"
      BY <1>2, <1>c, <1>i, <2>1 DEF End, Is
    <3>3. /\ \A u \in Task : thread'[u] = thread[u]
          /\ events' = {} /\ count' = count
      BY <1>i, <3>1, <3>2, WaitEffect
    <3>4. End(d)'
      BY <2>0, <3>1, <3>2, <3>3 DEF End, AtStart, Closed, Full, Base, measured
    <3>5. QED  BY <1>q, <3>1, <3>3, <3>4 DEF measured
  <2>2. CASE control = Base(d) + 5
    <3>1. /\ control' = Base(d) + 6 /\ pc' = pc /\ step' = step /\ i' = i /\ measured' = measured
          /\ Abort(Sender[d])
      BY <2>2, <1>i, CallEffect, Calls
    <3>2. events = {} /\ thread[Releaser[d]] = "suspended" /\ thread[Receiver[d]] = "test_recv_sem"
      BY <1>2, <1>i, <2>2 DEF End
    <3>3. /\ \A u \in Task : thread'[u] = IF u = Sender[d] THEN "dead" ELSE thread[u]
          /\ events' = {} /\ count' = count
      BY <1>i, <3>1, <3>2, AbortEffect
    <3>4. End(d)'
      BY <2>0, <3>1, <3>2, <3>3 DEF End, AtStart, Closed, Full, Base, measured
    <3>5. QED  BY <1>q, <3>1, <3>3, <3>4 DEF measured
  <2>3. CASE control = Base(d) + 6
    <3>1. /\ control' = Base(d) + 7 /\ pc' = pc /\ step' = step /\ i' = i /\ measured' = measured
          /\ Abort(Receiver[d])
      BY <2>3, <1>i, CallEffect, Calls
    <3>2. events = {} /\ thread[Releaser[d]] = "suspended" /\ thread[Sender[d]] = "dead"
      BY <1>2, <1>i, <2>3 DEF End
    <3>3. /\ \A u \in Task : thread'[u] = IF u = Receiver[d] THEN "dead" ELSE thread[u]
          /\ events' = {} /\ count' = count
      BY <1>i, <3>1, <3>2, AbortEffect
    <3>4. End(d)'
      BY <2>0, <3>1, <3>2, <3>3 DEF End, AtStart, Closed, Full, Base, measured
    <3>5. QED  BY <1>q, <3>1, <3>3, <3>4 DEF measured
  <2>4. CASE control = Base(d) + 7
    <3>1. /\ control' = Base(d) + 8 /\ pc' = pc /\ step' = step /\ i' = i /\ measured' = measured
          /\ Abort(Releaser[d])
      BY <2>4, <1>i, CallEffect, Calls
    <3>2. events = {} /\ thread[Receiver[d]] = "dead" /\ thread[Sender[d]] = "dead"
      BY <1>2, <1>i, <2>4 DEF End
    <3>3. /\ \A u \in Task : thread'[u] = IF u = Releaser[d] THEN "dead" ELSE thread[u]
          /\ events' = {} /\ count' = count
      BY <1>i, <3>1, <3>2, AbortEffect
    <3>4. Dead(d)'
      BY <3>2, <3>3 DEF Dead, Group
    <3>5. CASE d = "down"
      <4>1. End(d)'
        BY <2>0, <3>1, <3>3, <3>4, <3>5 DEF End, AtStart, Closed, Full, Base, measured
      <4>2. QED  BY <1>q, <3>1, <3>3, <4>1 DEF measured
    <3>6. CASE d = "up"
      <4>1. "down" \in Dir /\ Group("down") \subseteq Task /\ Releaser["up"] \notin Group("down")
        BY <3>6, Names DEF Dir, Group
      <4>2. Unborn("down") /\ Zero("down") /\ Full("up")
        BY <2>0, <3>6 DEF DirPhase
      <4>3. Unborn("down")'
        BY <3>1, <3>3, <3>6, <4>1, <4>2 DEF Unborn, Is, Group
      <4>4. Setup("down")'
        BY <2>0, <3>1, <3>3, <3>6, <4>2, <4>3, <1>i
        DEF Setup, AtStart, Closed, Zero, measured
      <4>5. DirPhase("down")'
        BY <1>i, <3>1, <3>3, <3>4, <3>6, <4>2, <4>4 DEF DirPhase, Full, NoCount, measured
      <4>6. QED  BY <1>i, <3>3, <4>1, <4>5 DEF IInv
    <3>7. QED  BY <3>5, <3>6, <1>i
  <2>5. control # Base(d) + 8 \/ d # "down"
    BY <1>c, <1>i
  <2>6. QED  BY <1>2, <2>1, <2>2, <2>3, <2>4, <2>5 DEF End
<1>3. QED  BY <1>1, <1>2, <1>c, ControlRuns

\* The inductive invariant holds when main() has returned.
LEMMA IInvInit == Init => IInv
<1> SUFFICES ASSUME Init PROVE IInv
  OBVIOUS
<1>0. /\ Task = {"I_Task", "T_SendUp", "T_RecvUp", "T_ArmUp", "T_SendDown", "T_RecvDown", "T_ArmDown"}
      /\ {"test_arm_sem", "test_recv_sem", Receiving, Sending, Matched} = Sems
  BY DEF Task, prio, Sems, Gates
<1>1. /\ \A t \in Task : thread[t] = IF t = "I_Task" THEN "ready" ELSE "none"
      /\ \A t \in Task : pc[t] = IF t \in {"T_RecvUp", "T_RecvDown"} THEN "take"
                                 ELSE IF t = "I_Task" THEN "control" ELSE "wait_start"
      /\ thread \in [Task -> {"none", "ready"}]
      /\ pc \in [Task -> {"take", "control", "wait_start"}]
  BY <1>0 DEF Init
<1>2. InType
  BY <1>0, <1>1, CountAssumption DEF Init, InType, Steps, Labels
<1>3. DirPhase("up")
  <2>1. \A d \in Dir : Zero(d)
    BY DEF Init, Zero
  <2>2. Unborn("up") /\ Unborn("down")
    BY <1>0, <1>1 DEF Unborn, Is, Sender, Receiver, Releaser
  <2>3. Setup("up")
    BY <2>1, <2>2, Names DEF Init, Setup, AtStart, Closed
  <2>4. NoCount
    BY <1>0 DEF Init, NoCount
  <2>5. QED  BY <2>1, <2>2, <2>3, <2>4, Names DEF DirPhase
<1>4. QED  BY <1>0, <1>1, <1>2, <1>3, Names DEF IInv

\* The inductive invariant is kept by every step.
LEMMA IInvStep == IInv /\ [Next]_vars => IInv'
<1> SUFFICES ASSUME IInv, [Next]_vars PROVE IInv'
  OBVIOUS
<1>1. InType'
  BY TypeStep DEF IInv
<1>2. CASE UNCHANGED vars
  <2>1. ASSUME NEW d \in Dir, DirPhase(d) PROVE DirPhase(d)'
    <3>1. /\ Setup(d) => Setup(d)'
          /\ End(d) => End(d)'
      BY <1>2 DEF vars, Setup, End, AtStart, Zero, Full, Closed, Unborn, Dead, Is
    <3>2. Loop(d) => Loop(d)'
      BY <1>2 DEF vars, Loop, Rest, Released, Opened, Sent, Matching, Returning, OneBack, BothBack,
                  AtLoop, Closed, Sized, Handed, Is
    <3>3. QED
      BY <1>2, <2>1, <3>1, <3>2 DEF vars, DirPhase, Full, Zero, NoCount, Unborn, Dead, Is
  <2>2. QED  BY <1>1, <1>2, <2>1 DEF IInv, vars
<1>3. CASE I_Create \/ I_Post \/ I_Wait \/ I_Abort \/ I_Reset
  BY <1>1, <1>3, ControlStep DEF IInv
<1>4. I_Signalize => UNCHANGED vars
  BY DEF I_Signalize
<1>5. QED
  BY <1>1, <1>2, <1>3, <1>4, SendStep, RecvStep, ArmStep DEF Next

\* The inductive invariant: where the threads of the measured direction can be,
\* and how far each series has come.
THEOREM Invariance == Spec => []IInv
<1>1. QED  BY IInvInit, IInvStep, PTL DEF Spec

-----------------------------------------------------------------------------
(***************************************************************************)
(* The properties, from the inductive invariant.                           *)
(***************************************************************************)
\* The inductive invariant implies OneTransaction.
LEMMA OneHolds == IInv => OneTransaction
<1> SUFFICES ASSUME IInv, NEW d \in Dir
             PROVE  /\ Runs(Releaser[d]) /\ pc[Releaser[d]] = "iterate" =>
                          /\ window = d /\ markers = All3(d)
                          /\ thread[Sender[d]] = "test_arm_sem"
                          /\ thread[Receiver[d]] = "test_recv_sem"
                    /\ Runs(Sender[d]) /\ pc[Sender[d]] = "put" =>
                          /\ window = d /\ markers = <<>>
                          /\ Waiters(Receiving) = {Receiver[d]} /\ Waiters(Sending) = {}
                          /\ active = step /\ received = step
                          /\ kind = "mailbox_sync" => armed = {step}
  BY DEF OneTransaction, All3
<1>1. ASSUME Runs(Releaser[d]), pc[Releaser[d]] = "iterate"
      PROVE  /\ window = d /\ markers = All3(d)
             /\ thread[Sender[d]] = "test_arm_sem" /\ thread[Receiver[d]] = "test_recv_sem"
  BY <1>1, ArmRuns DEF Runs, Ready, Sent, BothBack, Is
<1>2. ASSUME Runs(Sender[d]), pc[Sender[d]] = "put"
      PROVE  /\ window = d /\ markers = <<>>
             /\ Waiters(Receiving) = {Receiver[d]} /\ Waiters(Sending) = {}
             /\ active = step /\ received = step
             /\ kind = "mailbox_sync" => armed = {step}
  <2>1. DirPhase(d) /\ Loop(d) /\ Opened(d)
    BY <1>2, SendRuns DEF Runs, Ready
  <2>2. \A u \in Task : thread[u] = Receiving <=> u = Receiver[d]
    <3>1. \A u \in Task \ Group(d) : thread[u] # Receiving
      BY <2>1, OthersRest, Objects
    <3>2. thread[Sender[d]] # Receiving /\ thread[Releaser[d]] # Receiving /\ thread[Receiver[d]] = Receiving
      BY <2>1, Objects DEF Opened, Is
    <3>3. QED  BY <3>1, <3>2 DEF Group
  <2>3. Waiters(Receiving) = {Receiver[d]} /\ Waiters(Sending) = {}
    BY <2>1, <2>2, Three, NobodySends DEF Waiters
  <2>4. QED  BY <2>1, <2>3 DEF Opened, Sized
<1>3. QED  BY <1>1, <1>2

\* When the releaser feeds the two series, its window holds exactly the three
\* markers, in the order of the priorities; when the sender sends, the one
\* receiver is waiting for it, at the size of the series.
THEOREM One == Spec => []OneTransaction
<1>1. QED  BY Invariance, OneHolds, PTL

-----------------------------------------------------------------------------
(***************************************************************************)
(* Both series implement Transaction.  What a step does to the window, the *)
(* message and the samples is said once, for both.                         *)
(***************************************************************************)
\* The series of direction d that the loops have reached is the one to feed.
Reached(d) == AtLoop(d) /\ (d = "down" => Full("up"))

Idle == window' = window /\ Delivered' = Delivered /\ samples' = samples
Opens(d) ==
    /\ Reached(d) /\ window = "closed" /\ window' = d
    /\ Delivered = {} /\ Delivered' = {} /\ samples' = samples
Transfers(d) ==
    /\ Reached(d) /\ window = d /\ window' = d
    /\ Delivered = {} /\ Delivered' = {step} /\ samples' = samples
Records(d) ==
    /\ window = d /\ window' = "closed"
    /\ Delivered = {step} /\ Delivered' = {}
    /\ \A e \in Dir, s \in Series, n \in Steps :
          samples'[e][s][n] = IF e = d /\ n = step THEN samples[e][s][n] + 1 ELSE samples[e][s][n]

\* The lengths of the markers of a window, from its opening to its end.
LEMMA Lengths ==
    /\ Len(<<>>) = 0 /\ Len(<<"start">>) = 1
    /\ \A a, b : Len(<<"start", a>>) = 2 /\ Len(<<"start", a, b>>) = 3
OBVIOUS

\* While the window is closed a step that takes no marker and opens none is idle.
LEMMA ClosedIdle == Closed /\ measured' = measured => Idle
BY DEF Closed, measured, Delivered, Idle

\* The sender completes the transfer up, and is idle otherwise.
LEMMA SendMoves ==
    ASSUME IInv, NEW d \in Dir, Send_WaitStart(d) \/ Send_Take(d) \/ Send_Put(d) \/ Send_Stop(d)
    PROVE  Idle \/ Transfers(d)
<1> USE Three
<1>d. d # "closed" /\ d \in {"up", "down"}
  BY DEF Dir
<1>1. CASE Send_WaitStart(d) \/ Send_Take(d)
  <2>1. Closed
    BY <1>1, DirStepEffect, SendRuns DEF Send_WaitStart, Send_Take, Setup, Rest, AtStart
  <2>2. QED  BY <1>1, <2>1, ClosedIdle DEF Send_WaitStart, Send_Take
<1>2. CASE Send_Put(d)
  <2>1. Opened(d)
    BY <1>2, DirStepEffect, SendRuns DEF Send_Put
  <2>2. /\ markers = <<>> /\ markers' = <<"start">>
        /\ window' = window /\ samples' = samples
    BY <1>2, <2>1 DEF Opened, Send_Put
  <2>3. QED  BY <2>2, Lengths DEF Idle, Delivered
<1>3. CASE Send_Stop(d)
  <2>1. /\ DirPhase(d) /\ Loop(d) /\ Sent(d)
        /\ (Returning(d) /\ d = "down") \/ (OneBack(d) /\ d = "up")
    BY <1>3, DirStepEffect, SendRuns DEF Send_Stop
  <2>2. /\ window' = window /\ samples' = samples /\ received' = received
        /\ markers' = Append(markers, "rendezvous")
    BY <1>3 DEF Send_Stop, loop
  <2>3. CASE Returning(d) /\ d = "down"
    <3>1. markers = <<"start">> /\ markers' = <<"start", "rendezvous">>
      BY <2>2, <2>3, MarkerTaken DEF Returning
    <3>2. QED  BY <2>2, <3>1, Lengths DEF Idle, Delivered
  <2>4. CASE OneBack(d) /\ d = "up"
    <3>1. markers = <<"start", "direct">>
      BY <2>4 DEF OneBack
    <3>2. markers' = <<"start", "direct", "rendezvous">>
      BY <2>2, <3>1, MarkerTaken
    <3>3. window = d /\ received = step
      BY <2>1 DEF Sent
    <3>4. Delivered = {} /\ Delivered' = {step}
      BY <1>d, <2>2, <3>1, <3>2, <3>3, Lengths DEF Delivered
    <3>5. Reached(d)
      BY <2>1, <2>4 DEF Reached, Loop
    <3>6. QED  BY <2>2, <3>3, <3>4, <3>5 DEF Transfers
  <2>5. QED  BY <2>1, <2>3, <2>4
<1>4. QED  BY <1>1, <1>2, <1>3

\* The receiver completes the transfer down, and is idle otherwise.
LEMMA RecvMoves ==
    ASSUME IInv, NEW d \in Dir, Recv_Take(d) \/ Recv_Get(d) \/ Recv_Dispose(d) \/ Recv_Stop(d)
    PROVE  Idle \/ Transfers(d)
<1> USE Three
<1>d. d # "closed" /\ d \in {"up", "down"}
  BY DEF Dir
<1>1. CASE Recv_Take(d) \/ Recv_Get(d)
  <2>1. Setup(d) \/ Released(d)
    BY <1>1, DirStepEffect, RecvRuns DEF Recv_Take, Recv_Get
  <2>2. Closed
    BY <2>1 DEF Setup, Released, AtStart
  <2>3. QED  BY <1>1, <2>2, ClosedIdle DEF Recv_Take, Recv_Get
<1>2. CASE Recv_Dispose(d)
  BY <1>2 DEF Recv_Dispose, loop, measured, Idle, Delivered
<1>3. CASE Recv_Stop(d)
  <2>1. /\ DirPhase(d) /\ Loop(d) /\ Sent(d)
        /\ (Returning(d) /\ d = "up") \/ (OneBack(d) /\ d = "down")
    BY <1>3, DirStepEffect, RecvRuns DEF Recv_Stop
  <2>2. /\ window' = window /\ samples' = samples /\ received' = received
        /\ markers' = Append(markers, "direct")
    BY <1>3 DEF Recv_Stop, loop
  <2>3. CASE Returning(d) /\ d = "up"
    <3>1. markers = <<"start">> /\ markers' = <<"start", "direct">>
      BY <2>2, <2>3, MarkerTaken DEF Returning
    <3>2. QED  BY <2>2, <3>1, Lengths DEF Idle, Delivered
  <2>4. CASE OneBack(d) /\ d = "down"
    <3>1. markers = <<"start", "rendezvous">>
      BY <2>4 DEF OneBack
    <3>2. markers' = <<"start", "rendezvous", "direct">>
      BY <2>2, <3>1, MarkerTaken
    <3>3. window = d /\ received = step
      BY <2>1 DEF Sent
    <3>4. Delivered = {} /\ Delivered' = {step}
      BY <1>d, <2>2, <3>1, <3>2, <3>3, Lengths DEF Delivered
    <3>5. Reached(d)
      BY <2>1, <2>4 DEF Reached, Loop, DirPhase
    <3>6. QED  BY <2>2, <3>3, <3>4, <3>5 DEF Transfers
  <2>5. QED  BY <2>1, <2>3, <2>4
<1>4. QED  BY <1>1, <1>2, <1>3

\* The releaser opens the window and records the sample, and is idle otherwise.
LEMMA ArmMoves ==
    ASSUME IInv, NEW d \in Dir,
           \/ Arm_WaitStart(d) \/ Arm_GiveRecv(d) \/ Arm_GiveArm(d)
           \/ Arm_Iterate(d) \/ Arm_PostDone(d) \/ Arm_Suspend(d)
    PROVE  Idle \/ Opens(d) \/ Records(d)
<1> USE Three
<1>d. d # "closed" /\ d \in {"up", "down"}
  BY DEF Dir
<1>1. CASE Arm_WaitStart(d) \/ Arm_GiveRecv(d) \/ Arm_PostDone(d) \/ Arm_Suspend(d)
  <2>1. Setup(d) \/ Rest(d) \/ End(d)
    BY <1>1, DirStepEffect, ArmRuns DEF Arm_WaitStart, Arm_GiveRecv, Arm_PostDone, Arm_Suspend
  <2>2. Closed
    BY <2>1 DEF Setup, Rest, End, AtStart
  <2>3. QED
    BY <1>1, <2>2, ClosedIdle DEF Arm_WaitStart, Arm_GiveRecv, Arm_PostDone, Arm_Suspend
<1>2. CASE Arm_GiveArm(d)
  <2>1. DirPhase(d) /\ Loop(d) /\ Released(d)
    BY <1>2, DirStepEffect, ArmRuns DEF Arm_GiveArm
  <2>2. window = "closed" /\ window' = d /\ markers' = <<>> /\ samples' = samples
    BY <1>2, <2>1 DEF Arm_GiveArm, Released, Closed
  <2>3. Delivered = {} /\ Delivered' = {}
    BY <2>2, Lengths DEF Delivered
  <2>4. Reached(d)
    BY <2>1 DEF Reached, Loop, DirPhase
  <2>5. QED  BY <2>2, <2>3, <2>4 DEF Opens
<1>3. CASE Arm_Iterate(d)
  <2>1. \E m : Step(Releaser[d], "iterate", m)
    BY <1>3, IterationEffect DEF IInv
  <2>2. Sent(d) /\ BothBack(d)
    BY <2>1, DirStepEffect, ArmRuns
  <2>3. window = d /\ received = step /\ Len(markers) = 3
    BY <2>2, Lengths DEF Sent, BothBack, All3
  <2>4. /\ window' = "closed"
        /\ \A e \in Dir, s \in Series, n \in Steps :
              samples'[e][s][n] = IF e = d /\ n = step THEN samples[e][s][n] + 1 ELSE samples[e][s][n]
    BY <1>3, CountEffect DEF IInv
  <2>5. Delivered = {step} /\ Delivered' = {}
    BY <1>d, <2>3, <2>4 DEF Delivered
  <2>6. QED  BY <2>3, <2>4, <2>5 DEF Records
<1>4. QED  BY <1>1, <1>2, <1>3

\* I_Task runs only between the directions, when the window is closed.
LEMMA ControlMoves ==
    ASSUME IInv, I_Create \/ I_Post \/ I_Wait \/ I_Abort \/ I_Reset
    PROVE  Idle
<1>1. Runs("I_Task") /\ measured' = measured
  BY DEF I_Create, I_Post, I_Wait, I_Abort, I_Reset, I_Call, measured
<1>2. PICK d \in Dir : DirPhase(d)
  BY DEF IInv
<1>3. Setup(d) \/ End(d)
  BY <1>1, <1>2, ControlEffect, ControlRuns DEF IInv
<1>4. Closed
  BY <1>3 DEF Setup, End, AtStart
<1>5. QED  BY <1>1, <1>4, ClosedIdle

\* Every step opens a window, completes a transfer, records it, or is idle.
LEMMA EachStep ==
    ASSUME IInv, [Next]_vars
    PROVE  Idle \/ \E d \in Dir : Opens(d) \/ Transfers(d) \/ Records(d)
<1>1. CASE UNCHANGED vars
  BY <1>1 DEF vars, Idle, Delivered
<1>2. I_Signalize => UNCHANGED vars
  BY DEF I_Signalize
<1>3. QED
  BY <1>1, <1>2, SendMoves, RecvMoves, ArmMoves, ControlMoves DEF Next

\* The series that the loops have reached is due in each of the two views.
LEMMA IsDue ==
    ASSUME InType, NEW d \in Dir, Reached(d), NEW s \in Series
    PROVE  /\ step \in 0..(MESSAGE_SIZE_STEPS - 1)
           /\ Of(s)[d][step] < MEASUREMENT_COUNT
           /\ \A m \in 0..(step - 1) : Of(s)[d][m] = MEASUREMENT_COUNT
           /\ \E k \in DOMAIN <<"up", "down">> :
                 /\ <<"up", "down">>[k] = d
                 /\ \A j \in 1..(k - 1), m \in 0..(MESSAGE_SIZE_STEPS - 1) :
                       Of(s)[<<"up", "down">>[j]][m] = MEASUREMENT_COUNT
<1>0. /\ step \in 0..(MESSAGE_SIZE_STEPS - 1) /\ MESSAGE_SIZE_STEPS \in Nat \ {0}
      /\ i \in 0..(MEASUREMENT_COUNT - 1) /\ MEASUREMENT_COUNT \in Nat \ {0}
      /\ Steps = 0..(MESSAGE_SIZE_STEPS - 1) /\ step \in Steps
  BY CountAssumption DEF InType, Steps
<1>1. \A e \in Dir, n \in Steps : Of(s)[e][n] = samples[e][s][n]
  BY DEF Of
<1>2. Of(s)[d][step] < MEASUREMENT_COUNT
  <2>1. Of(s)[d][step] = i
    BY <1>0, <1>1 DEF Reached, AtLoop
  <2>2. QED  BY <1>0, <2>1
<1>3. \A m \in 0..(step - 1) : Of(s)[d][m] = MEASUREMENT_COUNT
  <2>1. ASSUME NEW m \in 0..(step - 1) PROVE m \in Steps /\ m < step
    BY <1>0
  <2>2. QED  BY <1>1, <2>1 DEF Reached, AtLoop
<1>4. \E k \in 1..2 :
         /\ <<"up", "down">>[k] = d
         /\ \A j \in 1..(k - 1), m \in 0..(MESSAGE_SIZE_STEPS - 1) :
               Of(s)[<<"up", "down">>[j]][m] = MEASUREMENT_COUNT
  <2>1. CASE d = "up"
    <3>1. <<"up", "down">>[1] = d /\ 1..(1 - 1) = {}
      BY <2>1
    <3>2. QED  BY <3>1
  <2>2. CASE d = "down"
    <3>1. <<"up", "down">>[2] = d /\ \A j \in 1..(2 - 1) : <<"up", "down">>[j] = "up"
      BY <2>2
    <3>2. \A m \in Steps : Of(s)["up"][m] = MEASUREMENT_COUNT
      BY <1>1, <2>2, Names DEF Reached, Full
    <3>3. QED  BY <1>0, <3>1, <3>2
  <2>3. QED  BY <2>1, <2>2 DEF Dir
<1>5. DOMAIN <<"up", "down">> = 1..2
  OBVIOUS
<1>6. QED  BY <1>0, <1>2, <1>3, <1>4, <1>5

\* A recorded iteration is one more in the view of each series.
LEMMA OneMore ==
    ASSUME InType, InType', NEW d \in Dir, Records(d), NEW s \in Series
    PROVE  Of(s)' = [Of(s) EXCEPT ![d][step] = @ + 1]
<1>0. step \in Steps
  BY DEF InType
<1>1. /\ Of(s) \in [Dir -> [Steps -> Nat]]
      /\ Of(s)' \in [Dir -> [Steps -> Nat]]
  BY DEF InType, Of
<1>2. /\ \A e \in Dir, n \in Steps : Of(s)[e][n] = samples[e][s][n]
      /\ \A e \in Dir, n \in Steps : Of(s)'[e][n] = samples'[e][s][n]
  BY DEF Of
<1> DEFINE f == Of(s)
           g == Of(s)'
<1>3. \A e \in Dir, n \in Steps : g[e][n] = IF e = d /\ n = step THEN f[e][n] + 1 ELSE f[e][n]
  BY <1>2 DEF Records
<1>4. f \in [Dir -> [Steps -> Nat]] /\ g \in [Dir -> [Steps -> Nat]]
  BY <1>1
<1> HIDE DEF f, g
<1>5. \A e \in Dir : g[e] = [f EXCEPT ![d][step] = @ + 1][e]
  <2>1. ASSUME NEW e \in Dir \ {d} PROVE g[e] = f[e]
    <3>1. \A n \in Steps : g[e][n] = f[e][n]
      BY <1>3, <2>1
    <3>2. g[e] \in [Steps -> Nat] /\ f[e] \in [Steps -> Nat]
      BY <1>4
    <3>3. QED  BY <3>1, <3>2
  <2>2. g[d] = [f[d] EXCEPT ![step] = @ + 1]
    <3>1. \A n \in Steps : g[d][n] = IF n = step THEN f[d][n] + 1 ELSE f[d][n]
      BY <1>3
    <3>2. g[d] \in [Steps -> Nat] /\ f[d] \in [Steps -> Nat]
      BY <1>4
    <3>3. QED  BY <1>0, <3>1, <3>2
  <2>3. QED  BY <1>4, <2>1, <2>2
<1>6. g = [f EXCEPT ![d][step] = @ + 1]
  BY <1>4, <1>5
<1>7. QED  BY <1>6 DEF f, g

\* The scenarios of the abstract specifications are the two directions.
LEMMA TheScenarios == {<<"up", "down">>[k] : k \in DOMAIN <<"up", "down">>} = Dir
<1>1. DOMAIN <<"up", "down">> = {1, 2} /\ <<"up", "down">>[1] = "up" /\ <<"up", "down">>[2] = "down"
  OBVIOUS
<1>2. QED  BY <1>1 DEF Dir

\* The initial state maps to the initial state, in both views.
LEMMA InitMaps == Init => Send!Init /\ Rendezvous!Init
<1> SUFFICES ASSUME Init PROVE Send!Init /\ Rendezvous!Init
  OBVIOUS
<1>1. Delivered = {} /\ window = "closed"
  BY DEF Init, Delivered
<1>2. \A s \in Series : Of(s) = [d \in Dir |-> [n \in 0..(MESSAGE_SIZE_STEPS - 1) |-> 0]]
  BY DEF Init, Of, Steps
<1>3. /\ Send!Scenario = Dir /\ Rendezvous!Scenario = Dir
      /\ Send!Sizes = 0..(MESSAGE_SIZE_STEPS - 1) /\ Rendezvous!Sizes = 0..(MESSAGE_SIZE_STEPS - 1)
  BY TheScenarios DEF Send!Scenario, Rendezvous!Scenario, Send!Sizes, Rendezvous!Sizes
<1>4. "send" \in Series /\ "rendezvous" \in Series
  BY DEF Series
<1>5. QED  BY <1>1, <1>2, <1>3, <1>4 DEF Send!Init, Rendezvous!Init

\* Every step maps to a step or a stutter of the sender's series.
LEMMA SendMaps == IInv /\ [Next]_vars => [Send!Next]_(Send!tvars)
<1> SUFFICES ASSUME IInv, [Next]_vars PROVE [Send!Next]_(Send!tvars)
  OBVIOUS
<1>0. /\ InType /\ InType' /\ "send" \in Series /\ Send!Scenario = Dir
      /\ Send!Sizes = 0..(MESSAGE_SIZE_STEPS - 1)
  BY TypeStep, TheScenarios DEF IInv, Series, Send!Scenario, Send!Sizes
<1>1. CASE Idle
  BY <1>1 DEF Idle, Of, Send!tvars
<1>2. ASSUME NEW d \in Dir, Opens(d) PROVE Send!Open(d)
  <2>1. step \in Send!Sizes /\ Send!Due(d, step)
    BY <1>0, <1>2, IsDue DEF Opens, Send!Due
  <2>2. Of("send")' = Of("send")
    BY <1>2 DEF Opens, Of
  <2>3. QED  BY <1>2, <2>1, <2>2 DEF Opens, Send!Open
<1>3. ASSUME NEW d \in Dir, Transfers(d) PROVE Send!Transfer(d)
  <2>1. step \in Send!Sizes /\ Send!Due(d, step)
    BY <1>0, <1>3, IsDue DEF Transfers, Send!Due
  <2>2. Of("send")' = Of("send")
    BY <1>3 DEF Transfers, Of
  <2>3. QED  BY <1>3, <2>1, <2>2 DEF Transfers, Send!Transfer
<1>4. ASSUME NEW d \in Dir, Records(d) PROVE Send!Record(d)
  <2>1. Of("send")' = [Of("send") EXCEPT ![d][step] = @ + 1]
    BY <1>0, <1>4, OneMore
  <2>2. QED  BY <1>4, <2>1 DEF Records, Send!Record
<1>5. QED  BY <1>0, <1>1, <1>2, <1>3, <1>4, EachStep DEF Send!Next

\* Every step maps to a step or a stutter of the receiver's series.
LEMMA RendezvousMaps == IInv /\ [Next]_vars => [Rendezvous!Next]_(Rendezvous!tvars)
<1> SUFFICES ASSUME IInv, [Next]_vars PROVE [Rendezvous!Next]_(Rendezvous!tvars)
  OBVIOUS
<1>0. /\ InType /\ InType' /\ "rendezvous" \in Series /\ Rendezvous!Scenario = Dir
      /\ Rendezvous!Sizes = 0..(MESSAGE_SIZE_STEPS - 1)
  BY TypeStep, TheScenarios DEF IInv, Series, Rendezvous!Scenario, Rendezvous!Sizes
<1>1. CASE Idle
  BY <1>1 DEF Idle, Of, Rendezvous!tvars
<1>2. ASSUME NEW d \in Dir, Opens(d) PROVE Rendezvous!Open(d)
  <2>1. step \in Rendezvous!Sizes /\ Rendezvous!Due(d, step)
    BY <1>0, <1>2, IsDue DEF Opens, Rendezvous!Due
  <2>2. Of("rendezvous")' = Of("rendezvous")
    BY <1>2 DEF Opens, Of
  <2>3. QED  BY <1>2, <2>1, <2>2 DEF Opens, Rendezvous!Open
<1>3. ASSUME NEW d \in Dir, Transfers(d) PROVE Rendezvous!Transfer(d)
  <2>1. step \in Rendezvous!Sizes /\ Rendezvous!Due(d, step)
    BY <1>0, <1>3, IsDue DEF Transfers, Rendezvous!Due
  <2>2. Of("rendezvous")' = Of("rendezvous")
    BY <1>3 DEF Transfers, Of
  <2>3. QED  BY <1>3, <2>1, <2>2 DEF Transfers, Rendezvous!Transfer
<1>4. ASSUME NEW d \in Dir, Records(d) PROVE Rendezvous!Record(d)
  <2>1. Of("rendezvous")' = [Of("rendezvous") EXCEPT ![d][step] = @ + 1]
    BY <1>0, <1>4, OneMore
  <2>2. QED  BY <1>4, <2>1 DEF Records, Rendezvous!Record
<1>5. QED  BY <1>0, <1>1, <1>2, <1>3, <1>4, EachStep DEF Rendezvous!Next

\* Both synchronous programs implement Transaction twice over, once for the
\* sender's series and once for the receiver's: each window transfers one
\* message of the size that is due, and feeds both.
THEOREM Refinement ==
    Spec => /\ Send!Init /\ [][Send!Next]_(Send!tvars)
            /\ Rendezvous!Init /\ [][Rendezvous!Next]_(Rendezvous!tvars)
<1>1. QED  BY InitMaps, SendMaps, RendezvousMaps, Invariance, PTL DEF Spec
=============================================================================
