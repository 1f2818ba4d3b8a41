------------------------------ MODULE ItcAsync ------------------------------
(***************************************************************************)
(* src/itc: fifo.c, lifo.c, stack.c, msgq.c, pipe_async.c, mailbox_async.c *)
(*                                                                         *)
(* One transaction at a time is sent from a thread to itself, up to a      *)
(* receiver of higher priority and down to one of lower priority.  The     *)
(* releaser T_ArmUp or T_ArmDown, below both, first lets the receiver wait *)
(* on the object, then opens the window and releases the sender.  The six  *)
(* programs are one program but for the size of the message, which is set  *)
(* in a variable (msgq, pipe), in two descriptors (mailbox) or has no      *)
(* effect (fifo, lifo, stack), and for k_pipe_reset(); kind selects one.   *)
(*                                                                         *)
(* An object with a wait queue of receivers and at most one stored message *)
(* is what a semaphore is in module Kernel, and is modelled as one.        *)
(***************************************************************************)
EXTENDS Naturals, Sequences

CONSTANTS
    MEASUREMENT_COUNT,    \* iterations of each series
    MESSAGE_SIZE_STEPS    \* series of each scenario, one per message size

VARIABLES
    thread, count, events,   \* see module Kernel
    pc,                      \* where each thread continues when it runs next
    control,                 \* the position of I_Task in Control
    step, i,                 \* the loop counters of T_Self, T_ArmUp or T_ArmDown
    active,                  \* active_msgq, active_message_size, message_size
    armed,                   \* the step of the two descriptors; {} after a match
    received,                \* the step the receiver has entered the call with
    window,                  \* the scenario whose window is open, or "closed"
    markers,                 \* the markers taken since then, in their order
    samples,                 \* calls of BMTH_mseries_iterate() for each series
    kind                     \* the program, which no step changes

Kinds == {"fifo", "lifo", "stack", "msgq", "pipe_async", "mailbox_async"}
Dir == {"up", "down"}
Scenario == Dir \cup {"self"}
Steps == 0..(MESSAGE_SIZE_STEPS - 1)

Sender == [up |-> "T_SendUp", down |-> "T_SendDown"]
Receiver == [up |-> "T_RecvUp", down |-> "T_RecvDown"]
Releaser == [up |-> "T_ArmUp", down |-> "T_ArmDown"]
Object == [self |-> "test_object_self", up |-> "test_object_high", down |-> "test_object_low"]
START == [self |-> "START_SELF", up |-> "START_UP", down |-> "START_DOWN"]
DONE == [self |-> "DONE_SELF", up |-> "DONE_UP", down |-> "DONE_DOWN"]

prio == [I_Task |-> 15, T_Self |-> 3, T_SendUp |-> 3, T_RecvUp |-> 2, T_ArmUp |-> 4,
         T_SendDown |-> 2, T_RecvDown |-> 3, T_ArmDown |-> 4]

Task == DOMAIN prio

INSTANCE Kernel WITH
    Sem <- {"test_arm_sem", "test_recv_sem"} \cup {Object[s] : s \in Scenario},
    Event <- {START[s] : s \in Scenario} \cup {DONE[s] : s \in Scenario},
    K_SEM_MAX_LIMIT <- 1

vars == <<thread, count, events, pc, control, step, i, active, armed, received, window,
          markers, samples, kind>>

measured == <<window, markers, samples>>
loop == <<step, i, active, armed, received>>

ASSUME CountAssumption ==
    /\ MEASUREMENT_COUNT \in Nat \ {0}
    /\ MESSAGE_SIZE_STEPS \in Nat \ {0}

\* The kernel calls of I_Task after the initialisation of its objects.
Call(c, n) == [call |-> c, on |-> n]
Phase(d) ==
    << Call("create", Sender[d]), Call("create", Receiver[d]), Call("create", Releaser[d]),
       Call("post", START[d]), Call("wait", DONE[d]),
       Call("abort", Sender[d]), Call("abort", Receiver[d]), Call("abort", Releaser[d]) >>
Control ==
    << Call("create", "T_Self"), Call("post", START["self"]), Call("wait", DONE["self"]),
       Call("abort", "T_Self") >>
    \o Phase("up")
    \o << Call("reset", "test_arm_sem"), Call("reset", "test_recv_sem") >>
    \o Phase("down")

-----------------------------------------------------------------------------
\* main() has initialised the series, created I_Task and returned.  The
\* mailbox descriptors are armed before any thread starts.
Init ==
    /\ thread = [t \in Task |-> IF t = "I_Task" THEN "ready" ELSE "none"]
    /\ count = [s \in {"test_arm_sem", "test_recv_sem"} \cup {Object[s] : s \in Scenario} |-> 0]
    /\ events = {}
    /\ pc = [t \in Task |->
               CASE t \in {"T_RecvUp", "T_RecvDown"} -> "take"
                 [] t = "I_Task" -> "control"
                 [] OTHER -> "wait_start"]
    /\ control = 1
    /\ step = 0 /\ i = 0 /\ active = 0 /\ armed = {0} /\ received = 0
    /\ window = "closed" /\ markers = <<>>
    /\ samples = [s \in Scenario |-> [n \in Steps |-> 0]]
    /\ kind \in Kinds

\* Thread t runs from label l to label m.
Step(t, l, m) ==
    /\ Runs(t)
    /\ pc[t] = l
    /\ pc' = [pc EXCEPT ![t] = m]
    /\ UNCHANGED <<control, kind>>

\* The head of the two loops of the releasers.  What they set has no effect in
\* fifo, lifo and stack.
SetStep ==
    /\ active' = IF i = 0 THEN step ELSE active
    /\ armed' = IF kind = "mailbox_async" THEN {active'} ELSE armed
    /\ UNCHANGED <<step, i, received>>

\* Mutant: the bound of the inner loop is off by one.
NextIteration_OneMore(t, l, again, done) ==
    /\ \/ /\ i < MEASUREMENT_COUNT
          /\ i' = i + 1
          /\ Step(t, l, again)
          /\ UNCHANGED step
       \/ /\ i >= MEASUREMENT_COUNT
          /\ i' = 0 /\ step' = (step + 1) % MESSAGE_SIZE_STEPS
          /\ Step(t, l, IF step' = 0 THEN done ELSE again)
    /\ UNCHANGED <<active, armed, received>>

\* The end of their bodies, with thread t at label l.
NextIteration(t, l, again, done) ==
    /\ \/ /\ i + 1 < MEASUREMENT_COUNT
          /\ i' = i + 1
          /\ Step(t, l, again)
          /\ UNCHANGED step
       \/ /\ i + 1 >= MEASUREMENT_COUNT
          /\ step + 1 < MESSAGE_SIZE_STEPS
          /\ i' = 0 /\ step' = step + 1
          /\ Step(t, l, again)
       \/ /\ i + 1 >= MEASUREMENT_COUNT
          /\ step + 1 >= MESSAGE_SIZE_STEPS
          /\ i' = 0 /\ step' = 0
          /\ Step(t, l, done)
    /\ UNCHANGED <<active, armed, received>>

\* BMTH_mseries_iterate() and BMTH_mwindow_close().
Iterate(s) ==
    /\ samples' = [samples EXCEPT ![s][step] = @ + 1]
    /\ window' = "closed"

\* The match of a message with a receiver overwrites the mailbox descriptors.
Match(matched) == armed' = IF matched THEN {} ELSE armed

-----------------------------------------------------------------------------
\* T_Self

Self_WaitStart ==
    /\ Step("T_Self", "wait_start", "put")
    /\ EventWait("T_Self", START["self"])
    /\ UNCHANGED <<measured, loop>>

Self_Put ==
    /\ Step("T_Self", "put", "get")
    /\ IF kind = "mailbox_async" THEN SetStep ELSE UNCHANGED loop
    /\ window' = "self" /\ markers' = <<"start">>
    /\ SemGive(Object["self"])
    /\ UNCHANGED samples

\* Only k_fifo_get() is called with K_NO_WAIT.
Self_Get ==
    /\ Step("T_Self", "get", "stop")
    /\ IF kind = "fifo" THEN SemTry(Object["self"]) ELSE SemTake("T_Self", Object["self"])
    /\ Match(kind = "mailbox_async")
    /\ UNCHANGED <<measured, step, i, active, received>>

Self_Stop ==
    /\ NextIteration("T_Self", "stop", "put", "post_done")
    /\ markers' = Append(markers, "stop")
    /\ Iterate("self")
    /\ NoCall

Self_PostDone ==
    /\ Step("T_Self", "post_done", "suspend")
    /\ EventPost(DONE["self"])
    /\ UNCHANGED <<measured, loop>>

Self_Suspend ==
    /\ Step("T_Self", "suspend", "suspend")
    /\ Suspend("T_Self")
    /\ UNCHANGED <<measured, loop>>

-----------------------------------------------------------------------------
\* T_SendUp and T_SendDown

Send_WaitStart(d) ==
    /\ Step(Sender[d], "wait_start", "take")
    /\ EventWait(Sender[d], START[d])
    /\ UNCHANGED <<measured, loop>>

Send_Take(d) ==
    /\ Step(Sender[d], "take", "put")
    /\ SemTake(Sender[d], "test_arm_sem")
    /\ UNCHANGED <<measured, loop>>

Send_Put(d) ==
    /\ Step(Sender[d], "put", "take")
    /\ markers' = Append(markers, "start")
    /\ SemGive(Object[d])
    /\ Match(kind = "mailbox_async" /\ Waiters(Object[d]) # {})
    /\ UNCHANGED <<window, samples, step, i, active, received>>

\* T_RecvUp and T_RecvDown

Recv_Take(d) ==
    /\ Step(Receiver[d], "take", "get")
    /\ SemTake(Receiver[d], "test_recv_sem")
    /\ UNCHANGED <<measured, loop>>

\* The receive operation keeps the length, or the object, it is entered with.
Recv_Get(d) ==
    /\ Step(Receiver[d], "get", "stop")
    /\ received' = active
    /\ SemTake(Receiver[d], Object[d])
    /\ Match(kind = "mailbox_async" /\ count[Object[d]] > 0)
    /\ UNCHANGED <<measured, step, i, active>>

Recv_Stop(d) ==
    /\ Step(Receiver[d], "stop", "get")
    /\ markers' = Append(markers, "stop")
    /\ SemTake(Receiver[d], "test_recv_sem")
    /\ UNCHANGED <<loop, window, samples>>

\* T_ArmUp and T_ArmDown

Arm_WaitStart(d) ==
    /\ Step(Releaser[d], "wait_start", "give_recv")
    /\ EventWait(Releaser[d], START[d])
    /\ UNCHANGED <<measured, loop>>

\* Mutant: the descriptors are not armed again.
Arm_GiveRecv_NotArmed(d) ==
    /\ Step(Releaser[d], "give_recv", "give_arm")
    /\ active' = IF i = 0 THEN step ELSE active
    /\ SemGive("test_recv_sem")
    /\ UNCHANGED <<measured, step, i, armed, received>>

\* Mutant: the receiver is not released before the sender.
Arm_GiveRecv_Skipped(d) ==
    /\ Step(Releaser[d], "give_recv", "give_arm")
    /\ SetStep
    /\ NoCall
    /\ UNCHANGED measured

Arm_GiveRecv(d) ==
    /\ Step(Releaser[d], "give_recv", "give_arm")
    /\ SetStep
    /\ SemGive("test_recv_sem")
    /\ UNCHANGED measured

Arm_GiveArm(d) ==
    /\ Step(Releaser[d], "give_arm", "iterate")
    /\ window' = d /\ markers' = <<>>
    /\ SemGive("test_arm_sem")
    /\ UNCHANGED <<loop, samples>>

Arm_Iterate(d) ==
    /\ NextIteration(Releaser[d], "iterate", "give_recv", "post_done")
    /\ Iterate(d)
    /\ IF kind = "pipe_async" THEN SemReset(Object[d]) ELSE NoCall
    /\ UNCHANGED markers

\* Mutant: the end of the direction is not posted.
Arm_PostDone_Skipped(d) ==
    /\ Step(Releaser[d], "post_done", "suspend")
    /\ NoCall
    /\ UNCHANGED <<measured, loop>>

Arm_PostDone(d) ==
    /\ Step(Releaser[d], "post_done", "suspend")
    /\ EventPost(DONE[d])
    /\ UNCHANGED <<measured, loop>>

Arm_Suspend(d) ==
    /\ Step(Releaser[d], "suspend", "suspend")
    /\ Suspend(Releaser[d])
    /\ UNCHANGED <<measured, loop>>

-----------------------------------------------------------------------------
\* I_Task makes the call that is next in Control.
I_Call(c) ==
    /\ Runs("I_Task") /\ control <= Len(Control)
    /\ Control[control].call = c
    /\ control' = control + 1
    /\ UNCHANGED <<pc, kind, measured, step, i, received>>

\* Mailbox only: the descriptors are armed with the smallest size before the
\* threads of a direction are created.
Rearm(t) ==
    IF kind = "mailbox_async" /\ t \in {Sender[d] : d \in Dir}
    THEN active' = 0 /\ armed' = {0}
    ELSE UNCHANGED <<active, armed>>

I_Create == I_Call("create") /\ Rearm(Control[control].on) /\ Create(Control[control].on)
I_Post == I_Call("post") /\ EventPost(Control[control].on) /\ UNCHANGED <<active, armed>>
I_Wait == I_Call("wait") /\ EventWait("I_Task", Control[control].on) /\ UNCHANGED <<active, armed>>
I_Abort == I_Call("abort") /\ Abort(Control[control].on) /\ UNCHANGED <<active, armed>>
I_Reset == I_Call("reset") /\ SemReset(Control[control].on) /\ UNCHANGED <<active, armed>>

\* BMTH_signalize_mseries_stop(), for ever.
I_Signalize ==
    /\ Runs("I_Task") /\ control > Len(Control)
    /\ UNCHANGED vars

Next ==
    \/ Self_WaitStart \/ Self_Put \/ Self_Get \/ Self_Stop \/ Self_PostDone \/ Self_Suspend
    \/ I_Create \/ I_Post \/ I_Wait \/ I_Abort \/ I_Reset \/ I_Signalize
    \/ \E d \in Dir :
          \/ Send_WaitStart(d) \/ Send_Take(d) \/ Send_Put(d)
          \/ Recv_Take(d) \/ Recv_Get(d) \/ Recv_Stop(d)
          \/ Arm_WaitStart(d) \/ Arm_GiveRecv(d) \/ Arm_GiveArm(d) \/ Arm_Iterate(d)
          \/ Arm_PostDone(d) \/ Arm_Suspend(d)

\* The CPU never idles while a thread is ready.
Spec == Init /\ [][Next]_vars /\ WF_vars(Next)

-----------------------------------------------------------------------------
Labels == {"control", "wait_start", "put", "get", "stop", "post_done", "suspend", "take",
           "give_recv", "give_arm", "iterate"}

\* Every variable has its type, and no give is lost at the limit of one that
\* k_sem_init() sets for the two gates: a semaphore is only given at zero.
TypeOK ==
    /\ KernelTypeOK
    /\ pc \in [Task -> Labels]
    /\ control \in 1..(Len(Control) + 1)
    /\ step \in Steps /\ active \in Steps /\ received \in Steps /\ armed \subseteq Steps
    /\ i \in 0..(MEASUREMENT_COUNT - 1)
    /\ window \in Scenario \cup {"closed"}
    /\ markers \in Seq({"start", "stop"}) /\ Len(markers) <= 2
    /\ samples \in [Scenario -> [Steps -> 0..MEASUREMENT_COUNT]]
    /\ \A d \in Dir : Runs(Releaser[d]) =>
          /\ pc[Releaser[d]] = "give_recv" => count["test_recv_sem"] = 0
          /\ pc[Releaser[d]] = "give_arm" => count["test_arm_sem"] = 0

\* "It is only ever scheduled once all of them are blocked": when the
\* releaser feeds the series, both markers of this window are taken, in their
\* order, and both measured threads pend on their gates.
MarkersSettled ==
    \A d \in Dir :
        Runs(Releaser[d]) /\ pc[Releaser[d]] = "iterate" =>
            /\ window = d /\ markers = <<"start", "stop">>
            /\ thread[Sender[d]] = "test_arm_sem"
            /\ thread[Receiver[d]] = "test_recv_sem"

\* A message goes "to the waiting receiver", never into the storage of the
\* object, and sender and receiver are both at the size of the series that is
\* measured; in self the object is empty when the message is stored.
SameStep ==
    /\ \A d \in Dir :
          Runs(Sender[d]) /\ pc[Sender[d]] = "put" =>
              /\ window = d
              /\ Waiters(Object[d]) = {Receiver[d]}
              /\ active = step /\ received = step
              /\ kind = "mailbox_async" => armed = {step}
    /\ Runs("T_Self") /\ pc["T_Self"] = "put" => count[Object["self"]] = 0

\* What has been handed over in the open window: to the receiver, which has
\* taken its stop marker, or from T_Self to itself.
Delivered ==
    IF window = "closed" THEN {}
    ELSE IF window = "self"
         THEN IF pc["T_Self"] = "stop" /\ thread["T_Self"] = "ready" THEN {step} ELSE {}
         ELSE IF markers = <<"start", "stop">> THEN {received} ELSE {}

\* The three scenarios are measured in their order, size after size, one
\* message of the right size in each window, until every series has
\* MEASUREMENT_COUNT iterations: the program implements Transaction.
Transaction == INSTANCE Transaction WITH
    Scenarios <- <<"self", "up", "down">>, message <- Delivered

Transacts == Transaction!Spec
=============================================================================
