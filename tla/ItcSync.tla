------------------------------ MODULE ItcSync ------------------------------
(***************************************************************************)
(* src/itc: mailbox_sync.c and pipe_sync.c                                 *)
(*                                                                         *)
(* The synchronous transactions: the object stores nothing, the sender's   *)
(* call returns when the receiver has taken the message, and both threads  *)
(* take a stop marker, so each window feeds two series.  The pipe copies   *)
(* into the waiting reader and does not block the writer; the mailbox      *)
(* blocks its sender until the receiver disposes of the message.           *)
(***************************************************************************)
EXTENDS Naturals, Sequences

CONSTANTS
    MEASUREMENT_COUNT,    \* iterations of each series
    MESSAGE_SIZE_STEPS    \* series of each scenario, one per message size

VARIABLES
    thread, count, events,   \* see module Kernel
    pc,                      \* where each thread continues when it runs next
    control,                 \* the position of I_Task in Control
    step, i,                 \* the loop counters of T_ArmUp or T_ArmDown
    active,                  \* active_message_size, message_size
    armed,                   \* the step of the two descriptors; {} after a match
    received,                \* the step the receiver has entered the call with
    window,                  \* the scenario whose windows are open, or "closed"
    markers,                 \* the markers taken since then, in their order
    samples,                 \* calls of BMTH_mseries_iterate() for each series
    kind                     \* the program, which no step changes

Dir == {"up", "down"}
Series == {"send", "rendezvous"}
Steps == 0..(MESSAGE_SIZE_STEPS - 1)

Sender == [up |-> "T_SendUp", down |-> "T_SendDown"]
Receiver == [up |-> "T_RecvUp", down |-> "T_RecvDown"]
Releaser == [up |-> "T_ArmUp", down |-> "T_ArmDown"]
START == [up |-> "START_UP", down |-> "START_DOWN"]
DONE == [up |-> "DONE_UP", down |-> "DONE_DOWN"]

prio == [I_Task |-> 15, T_SendUp |-> 3, T_RecvUp |-> 2, T_ArmUp |-> 4,
         T_SendDown |-> 2, T_RecvDown |-> 3, T_ArmDown |-> 4]

Task == DOMAIN prio

\* Where threads pend on the object of a direction: its receivers, its senders
\* without a receiver, and a sender whose message is being received.
Receiving == "receiving"
Sending == "sending"
Matched == "matched"

INSTANCE Kernel WITH
    Sem <- {"test_arm_sem", "test_recv_sem", Receiving, Sending, Matched},
    Event <- {START[d] : d \in Dir} \cup {DONE[d] : d \in Dir},
    K_SEM_MAX_LIMIT <- 1

vars == <<thread, count, events, pc, control, step, i, active, armed, received, window,
          markers, samples, kind>>

measured == <<window, markers, samples>>
loop == <<step, i, active, armed, received>>

ASSUME CountAssumption ==
    /\ MEASUREMENT_COUNT \in Nat \ {0}
    /\ MESSAGE_SIZE_STEPS \in Nat \ {0}

\* The kernel calls of I_Task after the initialisation of its objects.
Call(c, n) == [call |-> c, on |-> n]
Phase(d) ==
    << Call("create", Sender[d]), Call("create", Receiver[d]), Call("create", Releaser[d]),
       Call("post", START[d]), Call("wait", DONE[d]),
       Call("abort", Sender[d]), Call("abort", Receiver[d]), Call("abort", Releaser[d]) >>
Control ==
    Phase("up") \o << Call("reset", "test_arm_sem"), Call("reset", "test_recv_sem") >>
    \o Phase("down")

-----------------------------------------------------------------------------
\* The calls on the mailbox or the pipe

\* k_mbox_put() and k_pipe_write() with K_FOREVER.
Put(t) ==
    /\ \/ /\ Waiters(Receiving) = {}
          /\ thread' = [thread EXCEPT ![t] = Sending]
          /\ UNCHANGED armed
       \/ \E r \in Waiters(Receiving) :
             /\ thread' = [thread EXCEPT ![r] = "ready",
                                         ![t] = IF kind = "mailbox_sync" THEN Matched ELSE @]
             /\ armed' = IF kind = "mailbox_sync" THEN {} ELSE armed
    /\ UNCHANGED <<count, events>>

\* k_mbox_get() up to the match and k_pipe_read(), both with K_FOREVER.
Get(t) ==
    /\ \/ /\ Waiters(Sending) = {}
          /\ thread' = [thread EXCEPT ![t] = Receiving]
          /\ UNCHANGED armed
       \/ \E s \in Waiters(Sending) :
             /\ thread' = [thread EXCEPT ![s] =
                             IF kind = "mailbox_sync" THEN Matched ELSE "ready"]
             /\ armed' = IF kind = "mailbox_sync" THEN {} ELSE armed
    /\ UNCHANGED <<count, events>>

\* The rest of k_mbox_get(): the copy, and the sender is ready again.
Dispose ==
    /\ thread' = [t \in Task |-> IF thread[t] = Matched THEN "ready" ELSE thread[t]]
    /\ UNCHANGED <<count, events>>

-----------------------------------------------------------------------------
\* main() has initialised the series, created I_Task and returned.
Init ==
    /\ thread = [t \in Task |-> IF t = "I_Task" THEN "ready" ELSE "none"]
    /\ count = [s \in {"test_arm_sem", "test_recv_sem", Receiving, Sending, Matched} |-> 0]
    /\ events = {}
    /\ pc = [t \in Task |->
               CASE t \in {"T_RecvUp", "T_RecvDown"} -> "take"
                 [] t = "I_Task" -> "control"
                 [] OTHER -> "wait_start"]
    /\ control = 1
    /\ step = 0 /\ i = 0 /\ active = 0 /\ armed = {0} /\ received = 0
    /\ window = "closed" /\ markers = <<>>
    /\ samples = [d \in Dir |-> [s \in Series |-> [n \in Steps |-> 0]]]
    /\ kind \in {"mailbox_sync", "pipe_sync"}

\* Thread t runs from label l to label m.
Step(t, l, m) ==
    /\ Runs(t)
    /\ pc[t] = l
    /\ pc' = [pc EXCEPT ![t] = m]
    /\ UNCHANGED <<control, kind>>

-----------------------------------------------------------------------------
\* T_SendUp and T_SendDown

Send_WaitStart(d) ==
    /\ Step(Sender[d], "wait_start", "take")
    /\ EventWait(Sender[d], START[d])
    /\ UNCHANGED <<measured, loop>>

Send_Take(d) ==
    /\ Step(Sender[d], "take", "put")
    /\ SemTake(Sender[d], "test_arm_sem")
    /\ UNCHANGED <<measured, loop>>

Send_Put(d) ==
    /\ Step(Sender[d], "put", "stop")
    /\ markers' = Append(markers, "start")
    /\ Put(Sender[d])
    /\ UNCHANGED <<window, samples, step, i, active, received>>

Send_Stop(d) ==
    /\ Step(Sender[d], "stop", "put")
    /\ markers' = Append(markers, "rendezvous")
    /\ SemTake(Sender[d], "test_arm_sem")
    /\ UNCHANGED <<loop, window, samples>>

\* T_RecvUp and T_RecvDown

Recv_Take(d) ==
    /\ Step(Receiver[d], "take", "get")
    /\ SemTake(Receiver[d], "test_recv_sem")
    /\ UNCHANGED <<measured, loop>>

Recv_Get(d) ==
    /\ Step(Receiver[d], "get", IF kind = "mailbox_sync" THEN "dispose" ELSE "stop")
    /\ received' = active
    /\ Get(Receiver[d])
    /\ UNCHANGED <<measured, step, i, active>>

\* Mutant: the receiver takes its marker before the sender is ready again.
Recv_Dispose_Late(d) ==
    /\ Step(Receiver[d], "dispose", "get")
    /\ markers' = Append(markers, "direct")
    /\ thread' = [t \in Task |->
                    CASE thread[t] = Matched -> "ready"
                      [] t = Receiver[d] -> "test_recv_sem"
                      [] OTHER -> thread[t]]
    /\ UNCHANGED <<loop, window, samples, count, events>>

Recv_Dispose(d) ==
    /\ Step(Receiver[d], "dispose", "stop")
    /\ Dispose
    /\ UNCHANGED <<measured, loop>>

Recv_Stop(d) ==
    /\ Step(Receiver[d], "stop", "get")
    /\ markers' = Append(markers, "direct")
    /\ SemTake(Receiver[d], "test_recv_sem")
    /\ UNCHANGED <<loop, window, samples>>

\* T_ArmUp and T_ArmDown

Arm_WaitStart(d) ==
    /\ Step(Releaser[d], "wait_start", "give_recv")
    /\ EventWait(Releaser[d], START[d])
    /\ UNCHANGED <<measured, loop>>

\* The head of the loops; arm_descriptors() is called by mailbox_sync only.
Arm_GiveRecv(d) ==
    /\ Step(Releaser[d], "give_recv", "give_arm")
    /\ active' = IF i = 0 THEN step ELSE active
    /\ armed' = IF kind = "mailbox_sync" THEN {active'} ELSE armed
    /\ SemGive("test_recv_sem")
    /\ UNCHANGED <<measured, step, i, received>>

Arm_GiveArm(d) ==
    /\ Step(Releaser[d], "give_arm", "iterate")
    /\ window' = d /\ markers' = <<>>
    /\ SemGive("test_arm_sem")
    /\ UNCHANGED <<loop, samples>>

\* Mutant: the outer loop ends one size early.
Arm_Iterate_OneLess(d) ==
    /\ i' = (i + 1) % MEASUREMENT_COUNT
    /\ step' = IF i' # 0 THEN step ELSE (step + 1) % (MESSAGE_SIZE_STEPS - 1)
    /\ Step(Releaser[d], "iterate", IF i' = 0 /\ step' = 0 THEN "post_done" ELSE "give_recv")
    /\ samples' = [samples EXCEPT ![d]["send"][step] = @ + 1, ![d]["rendezvous"][step] = @ + 1]
    /\ window' = "closed"
    /\ NoCall
    /\ UNCHANGED <<markers, active, armed, received>>

\* BMTH_mseries_iterate() for both series, the close of both windows and the
\* end of the two loops.
Arm_Iterate(d) ==
    /\ i' = (i + 1) % MEASUREMENT_COUNT
    /\ step' = IF i' # 0 THEN step ELSE (step + 1) % MESSAGE_SIZE_STEPS
    /\ Step(Releaser[d], "iterate", IF i' = 0 /\ step' = 0 THEN "post_done" ELSE "give_recv")
    /\ samples' = [samples EXCEPT ![d]["send"][step] = @ + 1, ![d]["rendezvous"][step] = @ + 1]
    /\ window' = "closed"
    /\ NoCall
    /\ UNCHANGED <<markers, active, armed, received>>

Arm_PostDone(d) ==
    /\ Step(Releaser[d], "post_done", "suspend")
    /\ EventPost(DONE[d])
    /\ UNCHANGED <<measured, loop>>

Arm_Suspend(d) ==
    /\ Step(Releaser[d], "suspend", "suspend")
    /\ Suspend(Releaser[d])
    /\ UNCHANGED <<measured, loop>>

-----------------------------------------------------------------------------
\* I_Task makes the call that is next in Control.
I_Call(c) ==
    /\ Runs("I_Task") /\ control <= Len(Control)
    /\ Control[control].call = c
    /\ control' = control + 1
    /\ UNCHANGED <<pc, kind, measured, step, i, received>>

\* mailbox_sync arms its descriptors with the smallest size before the threads
\* of a direction are created.
Rearm(t) ==
    IF kind = "mailbox_sync" /\ t \in {Sender[d] : d \in Dir}
    THEN active' = 0 /\ armed' = {0}
    ELSE UNCHANGED <<active, armed>>

I_Create == I_Call("create") /\ Rearm(Control[control].on) /\ Create(Control[control].on)
I_Post == I_Call("post") /\ EventPost(Control[control].on) /\ UNCHANGED <<active, armed>>
I_Wait == I_Call("wait") /\ EventWait("I_Task", Control[control].on) /\ UNCHANGED <<active, armed>>
I_Abort == I_Call("abort") /\ Abort(Control[control].on) /\ UNCHANGED <<active, armed>>
I_Reset == I_Call("reset") /\ SemReset(Control[control].on) /\ UNCHANGED <<active, armed>>

\* BMTH_signalize_mseries_stop(), for ever.
I_Signalize ==
    /\ Runs("I_Task") /\ control > Len(Control)
    /\ UNCHANGED vars

Next ==
    \/ I_Create \/ I_Post \/ I_Wait \/ I_Abort \/ I_Reset \/ I_Signalize
    \/ \E d \in Dir :
          \/ Send_WaitStart(d) \/ Send_Take(d) \/ Send_Put(d) \/ Send_Stop(d)
          \/ Recv_Take(d) \/ Recv_Get(d) \/ Recv_Dispose(d) \/ Recv_Stop(d)
          \/ Arm_WaitStart(d) \/ Arm_GiveRecv(d) \/ Arm_GiveArm(d) \/ Arm_Iterate(d)
          \/ Arm_PostDone(d) \/ Arm_Suspend(d)

\* The CPU never idles while a thread is ready.
Spec == Init /\ [][Next]_vars /\ WF_vars(Next)

-----------------------------------------------------------------------------
\* "One pass of this loop is exactly one transaction": when the releaser feeds
\* the series, the three markers of this window are settled, in the order the
\* priorities impose, both threads pend on their gates, and no thread pends in
\* the object; when the sender sends, the receiver waits for it, with fresh
\* descriptors, at the size of the series that is measured.
OneTransaction ==
    \A d \in Dir :
        /\ Runs(Releaser[d]) /\ pc[Releaser[d]] = "iterate" =>
              /\ window = d
              /\ markers = IF d = "up" THEN <<"start", "direct", "rendezvous">>
                           ELSE <<"start", "rendezvous", "direct">>
              /\ thread[Sender[d]] = "test_arm_sem"
              /\ thread[Receiver[d]] = "test_recv_sem"
        /\ Runs(Sender[d]) /\ pc[Sender[d]] = "put" =>
              /\ window = d /\ markers = <<>>
              /\ Waiters(Receiving) = {Receiver[d]} /\ Waiters(Sending) = {}
              /\ active = step /\ received = step
              /\ kind = "mailbox_sync" => armed = {step}

\* A message has been handed over when both threads have taken their markers.
Delivered == IF window # "closed" /\ Len(markers) = 3 THEN {received} ELSE {}

\* Each of the two series is fed as Transaction has it: first all sizes up, then
\* all sizes down, one message of the right size in each window, until every
\* series has MEASUREMENT_COUNT iterations.
Of(s) == [d \in Dir |-> samples[d][s]]

Send == INSTANCE Transaction WITH
    Scenarios <- <<"up", "down">>, message <- Delivered, samples <- Of("send")

Rendezvous == INSTANCE Transaction WITH
    Scenarios <- <<"up", "down">>, message <- Delivered, samples <- Of("rendezvous")

Transacts == Send!Spec /\ Rendezvous!Spec

\* What mailbox_sync.c:196 says of the releaser: it "is only ever scheduled once
\* both of them are blocked - the sender in k_sem_take(), the receiver in
\* k_mbox_get()".  The receiver pends on its gate, and is in k_mbox_get() only
\* between the two gives of the loop.
ReceiverPends ==
    \A d \in Dir :
        kind = "mailbox_sync" /\ Runs(Releaser[d]) =>
            thread[Sender[d]] = "test_arm_sem" /\ thread[Receiver[d]] = Receiving
=============================================================================
