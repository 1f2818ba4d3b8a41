------------------------------- MODULE Kernel -------------------------------
(***************************************************************************)
(* The Zephyr kernel as the benchmark programs use it: one CPU, no time    *)
(* slicing, every thread preemptible, the highest-priority ready thread    *)
(* runs (a smaller number is a higher priority).  The kernel itself is not *)
(* part of the repository; its operations are modelled from the way the    *)
(* tests call them and from the probes that replay its inner steps         *)
(* (src/task_switching/*/zephyr_sim.c, src/zephyr_api_simulation).         *)
(*                                                                         *)
(* A program module declares the three variables, instantiates this module *)
(* and conjoins exactly one operation to each of its actions: an action is *)
(* the code a thread runs up to, and including, one kernel call, which is  *)
(* the only place where the CPU can pass to another thread.                *)
(***************************************************************************)
EXTENDS Naturals

CONSTANTS
    Task,             \* the threads of the program
    prio,             \* [Task -> Nat], smaller is more urgent
    Sem,              \* the semaphores
    Event,            \* the bits of the program's k_event object
    K_SEM_MAX_LIMIT   \* the limit the semaphores are initialised with

VARIABLES
    thread,           \* what each thread is doing; the name of a semaphore
                      \* or of an event bit when it pends on that object
    count,            \* [Sem -> Nat], the counts of the semaphores
    events            \* the event bits that are posted and not consumed

kvars == <<thread, count, events>>

ThreadState == {"none", "ready", "suspended", "dead"} \cup Sem \cup Event

KernelTypeOK ==
    /\ thread \in [Task -> ThreadState]
    /\ count \in [Sem -> Nat]
    /\ events \subseteq Event

-----------------------------------------------------------------------------
\* Scheduling

Ready(t) == thread[t] = "ready"

\* t holds the CPU: no ready thread is more urgent.  Threads that are ready
\* at the same time have different priorities in the programs that use this
\* module.
Runs(t) == Ready(t) /\ \A u \in Task : Ready(u) => prio[t] <= prio[u]

\* The threads that pend on a semaphore or on an event bit.
Waiters(c) == {t \in Task : thread[t] = c}

\* The head of a wait queue, which the kernel keeps in priority order.
IsHead(t, c) == t \in Waiters(c) /\ \A u \in Waiters(c) : prio[t] <= prio[u]

-----------------------------------------------------------------------------
\* Threads

\* k_thread_create() with K_NO_WAIT: ready at once.
Create(t) ==
    /\ thread[t] = "none"
    /\ thread' = [thread EXCEPT ![t] = "ready"]
    /\ UNCHANGED <<count, events>>

\* k_thread_abort(): the thread also leaves the wait queue it is in.
Abort(t) ==
    /\ thread' = [thread EXCEPT ![t] = "dead"]
    /\ UNCHANGED <<count, events>>

\* k_thread_suspend(); no program suspends a thread that pends.
Suspend(t) ==
    /\ thread[t] \in {"ready", "suspended"}
    /\ thread' = [thread EXCEPT ![t] = "suspended"]
    /\ UNCHANGED <<count, events>>

\* k_thread_resume(): without effect on a thread that is not suspended, so a
\* resume that comes before the suspend it answers is lost.
Resume(t) ==
    /\ thread' = [thread EXCEPT ![t] = IF @ = "suspended" THEN "ready" ELSE @]
    /\ UNCHANGED <<count, events>>

-----------------------------------------------------------------------------
\* Semaphores

\* k_sem_take() with K_FOREVER.  A thread that pends returns from the call
\* with the semaphore already handed to it.
SemTake(t, s) ==
    /\ \/ /\ count[s] > 0
          /\ count' = [count EXCEPT ![s] = @ - 1]
          /\ UNCHANGED thread
       \/ /\ count[s] = 0
          /\ thread' = [thread EXCEPT ![t] = s]
          /\ UNCHANGED count
    /\ UNCHANGED events

\* k_sem_take() with K_NO_WAIT: the caller goes on either way.
SemTry(s) ==
    /\ count' = [count EXCEPT ![s] = IF @ > 0 THEN @ - 1 ELSE 0]
    /\ UNCHANGED <<thread, events>>

\* k_sem_give(): to the head of the wait queue, or to the count.
SemGive(s) ==
    /\ \/ \E t \in Task :
             /\ IsHead(t, s)
             /\ thread' = [thread EXCEPT ![t] = "ready"]
             /\ UNCHANGED count
       \/ /\ Waiters(s) = {}
          /\ count' = [count EXCEPT ![s] = IF @ = K_SEM_MAX_LIMIT THEN @ ELSE @ + 1]
          /\ UNCHANGED thread
    /\ UNCHANGED events

\* k_sem_reset(): every waiter returns (with -EAGAIN) and the count is zero.
SemReset(s) ==
    /\ thread' = [t \in Task |-> IF thread[t] = s THEN "ready" ELSE thread[t]]
    /\ count' = [count EXCEPT ![s] = 0]
    /\ UNCHANGED events

-----------------------------------------------------------------------------
\* Events: every wait of the programs is for a single bit

\* k_event_wait_safe() with K_FOREVER: consumes the bit it waited for.
EventWait(t, e) ==
    /\ \/ /\ e \in events
          /\ events' = events \ {e}
          /\ UNCHANGED thread
       \/ /\ e \notin events
          /\ thread' = [thread EXCEPT ![t] = e]
          /\ UNCHANGED events
    /\ UNCHANGED count

\* k_event_wait_safe() with K_NO_WAIT, and k_event_clear(): neither pends.
EventTry(e) == events' = events \ {e} /\ UNCHANGED <<thread, count>>
EventClear(e) == events' = events \ {e} /\ UNCHANGED <<thread, count>>

\* k_event_post(): wakes every waiter of the bit, which consume it; the bit
\* stays set only when nobody waited.  Posting a bit that is set merges.
EventPost(e) ==
    /\ \/ /\ Waiters(e) # {}
          /\ thread' = [t \in Task |-> IF thread[t] = e THEN "ready" ELSE thread[t]]
          /\ events' = events \ {e}
       \/ /\ Waiters(e) = {}
          /\ events' = events \cup {e}
          /\ UNCHANGED thread
    /\ UNCHANGED count

\* Code without a kernel call.
NoCall == UNCHANGED kvars
=============================================================================
