---------------------------------- MODULE Sim ----------------------------------
(***************************************************************************)
(* src/zephyr_api_simulation and src/task_switching/*/zephyr_sim.c         *)
(*                                                                         *)
(* Before main() creates I_Task it measures what the instrumentation costs *)
(* by probes that replay one half of a kernel path without a switch.  The  *)
(* start or the stop marker of a probe is captured inside the replay, on   *)
(* one arm of a branch, and all probes share the two markers, a simulated  *)
(* kernel, a semaphore and an event: a probe that runs into another arm    *)
(* feeds its series with the marker of an earlier window.                  *)
(*                                                                         *)
(* main() makes three calls to the probes its sim_measure.h exports.  The  *)
(* model makes any three of them, in any order.  A step is the entry of a  *)
(* probe, the replay of one window or BMTH_mseries_iterate().              *)
(***************************************************************************)
EXTENDS Naturals

CONSTANTS
    loop_count,             \* windows of each series
    K_SEM_MAX_LIMIT         \* the limit of tail_sem

ASSUME LoopAssumption ==
    /\ loop_count \in Nat \ {0}
    /\ K_SEM_MAX_LIMIT \in Nat \ {0}

VARIABLES
    build,                  \* which test this is
    plan,                   \* the calls that main() makes
    n, i, stage,            \* the call, the window, and what comes next
    masked,                 \* BASEPRI masks the interrupts
    swap_return_value,      \* of _sim_current_thread
    cache,                  \* what _sim_kernel.ready_q.cache points to
    tail_sem,               \* its count, whether a waiter is queued, and
                            \* the timeout sim_take_ticks of the take
    tail_event,             \* the bits of tail_event
    start, stop, rv,        \* the markers and the value of the last replay
    read_window             \* the read overhead the series subtracts

static == <<cache, tail_sem, tail_event>>
simvars == <<build, plan, n, i, stage, masked, swap_return_value, static, start, stop, rv, read_window>>

-----------------------------------------------------------------------------
\* The calls each test exports; "has_waiter" and the two halves of an arm are
\* arguments of one function.
Exported ==
    [sem_preempt |-> {"give_has_waiter", "give_no_waiter", "take_tail",
                      "z_swap_prologue", "z_swap_tail"},
     event_preempt |-> {"event_tail", "wait_tail", "wait_prologue",
                        "z_swap_prologue", "z_swap_tail"},
     sem_block |-> {"give_tail", "take_no_wait", "z_swap_prologue", "z_swap_tail"},
     event_block |-> {"post_tail", "wait_no_wait", "wait_tail", "wait_prologue",
                      "z_swap_prologue", "z_swap_tail"},
     task_preempt |-> {"resume_tail", "suspend_tail", "z_swap_prologue"}]

\* What main() calls; the first call of sem_preempt is TEST_SB_HAS_WAITER.
IsMain(b, p) ==
    CASE b = "sem_preempt" ->
           /\ p[1] \in {"give_has_waiter", "give_no_waiter"}
           /\ p[2] = "take_tail" /\ p[3] = "z_swap_prologue"
      [] b = "event_preempt" -> p = <<"event_tail", "wait_tail", "z_swap_prologue">>
      [] b = "sem_block" -> p = <<"z_swap_prologue", "give_tail", "take_no_wait">>
      [] b = "event_block" -> p = <<"z_swap_prologue", "post_tail", "wait_no_wait">>
      [] b = "task_preempt" -> p = <<"resume_tail", "suspend_tail", "z_swap_prologue">>

\* Static memory: everything is zero, and no replay has run.
SimInit ==
    /\ build \in DOMAIN Exported
    /\ plan \in [1..3 -> Exported[build]]
    /\ n = 1 /\ i = 0 /\ stage = "enter"
    /\ masked = FALSE
    /\ swap_return_value = "0"
    /\ cache = "NULL"
    /\ tail_sem = [count |-> 0, waiter |-> FALSE, ticks |-> "K_NO_WAIT"]
    /\ tail_event = {}
    /\ start = [window |-> <<0, 0>>, at |-> "none"]
    /\ stop = [window |-> <<0, 0>>, at |-> "none"]
    /\ rv = "none"
    /\ read_window = "none"

call == plan[n]
Calls(c) == n <= 3 /\ call = c

-----------------------------------------------------------------------------
\* The entry of a probe: sim_kernel_init(), the objects it needs, and
\* BMTH_mseries_initialize().

\* Mutant: the kind of read is picked per function, not per arm.
ReadWindow_PerFunction(b, c) ==
    IF c \in {"z_swap_prologue", "z_swap_tail"} \/ (c = "wait_prologue" /\ b = "event_preempt")
    THEN "CROSS_FUNCTIONS" ELSE "INSIDE_FUNCTION"

ReadWindow(b, c) ==
    IF \/ c = "z_swap_prologue"
       \/ c = "z_swap_tail" /\ b # "event_preempt"
       \/ c = "wait_prologue" /\ b = "event_preempt"
    THEN "CROSS_FUNCTIONS" ELSE "INSIDE_FUNCTION"

\* Mutant: the static thread object keeps the -EAGAIN of an earlier replay.
sim_kernel_init_Kept == UNCHANGED swap_return_value

sim_kernel_init == swap_return_value' = "0"

\* k_sem_init() empties the wait queue too.
InitSem(waiter, ticks) ==
    tail_sem' = [count |-> 0, waiter |-> waiter, ticks |-> ticks]

Enter ==
    /\ stage = "enter" /\ n <= 3
    /\ sim_kernel_init
    /\ CASE call \in {"give_has_waiter", "give_no_waiter"} ->
              /\ cache' = "current"
              /\ InitSem(call = "give_has_waiter", tail_sem.ticks)
         [] call = "take_tail" -> InitSem(FALSE, "K_FOREVER") /\ UNCHANGED cache
         [] call = "take_no_wait" -> InitSem(FALSE, tail_sem.ticks) /\ UNCHANGED cache
         [] OTHER -> UNCHANGED <<tail_sem, cache>>
    /\ read_window' = ReadWindow(build, call)
    /\ stage' = "window" /\ i' = 0
    /\ UNCHANGED <<build, plan, n, masked, tail_event, start, stop, rv>>

-----------------------------------------------------------------------------
\* What the replays of zephyr_api_simulation share

Here(place) == [window |-> <<n, i>>, at |-> place]

\* The stop marker, in the probe (where it overwrites an earlier one) or in
\* sim_arch_swap_prologue(), where PendSV would be pended.
StopInProbe == stop' = Here("probe")
StopInSwap == stop' = Here("swap")

\* Mutant: BASEPRI is not cleared.
sim_arch_swap_prologue_NoUnmask ==
    /\ swap_return_value' = "-EAGAIN"
    /\ UNCHANGED masked

sim_arch_swap_prologue ==
    /\ swap_return_value' = "-EAGAIN"
    /\ masked' = FALSE

\* sim_arch_swap_tail(): the start marker, where PendSV would have returned.
\* Nothing on this path unmasks: the key is only stored.
sim_arch_swap_tail(m) ==
    /\ start' = Here("swap")
    /\ masked' = m
    /\ UNCHANGED swap_return_value

\* The arm without a switch: the start marker, then irq_unlock(key).
StartAndUnlock(key) ==
    /\ start' = Here("unlock")
    /\ masked' = key
    /\ UNCHANGED swap_return_value

\* An arm that only unlocks, with no marker.
Unlock(key) ==
    /\ masked' = key
    /\ UNCHANGED <<start, swap_return_value>>

\* sim_z_pend_curr_prologue() returns through the swap.
sim_z_pend_curr_prologue == sim_arch_swap_prologue

\* The window of call c.
Window(c) ==
    /\ stage = "window" /\ Calls(c)
    /\ stage' = "iterate"
    /\ UNCHANGED <<build, plan, n, i, read_window, cache>>

\* sim_guard never holds the bit that the waits ask for.
guard == {"0x20"}
sim_wait_request == {"0x1"}

-----------------------------------------------------------------------------
\* One action per replay

\* The swap on its own; task_preempt has the prologue only.
SwapPrologue ==
    /\ Window("z_swap_prologue")
    /\ start' = Here("probe")
    /\ sim_arch_swap_prologue /\ StopInSwap
    /\ rv' = swap_return_value'
    /\ UNCHANGED <<tail_sem, tail_event>>

SwapTail ==
    /\ Window("z_swap_tail")
    /\ sim_arch_swap_tail(masked)
    /\ rv' = swap_return_value
    /\ StopInProbe
    /\ UNCHANGED <<tail_sem, tail_event>>

\* sim_z_impl_k_sem_take_swap_tail() of sem_preempt.
TakeTail ==
    /\ Window("take_tail")
    /\ \/ /\ tail_sem.count > 0
          /\ tail_sem' = [tail_sem EXCEPT !.count = @ - 1]
          /\ Unlock(masked) /\ rv' = "0"
       \/ /\ tail_sem.count = 0 /\ tail_sem.ticks = "K_NO_WAIT"
          /\ UNCHANGED tail_sem
          /\ Unlock(masked) /\ rv' = "-EBUSY"
       \/ /\ tail_sem.count = 0 /\ tail_sem.ticks = "K_FOREVER"
          /\ UNCHANGED tail_sem
          /\ sim_arch_swap_tail(TRUE) /\ rv' = swap_return_value
    /\ StopInProbe
    /\ UNCHANGED tail_event

\* sim_z_impl_k_sem_give_tail() of sem_preempt.  A waiter stays queued.
GiveNoSwap ==
    /\ \E c \in {"give_has_waiter", "give_no_waiter"} : Window(c)
    /\ \/ /\ tail_sem.waiter /\ ~masked /\ cache # "current"
          /\ UNCHANGED tail_sem
          /\ sim_arch_swap_tail(TRUE)
       \/ /\ tail_sem.waiter /\ (masked \/ cache = "current")
          /\ UNCHANGED tail_sem
          /\ StartAndUnlock(masked)
       \/ /\ ~tail_sem.waiter
          /\ tail_sem' = [tail_sem EXCEPT !.count = IF @ = K_SEM_MAX_LIMIT THEN @ ELSE @ + 1]
          /\ StartAndUnlock(masked)
    /\ rv' = "none"
    /\ StopInProbe
    /\ UNCHANGED tail_event

\* sim_z_impl_k_sem_take_tail() of sem_block.
TakeNoWait ==
    /\ Window("take_no_wait")
    /\ \/ /\ tail_sem.count > 0
          /\ tail_sem' = [tail_sem EXCEPT !.count = @ - 1]
          /\ Unlock(masked) /\ rv' = "0"
       \/ /\ tail_sem.count = 0 /\ tail_sem.ticks = "K_NO_WAIT"
          /\ UNCHANGED tail_sem
          /\ StartAndUnlock(masked) /\ rv' = "-EBUSY"
       \/ /\ tail_sem.count = 0 /\ tail_sem.ticks = "K_FOREVER"
          /\ UNCHANGED <<tail_sem, start>>
          /\ sim_z_pend_curr_prologue /\ rv' = swap_return_value'
    /\ StopInProbe
    /\ UNCHANGED tail_event

\* sim_reschedule_swap_tail() of sem_block and event_block, with the key 0 of a
\* volatile that nothing writes.
RescheduleSwapTail ==
    \/ cache # "current" /\ sim_arch_swap_tail(masked)
    \/ cache = "current" /\ Unlock(FALSE)

GiveSwap ==
    /\ Window("give_tail")
    /\ RescheduleSwapTail
    /\ rv' = "none"
    /\ StopInProbe
    /\ UNCHANGED <<tail_sem, tail_event>>

PostSwap ==
    /\ Window("post_tail")
    /\ tail_event' = guard
    /\ RescheduleSwapTail
    /\ rv' = "events"
    /\ StopInProbe
    /\ UNCHANGED tail_sem

\* sim_z_impl_k_event_post() of event_preempt, which does not switch.
EventTail ==
    /\ Window("event_tail")
    /\ tail_event' = guard
    /\ StartAndUnlock(FALSE)
    /\ rv' = "events"
    /\ StopInProbe
    /\ UNCHANGED tail_sem

\* sim_k_event_wait_internal_tail(): it takes sim_guard for the event's bits
\* and takes no lock.
WaitTail(c, timeout) ==
    /\ Window(c)
    /\ \/ /\ guard \cap sim_wait_request # {}
          /\ UNCHANGED <<start, masked, swap_return_value>> /\ rv' = "events"
       \/ /\ guard \cap sim_wait_request = {} /\ timeout = "K_NO_WAIT"
          /\ StartAndUnlock(FALSE) /\ rv' = "no_events"
       \/ /\ guard \cap sim_wait_request = {} /\ timeout = "K_FOREVER"
          /\ sim_arch_swap_tail(masked)
          /\ rv' = IF swap_return_value = "0" THEN "events" ELSE "no_events"
    /\ StopInProbe
    /\ UNCHANGED <<tail_sem, tail_event>>

WaitTailForever == WaitTail("wait_tail", "K_FOREVER")
WaitTailNoWait == WaitTail("wait_no_wait", "K_NO_WAIT")

\* sim_k_event_wait_internal() with K_FOREVER: locked by irq_lock(), and left
\* that way when the bit is there.
WaitPrologue ==
    /\ Window("wait_prologue")
    /\ \/ /\ tail_event \cap sim_wait_request # {}
          /\ masked' = TRUE
          /\ rv' = "events"
          /\ UNCHANGED <<start, stop, swap_return_value>>
       \/ /\ tail_event \cap sim_wait_request = {}
          /\ start' = Here("checked")
          /\ sim_z_pend_curr_prologue /\ StopInSwap
          /\ rv' = IF swap_return_value' = "0" THEN "events" ELSE "no_events"
    /\ UNCHANGED <<tail_sem, tail_event>>

\* task_preempt: k_thread_resume() without and k_thread_suspend() with a switch.
ResumeTail ==
    /\ Window("resume_tail")
    /\ StartAndUnlock(FALSE)
    /\ rv' = "none"
    /\ StopInProbe
    /\ UNCHANGED <<tail_sem, tail_event>>

SuspendTail ==
    /\ Window("suspend_tail")
    /\ sim_arch_swap_tail(masked)
    /\ rv' = "none"
    /\ StopInProbe
    /\ UNCHANGED <<tail_sem, tail_event>>

-----------------------------------------------------------------------------
\* BMTH_mseries_iterate() with the two markers, and the loop of the probe.
Iterate ==
    /\ stage = "iterate"
    /\ IF i + 1 < loop_count
       THEN stage' = "window" /\ i' = i + 1 /\ UNCHANGED n
       ELSE stage' = "enter" /\ i' = 0 /\ n' = n + 1
    /\ UNCHANGED <<build, plan, masked, swap_return_value, static, start, stop, rv, read_window>>

\* main() returns.
CreateITask ==
    /\ stage = "enter" /\ n > 3
    /\ stage' = "created"
    /\ UNCHANGED <<build, plan, n, i, masked, swap_return_value, static, start, stop, rv, read_window>>

Replay ==
    \/ SwapPrologue \/ SwapTail \/ TakeTail \/ GiveNoSwap \/ TakeNoWait
    \/ GiveSwap \/ PostSwap \/ EventTail \/ WaitTailForever \/ WaitTailNoWait
    \/ WaitPrologue \/ ResumeTail \/ SuspendTail

SimNext == Enter \/ Replay \/ Iterate \/ CreateITask

SimSpec == SimInit /\ [][SimNext]_simvars

-----------------------------------------------------------------------------
\* The arm that each probe is there to measure: the place of its start marker,
\* of its stop marker, and what the replayed call returns on that arm, in the
\* words of sim_measure.h and of the comments in zephyr_sim.c ("from the PendSV
\* return in z_swap_irqlock()", "from the irq_unlock()", "a take on an empty
\* semaphore").  The prologue of the wait, which no main() measures, starts
\* behind its checks and not, as the header has it, at the call entry.
Arm ==
    [z_swap_prologue |-> <<"probe", "swap", "-EAGAIN">>,
     z_swap_tail |-> <<"swap", "probe", "0">>,
     take_tail |-> <<"swap", "probe", "0">>,
     give_has_waiter |-> <<"unlock", "probe", "none">>,
     give_no_waiter |-> <<"unlock", "probe", "none">>,
     take_no_wait |-> <<"unlock", "probe", "-EBUSY">>,
     give_tail |-> <<"swap", "probe", "none">>,
     post_tail |-> <<"swap", "probe", "events">>,
     event_tail |-> <<"unlock", "probe", "events">>,
     wait_tail |-> <<"swap", "probe", "events">>,
     wait_no_wait |-> <<"unlock", "probe", "no_events">>,
     wait_prologue |-> <<"checked", "swap", "no_events">>,
     resume_tail |-> <<"unlock", "probe", "none">>,
     suspend_tail |-> <<"swap", "probe", "none">>]

\* Every series is fed with two markers of its own window, taken at the two
\* ends of the arm the probe is about, whatever probes ran before: the count,
\* the queued waiter, the ready queue cache and the return value that an earlier
\* probe has left are never those that decide the branch.
ReplaysItsArm ==
    stage = "iterate" =>
        /\ start = Here(Arm[call][1])
        /\ stop = Here(Arm[call][2])
        /\ rv = Arm[call][3]

\* "The read overhead a window carries depends on where its stop capture sits,
\* so it has to be picked per arm, not per function" (event_preempt): the series
\* subtracts the cross-function read if and only if its stop marker is taken
\* inside the replay.  In the other tests it holds of the calls that main() makes.
ReadOverhead ==
    stage = "iterate" /\ (build = "event_preempt" \/ IsMain(build, plan)) =>
        (read_window = "CROSS_FUNCTIONS" <=> stop.at = "swap")

\* The replay of a blocking take leaves the interrupts masked, for all further
\* probes up to the next swap prologue; no other probe does.  So they are on
\* again when main() creates I_Task.
UnmaskedAtTheEnd ==
    /\ masked => \E k \in 1..3 : /\ k <= n /\ plan[k] = "take_tail"
                                /\ \A m \in (k + 1)..(n - 1) : plan[m] # "z_swap_prologue"
    /\ n > 3 /\ IsMain(build, plan) => ~masked
=============================================================================
