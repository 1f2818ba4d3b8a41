-------------------------------- MODULE Irt --------------------------------
(***************************************************************************)
(* src/irt/time_interrupt_response.c                                       *)
(*                                                                         *)
(* Scenario A measures the response to an interrupt that the running       *)
(* thread raises itself: up to the ISR (release "none"), or up to A_Task_SA*)
(* which the ISR releases.  Scenario B is the same code with the interrupt *)
(* disabled.  The two ways to dispatch the ISR do not differ here.         *)
(*                                                                         *)
(* The interrupt is taken before the thread that raised it goes on.  The   *)
(* two threads of scenario A both end the window; whether                  *)
(* BMTH_mseries_iterate() counts a call outside a window is not known from *)
(* the repository, so both are checked.                                    *)
(***************************************************************************)
EXTENDS Naturals

CONSTANT MEASUREMENT_COUNT  \* iterations of each scenario

VARIABLES
    thread, count, events,  \* the kernel's state, see module Kernel
    pc, window, samples,    \* see module TestProgram
    enabled, pending,       \* the state of TEST_IRQ_LINE
    stopped,                \* test_stop_time is later than test_start_time
    release,                \* SA_RELEASE
    gated                   \* a call outside a window is not counted

Task == {"I_Task", "L_Task_SA", "A_Task_SA", "Task_SB"}
prio == [I_Task |-> 15, L_Task_SA |-> 3, A_Task_SA |-> 2, Task_SB |-> 3]

START == "START_EVENT"
DONE == "SIGNALIZE_DONE_EVENT"
A == "SCENARIO_A_EVENT"     \* of test_release_event
Releases == {"resume", "sem", "event", "none"}

build == <<release, gated>>

INSTANCE TestProgram WITH
    i <- 0, Sem <- {"test_sem"}, K_SEM_MAX_LIMIT <- 1, Event <- {START, DONE, A}

vars == <<thread, count, events, pc, window, samples, enabled, pending, stopped, release, gated>>

irq == <<enabled, pending>>

ASSUME CountAssumption == MEASUREMENT_COUNT \in Nat \ {0}

-----------------------------------------------------------------------------
\* main() has connected the ISR, created I_Task and returned.
Init ==
    /\ thread = [t \in Task |-> IF t = "I_Task" THEN "ready" ELSE "none"]
    /\ count = [s \in {"test_sem"} |-> 0]
    /\ events = {}
    /\ pc = [t \in Task |->
               CASE t = "I_Task" -> "irq_enable"
                 [] t = "A_Task_SA" -> "wait"
                 [] OTHER -> "wait_start"]
    /\ window = "closed"
    /\ samples = [s \in {"scenario_a", "scenario_b"} |-> 0]
    /\ enabled = FALSE /\ pending = FALSE
    /\ stopped = FALSE
    /\ release \in Releases
    /\ gated \in BOOLEAN

\* BMTH_mseries_iterate() and BMTH_mwindow_close().
Iterate(s) ==
    /\ samples' = IF gated /\ window # s THEN samples ELSE [samples EXCEPT ![s] = @ + 1]
    /\ window' = "closed"

-----------------------------------------------------------------------------
\* The interrupt

Taken == enabled /\ pending

test_isr ==
    /\ Taken
    /\ pending' = FALSE
    /\ \/ release = "resume" /\ Resume("A_Task_SA") /\ UNCHANGED stopped
       \/ release = "sem" /\ SemGive("test_sem") /\ UNCHANGED stopped
       \/ release = "event" /\ EventPost(A) /\ UNCHANGED stopped
       \/ release = "none" /\ NoCall /\ stopped' = TRUE
    /\ UNCHANGED <<pc, window, samples, enabled, build>>

-----------------------------------------------------------------------------
\* A_Task_SA, which does not exist with release "none".

A_Wait ==
    /\ Step("A_Task_SA", "wait", "stop")
    /\ \/ release = "resume" /\ Suspend("A_Task_SA")
       \/ release = "sem" /\ SemTake("A_Task_SA", "test_sem")
       \/ release = "event" /\ EventWait("A_Task_SA", A)
    /\ UNCHANGED <<window, samples, irq, stopped>>

A_Stop ==
    /\ Step("A_Task_SA", "stop", "wait")
    /\ stopped' = TRUE
    /\ Iterate("scenario_a")
    /\ NoCall /\ UNCHANGED irq

\* L_Task_SA

L_WaitStart ==
    /\ Step("L_Task_SA", "wait_start", "trigger")
    /\ EventWait("L_Task_SA", START)
    /\ UNCHANGED <<window, samples, irq, stopped>>

L_Trigger ==
    /\ Step("L_Task_SA", "trigger", "iterate")
    /\ OpenWindow("scenario_a")
    /\ stopped' = FALSE
    /\ pending' = TRUE
    /\ NoCall /\ UNCHANGED enabled

\* Mutant: the end is an equality, which a count by two steps over, until
\* the counter wraps.
L_Iterate_Equal ==
    /\ samples' = [samples EXCEPT !["scenario_a"] =
                      (IF gated /\ window = "closed" THEN @ ELSE @ + 1) % (MEASUREMENT_COUNT + 3)]
    /\ window' = "closed"
    /\ Step("L_Task_SA", "iterate",
            IF samples'["scenario_a"] = MEASUREMENT_COUNT THEN "post_done" ELSE "trigger")
    /\ NoCall /\ UNCHANGED <<irq, stopped>>

\* Mutant: > in the place of >=.
L_Iterate_OneMore ==
    /\ Iterate("scenario_a")
    /\ Step("L_Task_SA", "iterate",
            IF samples'["scenario_a"] > MEASUREMENT_COUNT THEN "post_done" ELSE "trigger")
    /\ NoCall /\ UNCHANGED <<irq, stopped>>

L_Iterate ==
    /\ Iterate("scenario_a")
    /\ Step("L_Task_SA", "iterate",
            IF samples'["scenario_a"] >= MEASUREMENT_COUNT THEN "post_done" ELSE "trigger")
    /\ NoCall /\ UNCHANGED <<irq, stopped>>

\* Task_SB

SB_WaitStart ==
    /\ Step("Task_SB", "wait_start", "trigger")
    /\ EventWait("Task_SB", START)
    /\ UNCHANGED <<window, samples, irq, stopped>>

\* The stop marker follows the trigger: nothing is between them.
SB_Trigger ==
    /\ Step("Task_SB", "trigger", "iterate")
    /\ OpenWindow("scenario_b")
    /\ pending' = TRUE
    /\ stopped' = TRUE
    /\ NoCall /\ UNCHANGED enabled

SB_Iterate ==
    /\ Iterate("scenario_b")
    /\ Step("Task_SB", "iterate",
            IF samples'["scenario_b"] >= MEASUREMENT_COUNT THEN "post_done" ELSE "trigger")
    /\ pending' = FALSE
    /\ NoCall /\ UNCHANGED <<enabled, stopped>>

\* The end of L_Task_SA and of Task_SB, whose loops would go on if resumed.
PostDone(t) ==
    /\ Step(t, "post_done", "suspend")
    /\ EventPost(DONE)
    /\ UNCHANGED <<window, samples, irq, stopped>>

SuspendSelf(t) ==
    /\ Step(t, "suspend", "trigger")
    /\ Suspend(t)
    /\ UNCHANGED <<window, samples, irq, stopped>>

-----------------------------------------------------------------------------
\* I_Task

Control == UNCHANGED <<irq, stopped>>

\* Mutant: the line stays disabled.
I_IrqEnable_Skipped ==
    /\ Step("I_Task", "irq_enable", IF release = "none" THEN "create_l" ELSE "create_a")
    /\ NoCall
    /\ UNCHANGED <<window, samples, enabled, pending, stopped>>

I_IrqEnable ==
    /\ Step("I_Task", "irq_enable", IF release = "none" THEN "create_l" ELSE "create_a")
    /\ enabled' = TRUE
    /\ NoCall
    /\ UNCHANGED <<window, samples, pending, stopped>>

I_CreateA == I_Create("create_a", "A_Task_SA", "create_l") /\ Control
I_CreateL == I_Create("create_l", "L_Task_SA", "post_start_sa") /\ Control

I_PostStart(l, m) ==
    /\ Step("I_Task", l, m)
    /\ EventPost(START)
    /\ NoSample /\ Control

I_WaitDone(l, m) ==
    /\ Step("I_Task", l, m)
    /\ EventWait("I_Task", DONE)
    /\ NoSample /\ Control

I_AbortL ==
    /\ I_Abort("abort_l", "L_Task_SA", IF release = "none" THEN "irq_disable" ELSE "abort_a")
    /\ Control

I_AbortA == I_Abort("abort_a", "A_Task_SA", "irq_disable") /\ Control

\* Mutant: only the pending state is cleared.
I_IrqDisable_ClearOnly ==
    /\ Step("I_Task", "irq_disable", "create_sb")
    /\ pending' = FALSE
    /\ NoCall
    /\ UNCHANGED <<window, samples, enabled, stopped>>

I_IrqDisable ==
    /\ Step("I_Task", "irq_disable", "create_sb")
    /\ enabled' = FALSE /\ pending' = FALSE
    /\ NoCall
    /\ UNCHANGED <<window, samples, stopped>>

I_CreateSB == I_Create("create_sb", "Task_SB", "post_start_sb") /\ Control
I_AbortSB == I_Abort("abort_sb", "Task_SB", "signalize") /\ Control

ThreadStep ==
    \/ A_Wait \/ A_Stop
    \/ L_WaitStart \/ L_Trigger \/ L_Iterate
    \/ SB_WaitStart \/ SB_Trigger \/ SB_Iterate
    \/ \E t \in {"L_Task_SA", "Task_SB"} : PostDone(t) \/ SuspendSelf(t)

ControlStep ==
    \/ I_IrqEnable \/ I_CreateA \/ I_CreateL \/ I_AbortL \/ I_AbortA \/ I_IrqDisable
    \/ I_CreateSB \/ I_AbortSB
    \/ I_PostStart("post_start_sa", "wait_sa") \/ I_PostStart("post_start_sb", "wait_sb")
    \/ I_WaitDone("wait_sa", "abort_l") \/ I_WaitDone("wait_sb", "abort_sb")
    \/ I_Signalize /\ Control

Next == test_isr \/ (~Taken /\ (ThreadStep \/ ControlStep))

\* The CPU never idles while a thread is ready or an interrupt can be taken.
Spec == Init /\ [][Next]_vars /\ WF_vars(Next)

-----------------------------------------------------------------------------
Labels == {"irq_enable", "create_a", "create_l", "post_start_sa", "wait_sa", "abort_l",
           "abort_a", "irq_disable", "create_sb", "post_start_sb", "wait_sb", "abort_sb",
           "signalize", "wait", "wait_start", "trigger", "iterate", "stop", "post_done",
           "suspend"}

\* Every variable has its type.  Scenario A counts an iteration too many where
\* two threads count each window and MEASUREMENT_COUNT is odd, and only there.
TypeOK ==
    /\ KernelTypeOK
    /\ pc \in [Task -> Labels]
    /\ window \in {"scenario_a", "scenario_b", "closed"}
    /\ samples["scenario_a"] \in
          0..(MEASUREMENT_COUNT
              + IF gated \/ release = "none" THEN 0 ELSE MEASUREMENT_COUNT % 2)
    /\ samples["scenario_b"] \in 0..MEASUREMENT_COUNT
    /\ enabled \in BOOLEAN /\ pending \in BOOLEAN /\ stopped \in BOOLEAN
    /\ release \in Releases /\ gated \in BOOLEAN

\* L_Task_SA feeds the series with the markers of this window, although the
\* stop marker is taken by the ISR or by A_Task_SA; and the window it finds
\* is the one it has opened, unless A_Task_SA has closed it.
FreshMarkers ==
    Runs("L_Task_SA") /\ pc["L_Task_SA"] = "iterate" /\ ~Taken =>
        /\ stopped
        /\ window = IF release = "none" THEN "scenario_a" ELSE "closed"

\* Every interrupt finds L_Task_SA in its open window and A_Task_SA in the
\* wait that it ends, so that no release is lost, none is stored and none
\* reaches a thread that is dead.
NoLostRelease ==
    Taken =>
        /\ window = "scenario_a" /\ pc["L_Task_SA"] = "iterate"
        /\ release = "resume" => thread["A_Task_SA"] = "suspended"
        /\ release = "sem" => thread["A_Task_SA"] = "test_sem"
        /\ release = "event" => thread["A_Task_SA"] = A

\* Both scenarios end, whichever threads count.
Finishes ==
    <>[](/\ pc["I_Task"] = "signalize"
         /\ samples["scenario_a"] >= MEASUREMENT_COUNT
         /\ samples["scenario_b"] = MEASUREMENT_COUNT)
=============================================================================
