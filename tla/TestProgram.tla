---------------------------- MODULE TestProgram ----------------------------
(***************************************************************************)
(* What the test programs share: threads that continue from label to       *)
(* label, one kernel call at a time, measurement windows around the code   *)
(* between the start and the stop marker, and a control thread I_Task that *)
(* creates, paces and aborts the others.                                   *)
(***************************************************************************)
EXTENDS Kernel

VARIABLES
    pc,                \* where each thread continues when it runs next
    i,                 \* the counter of I_Task's current loop, or 0
    window, samples,   \* see module Measurement
    build              \* the options of this build, which no step changes

\* Thread t runs from label l to label m.
Step(t, l, m) ==
    /\ Runs(t)
    /\ pc[t] = l
    /\ pc' = [pc EXCEPT ![t] = m]
    /\ UNCHANGED build

\* BMTH_mwindow_open() and the start marker.
OpenWindow(s) == window' = s /\ UNCHANGED samples

\* The stop marker, BMTH_mseries_iterate() and BMTH_mwindow_close().
RecordSample(s) ==
    /\ samples' = [samples EXCEPT ![s] = @ + 1]
    /\ window' = "closed"

NoSample == UNCHANGED <<window, samples>>

\* Neither a marker nor a loop counter.
Quiet == NoSample /\ UNCHANGED i

-----------------------------------------------------------------------------
\* I_Task.  The loops over dummy_count create and abort one thread a step;
\* the models take them in any order.

I_Create(l, t, m) ==
    /\ Step("I_Task", l, m)
    /\ Create(t)
    /\ Quiet

I_Abort(l, t, m) ==
    /\ Step("I_Task", l, m)
    /\ Abort(t)
    /\ Quiet

\* The end of the body of a loop with the bound i < n.
I_Resume(l, t, again, exit, n) ==
    /\ \/ /\ i + 1 < n
          /\ Step("I_Task", l, again)
          /\ i' = i + 1
       \/ /\ i + 1 >= n
          /\ Step("I_Task", l, exit)
          /\ i' = 0
    /\ Resume(t)
    /\ NoSample

\* BMTH_signalize_mseries_stop(), for ever.
I_Signalize ==
    /\ Step("I_Task", "signalize", "signalize")
    /\ NoCall /\ Quiet
=============================================================================
