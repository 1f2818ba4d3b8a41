---------------------------- MODULE Measurement ----------------------------
(***************************************************************************)
(* What a two-scenario test of the suite promises, whatever kernel         *)
(* primitive it measures: scenario A is measured MEASUREMENT_COUNT times,  *)
(* then scenario B, one sample per measurement window, and the run ends.   *)
(***************************************************************************)
EXTENDS Naturals

CONSTANT MEASUREMENT_COUNT

VARIABLES
    window,    \* the scenario whose measurement window is open, or "closed"
    samples    \* the calls of BMTH_mseries_iterate() made for each scenario

mvars == <<window, samples>>

Scenario == {"scenario_a", "scenario_b"}

MeasurementTypeOK ==
    /\ window \in Scenario \cup {"closed"}
    /\ samples \in [Scenario -> 0..MEASUREMENT_COUNT]

\* scenario_b is measured after scenario_a is complete.
Due(s) ==
    /\ samples[s] < MEASUREMENT_COUNT
    /\ s = "scenario_b" => samples["scenario_a"] = MEASUREMENT_COUNT

Init ==
    /\ window = "closed"
    /\ samples = [s \in Scenario |-> 0]

\* BMTH_mwindow_open() and the start marker.
Open(s) ==
    /\ window = "closed"
    /\ Due(s)
    /\ window' = s
    /\ UNCHANGED samples

\* The stop marker, BMTH_mseries_iterate() and BMTH_mwindow_close().
Record(s) ==
    /\ window = s
    /\ samples' = [samples EXCEPT ![s] = @ + 1]
    /\ window' = "closed"

Next == \E s \in Scenario : Open(s) \/ Record(s)

Spec == Init /\ [][Next]_mvars /\ WF_mvars(Next)

\* Every scenario ends with exactly the configured number of iterations.
Complete == window = "closed" /\ \A s \in Scenario : samples[s] = MEASUREMENT_COUNT
=============================================================================
