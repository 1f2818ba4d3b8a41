---------------------------- MODULE Transaction ----------------------------
(***************************************************************************)
(* What a message passing test of the suite promises, whatever object it   *)
(* sends through: the scenarios are measured in their order, each from the *)
(* smallest message to the largest, MEASUREMENT_COUNT times a size, and    *)
(* what feeds a series is one message of its size, handed over in full     *)
(* while the measurement window is open.                                   *)
(***************************************************************************)
EXTENDS Naturals, Sequences

CONSTANTS
    Scenarios,              \* a sequence, in the order of the measurement
    MESSAGE_SIZE_STEPS,     \* series of each scenario, one per message size
    MEASUREMENT_COUNT       \* iterations of each series

VARIABLES
    window,     \* the scenario whose window is open, or "closed"
    message,    \* the step of the message handed over in it, as a set
    samples     \* iterations of the series of each scenario and step

tvars == <<window, message, samples>>

Sizes == 0..(MESSAGE_SIZE_STEPS - 1)
Scenario == {Scenarios[k] : k \in DOMAIN Scenarios}

\* The series of scenario s that is fed next: whatever comes before it is complete.
Due(s, n) ==
    /\ samples[s][n] < MEASUREMENT_COUNT
    /\ \A m \in 0..(n - 1) : samples[s][m] = MEASUREMENT_COUNT
    /\ \E k \in DOMAIN Scenarios :
          /\ Scenarios[k] = s
          /\ \A j \in 1..(k - 1), m \in Sizes : samples[Scenarios[j]][m] = MEASUREMENT_COUNT

Init ==
    /\ window = "closed"
    /\ message = {}
    /\ samples = [s \in Scenario |-> [n \in Sizes |-> 0]]

Open(s) ==
    /\ window = "closed"
    /\ \E n \in Sizes : Due(s, n)
    /\ window' = s
    /\ UNCHANGED <<message, samples>>

\* The receiver holds the message and, where it takes one, its stop marker.
Transfer(s) ==
    /\ window = s /\ message = {}
    /\ \E n \in Sizes : Due(s, n) /\ message' = {n}
    /\ UNCHANGED <<window, samples>>

Record(s) ==
    /\ window = s
    /\ \E n \in message : samples' = [samples EXCEPT ![s][n] = @ + 1]
    /\ window' = "closed" /\ message' = {}

Next == \E s \in Scenario : Open(s) \/ Transfer(s) \/ Record(s)

Spec == Init /\ [][Next]_tvars /\ WF_tvars(Next)
=============================================================================
