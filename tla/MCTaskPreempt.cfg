SPECIFICATION Spec
CONSTANTS
    sb1 = sb1
    sb2 = sb2
    sb3 = sb3
    sb4 = sb4
    Dummies <- MCDummies
    prio <- MCprio
    MEASUREMENT_COUNT = 4
INVARIANTS
    WindowIsolation
    SameConditions
    ControlWaits
PROPERTIES
    Measures
