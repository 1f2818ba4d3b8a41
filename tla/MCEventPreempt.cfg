SPECIFICATION Spec
CONSTANTS
    sa1 = sa1
    sa2 = sa2
    sa3 = sa3
    sa4 = sa4
    sb1 = sb1
    sb2 = sb2
    sb3 = sb3
    sb4 = sb4
    SaDummies <- MCSaDummies
    SbDummies <- MCSbDummies
    prio <- MCprio
    MEASUREMENT_COUNT = 4
INVARIANTS
    WindowIsolation
    NoLostResume
    SameConditions
PROPERTIES
    Measures
