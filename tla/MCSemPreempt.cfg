SPECIFICATION Spec
CONSTANTS
    sa1 = sa1
    sa2 = sa2
    sa3 = sa3
    sb1 = sb1
    sb2 = sb2
    sb3 = sb3
    SaDummies <- MCSaDummies
    SbDummies <- MCSbDummies
    prio <- MCprio
    MEASUREMENT_COUNT = 4
    K_SEM_MAX_LIMIT = 1000
INVARIANTS
    TypeOK
    WindowIsolation
    NoLostResume
    SameConditions
    SemBalance
PROPERTIES
    Measures
