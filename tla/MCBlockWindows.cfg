SPECIFICATION Spec
CONSTANTS
    sa1 = sa1
    sa2 = sa2
    sa3 = sa3
    sa4 = sa4
    Dummies <- MCDummies
    prio <- MCprio
    MEASUREMENT_COUNT = 4
    K_SEM_MAX_LIMIT = 1000
PROPERTIES
    OneIterationPerWindow
