SPECIFICATION Spec
CONSTANTS
    MEASUREMENT_COUNT = 3
    MESSAGE_SIZE_STEPS = 3
INVARIANTS
    TypeOK
    MarkersSettled
    SameStep
PROPERTIES
    Transacts
