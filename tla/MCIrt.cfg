SPECIFICATION Spec
CONSTANTS
    MEASUREMENT_COUNT = 5
INVARIANTS
    TypeOK
    FreshMarkers
    NoLostRelease
PROPERTIES
    Finishes
