SPECIFICATION MemSpec
CONSTANTS
    MEM_S_MIN = 1
    MEM_S_MAX = 3
    MEM_ARENA_SIZE = 8
    CHUNK_HEADER = 1
    HEAP_HEADER = 1
    OBJECT = 3
INVARIANTS
    PiecesDisjoint
    UsageExact
PROPERTIES
    FillsTheArena
