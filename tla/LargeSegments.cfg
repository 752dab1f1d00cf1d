SPECIFICATION Spec
CONSTANTS
    None = None
    Producers = {p1, p2}
    Bases = {b1, b2, b3}
    Entries = {e1, e2, e3}
    Sizes = {1, 2}
    BiasedSizes = {2}
    MAX_SEGMENTS = 3
    LARGE_CACHE_SLOTS = 2
    BUDGET = 3
    HEADROOM = 1
    LARGE_HOT_BUDGET = 1
    MAX_LARGE_GENERATION = 2
SYMMETRY Symmetry
INVARIANTS
    ReservationsAreKept
    BlockKeepsItsMemory
    ForeignFreeIsRecorded
