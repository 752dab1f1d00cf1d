CONSTANTS
    t1 = t1
    t2 = t2
    w1 = w1
    Threads <- MCThreads
    Workers <- MCWorkers
    MAX_HEAPS = 2
    CHUNK_SLOTS = 2
    WORD_MAX = 7
    MAINTENANCE_RECLAIM_BUDGET = 1
SPECIFICATION Spec
SYMMETRY ThreadSymmetry
INVARIANTS
    NoSpuriousRefusal
    SingleWriter
    HeapBuiltOnce
    NoSlotLost
