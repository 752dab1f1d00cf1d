CONSTANTS
    t1 = t1
    t2 = t2
    w1 = w1
    Threads <- MCThreads
    Workers <- MCWorkers
    Setups <- MCSetups
    MAX_HEAPS = 1
    CHUNK_SLOTS = 1
    WORD_MAX = 3
    MAINTENANCE_RECLAIM_BUDGET = 1
    SLOT_BUDGET = 1
    BACKGROUND_INGRESS_BUDGET = 1
    FALLBACK_IDLE_VISITS = 2
SPECIFICATION BothSpec
INVARIANTS
    ServiceIsHonest
PROPERTIES
    ClaimEndsWhenOthersPark
    ServiceDelivers
CHECK_DEADLOCK FALSE
