CONSTANTS
    t1 = t1
    t2 = t2
    h1 = h1
    Threads <- MCThreads
    Heaps <- MCHeaps
    WORD_MAX = 3
    SATURATION_RETRY_INTERVAL = 1
    Null = Null
    Torn = Torn
    Gone = Gone
SPECIFICATION FairSpec
INVARIANTS
    LeasesAreKept
    NullMeansOom
PROPERTIES
    ExitIsNotBlocked
    BindsAtLast
CHECK_DEADLOCK FALSE
