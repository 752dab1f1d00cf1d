CONSTANTS
    t1 = t1
    t2 = t2
    a1 = a1
    a2 = a2
    a3 = a3
    Threads <- MCThreads
    Setups <- MCSetups
    INITIAL_INDEX_CAP = 1
    Nobody = Nobody
    NoEntry = NoEntry
    Addrs <- MCAddrs
    hash <- MChash
    INIT_CAP = 2
    EMPTY = EMPTY
    TOMB = TOMB
SPECIFICATION ShardsSpec
INVARIANTS
    DirectoryIsSound
    TableIsExact
PROPERTIES
    ExitGoesOn
CHECK_DEADLOCK FALSE
