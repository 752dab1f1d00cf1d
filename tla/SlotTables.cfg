CONSTANTS
    t1 = t1
    t2 = t2
    Threads <- MCThreads
    MAX_SEGMENTS = 3
    HASH_CAPACITY = 5
    OWN_CACHE_SIZE = 2
    WORD = 2
    Keys <- MCKeys
    Primordial = 1
    hash_index <- MCHome
    None = None
    CAP = 2
    MAX_GEN = 2
    Pending = Pending
    FANOUT = 2
    PAGE_SIZES <- MCPageSizes
    PAGES <- MCPages
    MAX_INSERTS = 4
    Inserting = Inserting
    BITS = 8
    ROUNDS = 3
    AllParams <- MCParams
SPECIFICATION SlotTablesSpec
INVARIANTS
    TableIsSound
    RegionsAccount
PROPERTIES
    RegionsAreStores
    SizesAreServed
