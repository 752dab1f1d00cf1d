CONSTANTS
    p1 = p1
    p2 = p2
    a1 = a1
    a2 = a2
    e1 = e1
    e2 = e2
    Nothing = Nothing
    Producers <- MCProducers
    Bases <- MCBases
    Slots = {0, 1}
    MASK_BITS = 1
    Blocks = {0, 1}
    PRIMORDIAL_BLOCKS = {0, 1}
    WORD_BITS = 1
    POOL_CAPS = {0}
    MAX_INCARNATION = 1
    Entries <- MCEntries
    Sizes = {1}
    BiasedSizes = {}
    MAX_SEGMENTS = 3
    LARGE_CACHE_SLOTS = 1
    BUDGET = 1
    HEADROOM = 0
    LARGE_HOT_BUDGET = 1
    MAX_LARGE_GENERATION = 2
SPECIFICATION DrainsSpec
PROPERTIES
    FreesComeHome
