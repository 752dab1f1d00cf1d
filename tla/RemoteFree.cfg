CONSTANTS
    p1 = p1
    p2 = p2
    a1 = a1
    a2 = a2
    a3 = a3
    Producers <- MCProducers
    Bases <- MCBases
    Slots = {0, 1, 2}
    MASK_BITS = 3
    Blocks = {0}
    PRIMORDIAL_BLOCKS = {}
    WORD_BITS = 1
    POOL_CAPS = {0, 1}
    MAX_INCARNATION = 3
SPECIFICATION Spec
SYMMETRY Symmetric
INVARIANTS
    EveryReferenceCounted
    FreeReachesItsSegment
    NoLostWakeup
    PoolingIsSound
