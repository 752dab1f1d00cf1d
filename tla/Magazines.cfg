CONSTANTS
    Classes <- MCClasses
    DepotClasses <- MCDepotClasses
    TCACHE_CAP = 2
    FREE_PARK_CAP <- MCFREE_PARK_CAP
    DEPOT_K <- MCDEPOT_K
    mag_bytes <- MCmag_bytes
    EPOCH_MIN = 2
    DECAY_WORK = 1
    INGRESS_PERIOD = 2
    Setups <- MCSetups
    BATCH_MAX = 2
SPECIFICATION Spec
INVARIANTS
    OneHolder
    VirginMarksTrue
    OverflowAccounts
    FastLanesAgree
