CONSTANTS
    c1 = c1
    None = None
    Classes <- MCClasses
    block_size <- MCBlockSize
    FATES <- MCFates
    SEGMENT = 2
    FIRST_CHUNK = 1
    MAX_SEGMENTS = 3
    THRESHOLD = 2
    PERIOD = 2
    REFILL_BATCH = 1
    POOL_CAP = 1
    DEFER_STREAK = 1
    DEFER_DIVISOR = 1
    MODES = {"unrouted", "routed", "armed"}
    WANT = 2
    PENDING_MAX = 2
SPECIFICATION Spec
INVARIANTS
    HintsAreExact
PROPERTIES
    SearchIsComplete
