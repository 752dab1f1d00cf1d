CONSTANTS
    t1 = t1
    t2 = t2
    t3 = t3
    a = a
    b = b
    i1 = i1
    i2 = i2
    Threads <- MCThreads
    Indices <- MCIndices
    Ptrs <- MCPtrs
    Null = Null
    SENTINEL = SENTINEL
    Pending = Pending
    Unwound = Unwound
    TAG_MAX = 3
    TAIL = TAIL
    Nobody = Nobody
    HintThreads <- MCHintThreads
    WORDS = 2
    WordBits = 2
    TAKE_ATTEMPTS = 4
    NoIndex = NoIndex
SPECIFICATION PrimitivesSpec
INVARIANTS
    SoleInitialiser
    ChainIsFree
    NonemptyWordIsVisible
PROPERTIES
    SetOnce
    IsStack
    ImplementsSet
    TakeEnds
    Progress
