SPECIFICATION FairSpec
CONSTANTS
    Requests = {r1, r2}
    Writes = {w1}
    Boots = {b1, b2}
    MaxPending = 2
    MaxBytes = 2
    MaxChunks = 2
    EarlyCapacity = 1
    MaxMessages = 3
    OwnerCloses = TRUE
    Undefined = Undefined
INVARIANTS
    TableExact
    HandledInOrder
    LockExact
    BufferedBounded
PROPERTIES
    AmbiguityFails
    ImplementsEndpoint
    CallsEnd
    AcquisitionEnds
CHECK_DEADLOCK FALSE
