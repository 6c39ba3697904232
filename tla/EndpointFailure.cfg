SPECIFICATION Spec
CONSTANTS
    Requests = {r1}
    Writes = {}
    Boots = {b1}
    MaxPending = 1
    MaxBytes = 1
    MaxChunks = 1
    EarlyCapacity = 0
    MaxMessages = 1
    OwnerCloses = TRUE
    Undefined = Undefined
INVARIANTS
    FailureEndsPending
CHECK_DEADLOCK FALSE
