SPECIFICATION Spec
CONSTANTS
    Requests = {r1, r2}
    Writes = {}
    Boots = {b1}
    MaxPending = 2
    MaxBytes = 1
    MaxChunks = 1
    EarlyCapacity = 0
    MaxMessages = 1
    OwnerCloses = FALSE
    Undefined = Undefined
PROPERTIES
    DeadlineIsNamed
CHECK_DEADLOCK FALSE
