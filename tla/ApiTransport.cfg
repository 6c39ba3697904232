SPECIFICATION FairSpec
CONSTANTS
    Pings = {p1}
    Requests = {r1, r2}
    Streams = {s1}
    Check = Check
INVARIANTS
    CheckedBeforeSent
    CheckHasWaiter
    SocketsOwned
PROPERTIES
    FailureNotKept
    CallsEnd
CHECK_DEADLOCK FALSE
