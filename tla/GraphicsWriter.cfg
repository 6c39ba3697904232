SPECIFICATION FairSpec
CONSTANTS
    Plain = {w1}
    Files = {f1, f2}
    SequenceNumbers = {n1, n2}
    MaxStrays = 1
    Nothing = Nothing
INVARIANTS
    AcknowledgementIsOwn
    PermitExact
    EndIsHeard
PROPERTIES
    NothingAfterDoubt
    CallsEnd
CHECK_DEADLOCK FALSE
