SPECIFICATION Spec
CONSTANTS
    Plain = {w1}
    Files = {f1, f2}
    SequenceNumbers = {n1, n2}
    MaxStrays = 1
    Nothing = Nothing
INVARIANTS
    ServerErrorRetained
CHECK_DEADLOCK FALSE
