SPECIFICATION Spec
CONSTANTS
    Width = 3
    Height = 2
    Rows <- MCRows
    Panes = {p1}
    Assets <- MCAssets
    DataLength <- MCDataLength
    MaxBytes = 2
    MaxRevision = 3
    MaxWire = 2
    MaxFaults = 1
    Undefined = Undefined
INVARIANTS
    HeldIsShown
    HeldIsComplete
    FaultlessNotRefused
CHECK_DEADLOCK FALSE
