SPECIFICATION Spec
CONSTANTS
    Boots = {b1, b2}
    Revisions <- MCTwoRevisions
    CommandIds = {c1}
    Watchers = {}
    Subscribers = {s1, s2}
    EventCapacity = 2
    MaxEvents = 3
    ServerRejects = FALSE
    ConsumersInterrupt = FALSE
    Undefined = Undefined
INVARIANTS
    AwaitsOnlyMissing
    NoEventSkipped
PROPERTIES
    ListedCommandsResolve
    RevisionsOnlyGrow
    EndedStartsNothing
    ImplementsEndpoint
SYMMETRY MCSymmetry
CONSTRAINT MCApart
CHECK_DEADLOCK FALSE
