SPECIFICATION Spec
CONSTANTS
    Boots = {b1}
    Revisions <- MCTwoRevisions
    CommandIds = {}
    Watchers = {}
    Subscribers = {}
    EventCapacity = 1
    MaxEvents = 0
    ServerRejects = TRUE
    ConsumersInterrupt = FALSE
    Undefined = Undefined
INVARIANTS
    AwaitsOnlyMissing
CHECK_DEADLOCK FALSE
