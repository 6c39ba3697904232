SPECIFICATION Spec
CONSTANTS
    Boots = {b1}
    Revisions <- MCRevisions
    CommandIds = {}
    Watchers = {}
    Subscribers = {}
    EventCapacity = 1
    MaxEvents = 0
    ServerRejects = TRUE
    ConsumersInterrupt = TRUE
    Undefined = Undefined
INVARIANTS
    ActiveAtFloor
    SurfaceBehindProjection
PROPERTIES
    ImplementsSurfaceInterest
CHECK_DEADLOCK FALSE
