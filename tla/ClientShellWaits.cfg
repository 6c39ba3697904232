SPECIFICATION FairSpec
CONSTANTS
    Boots = {b1}
    Revisions <- MCTwoRevisions
    CommandIds = {}
    Watchers = {w1}
    Subscribers = {}
    EventCapacity = 1
    MaxEvents = 0
    ServerRejects = TRUE
    ConsumersInterrupt = TRUE
    Undefined = Undefined
INVARIANTS
    WatcherUpToDate
PROPERTIES
    
    SetReleasesLock
    ActiveWakesWatchers
CHECK_DEADLOCK FALSE
