SPECIFICATION FairSpec
CONSTANTS
    a = a
    b = b
    EventTypes <- MCAllTypes
    Logs <- PairLogs
    HasParent = TRUE
    MaxPending = 1
    MaxEvents = 2
    MaxSetBacks = 1
INVARIANTS
    EventsAreKept
    CursorSkipsNothing
PROPERTIES
    EventsReachTheAgent
    WaitingEnds
