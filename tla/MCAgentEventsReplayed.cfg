SPECIFICATION Spec
CONSTANTS
    a = a
    b = b
    EventTypes <- MCAllTypes
    Logs <- SingleLogs
    HasParent = TRUE
    MaxPending = 1
    MaxEvents = 1
    MaxSetBacks = 1
INVARIANTS
    NothingIsReplayed
