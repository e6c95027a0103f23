SPECIFICATION Spec
CONSTANTS
    MaxRetries = 3
    MaxOutages = 3
    WellFormed = TRUE
CHECK_DEADLOCK FALSE
INVARIANTS
    StreamTypeOK
    ActionsOfOneAttempt
    EndIsSettled
    WaitingIsParked
PROPERTIES
    ImplementsContract
    RequestSettles
