SPECIFICATION ControllerSpec
CONSTANTS
    c1 = c1
    p1 = p1
    p2 = p2
    s1 = s1
    r1 = r1
    r2 = r2
    NoConv = NoConv
    Conversations = {c1}
    ActionIds <- MCIds
    Outputs <- TurnOutputs
    Commands <- MCCommands
    Settings <- MCSettings
    Reasons = {"Cancelled", "FinalizedExternally"}
    Autonomous = FALSE
    MaxQueries = 2
    UserIsSlow = TRUE
CHECK_DEADLOCK FALSE
INVARIANTS
    ResultsReachTheAgent
    RestIsTerminal
    AnswerIsInProgress
    QueueIsServed
PROPERTIES
    ErrorIsFinal
    TurnEnds
