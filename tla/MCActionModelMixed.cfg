SPECIFICATION Spec
CONSTANTS
    c1 = c1
    c2 = c2
    p1 = p1
    p2 = p2
    s1 = s1
    r1 = r1
    r2 = r2
    NoConv = NoConv
    Conversations <- OneConversation
    ActionIds <- MixedIds
    Outputs <- MixedOutputs
    Commands <- MCCommands
    Settings <- MixedSettings
    Reasons = {"Cancelled"}
    Autonomous = TRUE
CHECK_DEADLOCK FALSE
INVARIANTS
    TypeOK
    ActionsAreInOnePlace
    PhaseIsExact
    ResultsInToolCallOrder
PROPERTIES
    NothingRunsWithoutConsent
