SPECIFICATION Spec
CONSTANTS
    aNotebook = n
    aWorkflow = w
    anEnum = e
    aFact = f
    aSetting = p
    anotherSetting = q
    NoObject = NoObject
    Notebooks = {n}
    Workflows = {w}
    Enums = {e}
    Facts = {f}
    Preferences = {p, q}
    References <- TheReference
    TeamObjects = {n}
    MayDangle = FALSE
    Impatient = FALSE
    MaxItems <- Groups
    MaxEdits = 1
    MaxRetries = 1
    MaxRestarts = 1
INVARIANTS
    UpdatesInOrder
    OwnUpdatesAreAccepted
    StatusIsTrue
    DependenciesArePending
    EditsSurviveRestart
    SettledIsSynced
PROPERTIES
    QueueEmpties
