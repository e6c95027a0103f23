SPECIFICATION Spec
CONSTANTS
    aNotebook = n
    aWorkflow = w
    anEnum = e
    aFact = f
    aSetting = p
    anotherSetting = q
    NoObject = NoObject
    Notebooks = {}
    Workflows = {w}
    Enums = {e}
    Facts = {}
    Preferences = {}
    References <- TheReference
    TeamObjects = {}
    MayDangle = FALSE
    Impatient = FALSE
    MaxItems <- FourItems
    MaxEdits = 0
    MaxRetries = 0
    MaxRestarts = 0
INVARIANTS
    SettledIsSynced
