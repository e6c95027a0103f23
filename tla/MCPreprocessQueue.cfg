SPECIFICATION Spec
CONSTANTS
    a1 = a1
    a2 = a2
    a3 = a3
    a4 = a4
    a5 = a5
    ActionIds <- MCActionIds
    Outputs <- MCOutputs
CHECK_DEADLOCK FALSE
PROPERTIES
    EveryActionReleased
    ReleasesInOrder
