SPECIFICATION Spec
CONSTANTS
    Definitions <- MCDefinitions
    MaxNodes <- MCMaxNodes
CHECK_DEADLOCK FALSE
INVARIANTS
    VerdictExact
    CycleIsReal
