CONSTANTS
    p = p b = b x = x y = y
    Plain = {p}
    Bounded = {b}
    Transfer = {x, y}
    Size <- MCSize
    Parts <- MCParts
    MaxQueued = 3
    BoundedQueued = 2
    Aborts = TRUE
    NoSender = NoSender
SPECIFICATION FairSpec
INVARIANTS TransfersWhole
PROPERTIES BoundedNeverCloses Finishes
CHECK_DEADLOCK FALSE
