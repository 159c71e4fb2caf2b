SPECIFICATION Spec
CONSTANTS
    Node <- MCNode
    Slot <- MCSlot
    Needs <- MCNeeds
    Ancestors <- MCAncestors
    SlotOf <- MCSlotOf
    Position <- MCPosition
    MaxParallel = 2
    Epoch = {1}
    Turn = {"t"}
    Conversation = {"x"}
    Output = {"text"}
    NoTurn = "none"
    NoConversation = "none"
    NoOutput = "none"
CHECK_DEADLOCK FALSE
INVARIANTS
    AncestorsCompleted
    ParallelBound
    SlotExclusive
    StateMatchesNodes
PROPERTIES
    CompletedIsFinal
