SPECIFICATION FairSpec
CONSTANTS
    Node <- PairNode
    Slot <- PairSlot
    Needs <- PairNeeds
    Ancestors <- PairNeeds
    SlotOf <- PairSlotOf
    Position <- PairPosition
    MaxParallel = 2
    Epoch = {1, 2, 3}
    Turn = {1, 2, 3, 4, 5}
    Conversation = {1, 2, 3, 4}
    Reads <- PairReads
    Attempt = {1, 2}
    NoTurn = 0
    NoConversation = 0
    NoNode = "none"
    Worlds <- SilentWorlds
CHECK_DEADLOCK FALSE
PROPERTY
    RunEnds
