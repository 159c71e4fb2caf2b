SPECIFICATION FairSpec
CONSTANTS
    Node <- MCNode
    Slot <- MCSlot
    Needs <- MCNeeds
    Ancestors <- MCAncestors
    SlotOf <- MCSlotOf
    Position <- MCPosition
    MaxParallel = 2
    Epoch = {1, 2, 3}
    Turn = {1, 2, 3, 4}
    Conversation = {1, 2, 3, 4}
    Reads <- MCReads
    Attempt = {1, 2}
    NoTurn = 0
    NoConversation = 0
    NoNode = "none"
    Worlds <- MCWorlds
CHECK_DEADLOCK FALSE
INVARIANTS
    LiveIsRecorded
    NoOrphanNode
    CompletedShowsItsTurn
    RoleDelivered
    DiskMatchesStore
PROPERTIES
    ImplementsRun
    RunEndsUnlessSilent
