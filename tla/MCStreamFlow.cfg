SPECIFICATION FairSpec
CONSTANTS
    HighWater = 4
    LowWater = 2
    MaxQueued = 7
    ChunkSizes = {1, 3}
    CheckpointSizes = {1, 4}
    MaxOutput = 8
    MaxOther = 1
    Faults = {"checkpoint", "channel", "detach", "exit"}
CHECK_DEADLOCK FALSE
INVARIANTS
    BacklogBounded
    ViewExact
PROPERTY
    CatchesUp
