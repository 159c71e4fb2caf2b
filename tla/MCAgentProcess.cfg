CONSTANTS
    Input = {i1, i2}
    Required = {i2}
    PipeCapacity = 1
    MaxOutput = 1
    NoInput = NoInput
SPECIFICATION FairSpec
INVARIANTS CancelHolds ReadInOrder StoppedIsGone
PROPERTIES EndIsAnnounced QueueDrains
CHECK_DEADLOCK FALSE
