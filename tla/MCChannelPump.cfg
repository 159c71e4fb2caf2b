CONSTANTS
    Left = Left
    Right = Right
    Outbox <- OneWay
    Cap = 2
    MaxMissed = 2
    MaxProbes = 1
    MaxIdle = 1
    MayFallSilent = TRUE
    MayLeave = {Left}
SPECIFICATION FairSpec
INVARIANTS WholeAndInOrder
PROPERTIES IdleNoticesSilence Delivered
CHECK_DEADLOCK FALSE
