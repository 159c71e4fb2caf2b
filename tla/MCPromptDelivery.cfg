CONSTANTS
    p1 = p1 p2 = p2 p3 = p3
    Prompt = {p1, p2, p3}
    Text <- MCText
    NoText = "none"
    MaxInterrupts = 1
    Slow = {p2}
    MayExit = TRUE
SPECIFICATION FairSpec
INVARIANTS ReadAndKeptOnce StopHolds QueueIsWaiting
PROPERTIES EveryPromptIsShown
CHECK_DEADLOCK FALSE
