CONSTANTS
    Tab = {t1, t2, t3}
    MaxHosts = 3
    Cancels = TRUE
SPECIFICATION FairSpec
INVARIANTS OneServing
PROPERTIES WaitersServed NoOrphanHost
CHECK_DEADLOCK FALSE
