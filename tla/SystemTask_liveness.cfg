SPECIFICATION FairSpec
CONSTANTS
    r1 = r1
    r2 = r2
    Runners <- MCRunners
    Reliable <- MCSurvivor
    None = None
    MaxTask = 1
    MaxTime = 5
    LockTTL = 1
    Interval = 1
    ClaimPrompt = TRUE
PROPERTIES RunningEnds
CHECK_DEADLOCK FALSE
