SPECIFICATION Spec
CONSTANTS
    r1 = r1
    r2 = r2
    Runners <- MCRunners
    Reliable <- MCRunners
    None = None
    MaxTask = 2
    MaxTime = 5
    LockTTL = 1
    Interval = 1
    ClaimPrompt = FALSE
INVARIANTS TypeOK MutualExclusion RunsOnce
PROPERTIES ImplementsQueue
SYMMETRY RunnerSymmetry
CHECK_DEADLOCK FALSE
