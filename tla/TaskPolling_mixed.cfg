SPECIFICATION Spec
CONSTANTS
    t1 = t1
    t2 = t2
    p1 = p1
    p2 = p2
    g1 = g1
    g2 = g2
    Tasks <- MCTasks
    Suno <- MCTask
    Realtime <- MCOther
    Deletable <- MCTask
    Tardy <- MCTask
    Flaky <- MCNone
    Hasty <- MCOther
    Legacy <- MCTask
    Passes <- MCPass
    Gets <- MCGet
    Quota = 2
    Actuals <- MCCosts
    MaxFail = 1
INVARIANTS Billed
CHECK_DEADLOCK FALSE
