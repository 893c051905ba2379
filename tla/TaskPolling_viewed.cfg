SPECIFICATION Spec
CONSTANTS
    t1 = t1
    t2 = t2
    p1 = p1
    p2 = p2
    g1 = g1
    g2 = g2
    Tasks <- MCTask
    Suno <- MCNone
    Realtime <- MCTask
    Deletable <- MCNone
    Tardy <- MCNone
    Flaky <- MCNone
    Hasty <- MCNone
    Legacy <- MCNone
    Passes <- MCPass
    Gets <- MCGet
    Quota = 2
    Actuals <- MCActuals
    MaxFail = 0
INVARIANTS EveryFailureRefunded
CHECK_DEADLOCK FALSE
