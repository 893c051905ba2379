SPECIFICATION FairSpec
CONSTANTS
    t1 = t1
    t2 = t2
    p1 = p1
    p2 = p2
    g1 = g1
    g2 = g2
    Tasks <- MCTask
    Suno <- MCNone
    Realtime <- MCNone
    Deletable <- MCTask
    Tardy <- MCTask
    Flaky <- MCTask
    Hasty <- MCNone
    Legacy <- MCNone
    Passes <- MCPasses
    Gets <- MCNone
    Quota = 2
    Actuals <- MCActuals
    MaxFail = 2
INVARIANTS RefundedOnce FailedIsRefunded SucceededPays
PROPERTIES EndIsFinal BillMovesOnce TimedOutEnds
CHECK_DEADLOCK FALSE
