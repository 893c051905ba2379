--------------------------- MODULE MCTaskPolling ---------------------------
EXTENDS TaskPolling
CONSTANTS t1, t2, p1, p2, g1, g2
MCNone == {}
MCTask == {t1}
MCTasks == {t1, t2}
MCOther == {t2}
MCPass == {p1}
MCPasses == {p1, p2}
MCGet == {g1}
MCActuals == {0, 1, 3}
MCCosts == {0, 3}
=============================================================================
