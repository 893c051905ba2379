------------------------- MODULE MCBillingSession -------------------------
EXTENDS BillingSession
CONSTANTS q1, q2
MCRequests == {q1, q2}
MCPlayground == {q2}
MCForced == {q1}
MCEstimates == {0, 1, 2}
=============================================================================
