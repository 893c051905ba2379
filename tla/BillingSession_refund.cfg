SPECIFICATION Spec
CONSTANTS
    q1 = q1
    q2 = q2
    Requests <- MCRequests
    Playground <- MCPlayground
    Forced <- MCForced
    Estimates <- MCEstimates
    MaxQuota = 2
    Fee = 1
    SubTotal = 3
    MaxFail = 1
INVARIANT SubscriptionRefundedOnce
CHECK_DEADLOCK FALSE
