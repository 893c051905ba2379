SPECIFICATION FairSpec
CONSTANTS
    q1 = q1
    q2 = q2
    Requests <- MCRequests
    Playground <- MCPlayground
    Forced <- MCForced
    Estimates <- MCEstimates
    MaxQuota = 2
    Fee = 1
    SubTotal = 3
    MaxFail = 4
INVARIANTS TypeOK SettledExact FailedPaysOnlyFee NeverOverRefunded OneSource
PROPERTIES RefundEnds
CHECK_DEADLOCK FALSE
