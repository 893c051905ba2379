SPECIFICATION FairSpec
CONSTANTS
    i1 = i1
    b1 = b1
    b2 = b2
    Requests <- MCRequests
    Batch <- MCBatch
    MinConcurrency = 1
    InitialConcurrency = 2
    MaxConcurrency = 3
    BatchConcurrency = 1
    QueueLimit = 2
    BatchQueueLimit = 1
    SuccessWindow = 2
    HealthProbeEnabled = TRUE
    HealthBadWindowThreshold = 3
    CapacityProbeEnabled = TRUE
    CapacityBadWindowThreshold = 1
INVARIANTS TypeOK Accounting Bounds CoolingAtMin NoLostWakeup
PROPERTIES AcquireEnds
