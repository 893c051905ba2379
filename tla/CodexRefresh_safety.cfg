SPECIFICATION Spec
CONSTANTS
    c1 = c1
    c2 = c2
    c3 = c3
    Calls <- MCCalls
    None = None
    MaxToken = 3
    MaxTime = 3
    LeaseTTL = 1
    OpTTL = 2
    Freshness = 1
INVARIANTS SentOnce RotationFenced FailureMarksOwn
PROPERTIES SuccessorOnly
SYMMETRY CallSymmetry
CHECK_DEADLOCK FALSE
