SPECIFICATION Spec
CONSTANTS
    p1 = p1
    p2 = p2
    p3 = p3
    Polls <- MCPolls
    None = None
    LeaseTTL = 1
    ExpiresAt = 3
    MaxTime = 3
    MaxFence = 4
INVARIANTS NoSecondChance
PROPERTIES ImplementsAttempt
SYMMETRY PollSymmetry
CHECK_DEADLOCK FALSE
