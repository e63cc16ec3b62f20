SPECIFICATION Spec
CONSTANTS
    MaxHypotheses = 1
    MaxOpen = 1
    Delayed = 1
    Timeout = 1
    MaxPartners = 1
    MaxBids = 2
    MaxMissed = 1
    MaxLoads = 1
INVARIANTS NeverDoubleSettles
CHECK_DEADLOCK FALSE
