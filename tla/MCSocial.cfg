SPECIFICATION Spec
CONSTANTS
    MaxHypotheses = 2
    MaxOpen = 2
    Delayed = 1
    Timeout = 2
    MaxPartners = 3
    MaxBids = 3
    MaxMissed = 2
    MaxLoads = 1
INVARIANTS MemoryMatchesLedger SettledOncePerSession EvidenceBacked SettledInTime
PROPERTIES SupportIsCausal
VIEW View
CHECK_DEADLOCK FALSE
