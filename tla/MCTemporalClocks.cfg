CONSTANTS
    Offered     = {"good", "foreign", "unsure", "missing"}
    TickLength  = 1
    MaxGap      = 3
    Tolerance   = 1
    Dt          = 1
    Ends        = {0}
    Liberties   = {}
    MaxWall     = 3
    MaxMono     = 1
    MaxRecords  = 2
    MaxEvidence = 0
    MaxRestarts = 1
    MaxJumps    = 1
SPECIFICATION Spec
INVARIANTS
    DowntimeWithinMonotonic
    SnapshotRecorded
    TailReplays
PROPERTIES
    ImplementsLifetime
CHECK_DEADLOCK FALSE
