CONSTANTS
    Offered     = {"good"}
    TickLength  = 1
    MaxGap      = 1
    Tolerance   = 1
    Dt          = 1
    Ends        = {1}
    Liberties   = {"late"}
    MaxWall     = 2
    MaxMono     = 1
    MaxRecords  = 3
    MaxEvidence = 1
    MaxRestarts = 0
    MaxJumps    = 0
SPECIFICATION Spec
INVARIANTS
    OneOutcomePerAnchor
CHECK_DEADLOCK FALSE
