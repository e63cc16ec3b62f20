CONSTANTS
    Objects = {box, ball}
    Delay = 2
    MaxRecords = 4
    MaxVersion = 3
SPECIFICATION Spec
INVARIANTS
    RestartAccepted
    HeldByThisBody
    DelayedForThisBody
    LiveFollowsLedger
PROPERTY ImplementsBodies
