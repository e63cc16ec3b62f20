SPECIFICATION Spec
CONSTANTS
    Kinds = {"resource", "hazard"}
    Terminals <- MCTerminals
    Delays = {0}
    Capacity = 1
    MaxBody = 2
    MaxTick = 4
    MaxIssued = 3
    MaxChanges = 3
    MaxRestarts = 0
INVARIANTS
    InterruptionsEndRoutes
CHECK_DEADLOCK FALSE
