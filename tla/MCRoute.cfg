SPECIFICATION Spec
CONSTANTS
    Kinds = {"resource", "rest", "hazard"}
    Terminals <- MCTwoTerminals
    Delays = {1, 2}
    Capacity = 1
    MaxBody = 2
    MaxTick = 3
    MaxIssued = 3
    MaxChanges = 1
    MaxRestarts = 1
INVARIANTS
    Unbroken
    StepsAreOwn
    EndsAsItSays
    OneStepPerExecution
    StepsInTime
CHECK_DEADLOCK FALSE
VIEW View
