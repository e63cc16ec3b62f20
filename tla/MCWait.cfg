SPECIFICATION Spec
CONSTANTS
    Recurrences = {r1}
    Windows <- MCWindows
    MaxWait = 2
    Suppress = 1
    MaxExecutions = 2
    MaxSuppressions = 2
    MaxAge = 4
    MaxVersion = 1
    MaxRecords = 4
    MaxRestarts = 1
PROPERTIES
    ImplementsWaits
    NoReentry
    ReconciledWhenDue
CHECK_DEADLOCK FALSE
