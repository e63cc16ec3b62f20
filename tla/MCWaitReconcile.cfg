SPECIFICATION Spec
CONSTANTS
    Recurrences = {r1}
    Windows <- MCWindows
    MaxWait = 2
    Suppress = 1
    MaxExecutions = 2
    MaxSuppressions = 2
    MaxAge = 4
    MaxVersion = 1
    MaxRecords = 2
    MaxRestarts = 1
PROPERTY ReconciledOrUnchanged
CHECK_DEADLOCK FALSE
