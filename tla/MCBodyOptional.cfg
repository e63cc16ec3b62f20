CONSTANTS
    Objects = {box}
    Delay = 0
    MaxRecords = 2
    MaxVersion = 2
SPECIFICATION SpecOptional
INVARIANTS
    RestartAccepted
