CONSTANTS
    Objects = {box, ball}
    Delay = 0
    MaxRecords = 2
    MaxVersion = 3
SPECIFICATION Spec
INVARIANTS
    OneObjectPerSlot
