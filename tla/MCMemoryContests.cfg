SPECIFICATION Spec
CONSTANTS
    Rules = {r1, r2}
    MaxActive = 3
    MaxArchived = 1
    MaxBeliefs = 2
    MaxSteps = 3
    MaxEpisodes = 3
    MaxCycles = 1
INVARIANTS ContradictedByOpposite
CHECK_DEADLOCK FALSE
