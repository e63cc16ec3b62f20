SPECIFICATION Spec
CONSTANTS
    Rules = {r1}
    MaxActive = 1
    MaxArchived = 1
    MaxBeliefs = 2
    MaxSteps = 1
    MaxEpisodes = 3
    MaxCycles = 1
INVARIANTS ProvenanceKept
CHECK_DEADLOCK FALSE
