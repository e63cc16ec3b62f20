SPECIFICATION Spec
CONSTANTS
    Rules = {r1, r2}
    MaxActive = 2
    MaxArchived = 1
    MaxBeliefs = 2
    MaxSteps = 2
    MaxEpisodes = 4
    MaxCycles = 2
SYMMETRY RuleSymmetry
INVARIANTS TypeOK ConfidenceEarned BeliefsMatchEvidence
CHECK_DEADLOCK FALSE
