SPECIFICATION Spec
CONSTANTS
    Executions <- MCExecutions
    Effects <- MCEffects
    EffectOf <- MCEffectOf
    Lossy <- MCNone
    Yielding <- MCEaten
    Callers <- MCBoth
    Budget = 7
    MaxCrashes = 2
INVARIANTS
    StatusIsTruth
    HistoryGrounded
    EngineOnRecord
    ReplayLosesNothing
    EffectsMatchHabitat
PROPERTY ImplementsWorld
CHECK_DEADLOCK FALSE
