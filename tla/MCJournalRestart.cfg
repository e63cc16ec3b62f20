SPECIFICATION Spec
CONSTANTS
    Executions <- MCExecutions
    Effects <- MCEffects
    EffectOf <- MCEffectOf
    Lossy <- MCNone
    Yielding <- MCEaten
    Callers <- MCTick
    Budget = 20
    MaxCrashes = 1
INVARIANT RestartReattaches
CHECK_DEADLOCK FALSE
