SPECIFICATION Spec
CONSTANTS
    Executions <- MCExecutions
    Effects <- MCEffects
    EffectOf <- MCEffectOf
    Lossy <- MCEaten
    Yielding <- MCEaten
    Callers <- MCTick
    Budget = 20
    MaxCrashes = 1
INVARIANT ReplayReproducesState
CHECK_DEADLOCK FALSE
