SPECIFICATION TailSpec
CONSTANTS
    HotTailMax = 6
    PerTick = 3
    SnapshotEvery = 2
    LoadEvents = 2
    MaxStops = 2
    MaxStray = 3
INVARIANT HotTailBounded
CHECK_DEADLOCK FALSE
