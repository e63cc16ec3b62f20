SPECIFICATION FairSpec
CONSTANTS
    HotTailMax = 6
    PerTick = 3
    SnapshotEvery = 2
    LoadEvents = 2
    MaxStops = 2
    MaxStray = 3
INVARIANT TailExcessBounded
PROPERTY FullTailIsServed
CHECK_DEADLOCK FALSE
