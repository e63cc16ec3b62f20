SPECIFICATION Spec
CONSTANTS
    Types <- MCTypes
    ProtectedTypes <- MCProtected
    BodyReplaced = "replaced"
    HotTailMax = 2
    PerTick = 2
    KeepCheckpoints = 2
    RetainSnapshots = 1
    MaxIds = 7
    MaxCrashes = 2
    MaxRefs = 1
INVARIANTS
    ChainNeverBreaks
    RestartPointSound
    AnchorsRetained
    ReferencesResolvable
    LastAttachmentFound
PROPERTY ImplementsLog
CHECK_DEADLOCK FALSE
