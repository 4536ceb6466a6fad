SPECIFICATION Spec
CONSTANTS
    Limit = 8
    Seed <- MCSeed
    AddSet <- MCAddSet
    RemoveSet <- MCRemoveSet
    MoveSet <- MCMoveSet
    BatchSet <- MCBatchSet
    Lazy <- MCLazy
    None = None
    MaxDepth = 3
INVARIANTS TreeConsistent CachesCoherent
PROPERTIES CallsHonest
