SPECIFICATION Spec
CONSTANTS
    Limit = 4
    Listener = {l1, l2}
    None = None
    MaxDepth = 2
    Batch <- MCBatch
    IdSet <- MCIdSet
    Key <- MCKey
INVARIANTS CachesCoherent StoreSound
PROPERTIES EventsHonest
CHECK_DEADLOCK FALSE
