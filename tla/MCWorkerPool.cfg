SPECIFICATION PoolSpec
CONSTANTS
    c1 = c1
    c2 = c2
    c3 = c3
    window = window
    proposals = proposals
    broken = broken
    None = None
    Call = {c1, c2, c3}
    Input = {window, proposals, broken}
    Bad = {broken}
    Keyed = {window, broken}
    PoolSize = 2
    CacheSize = 1
    CallersInterpose = TRUE
    MaxGeneration = 1
    CallOrder <- MCCallOrder
    Plans <- MCPlans
INVARIANTS PoolSound
PROPERTIES ImplementsJobService EveryCallAnswered
CHECK_DEADLOCK FALSE
