SPECIFICATION MCViewSpec
CONSTANTS
    Limit = 4
    None = None
    Setups <- MCSetups
    EntrySets <- MCEntrySets
    Answers <- MCAnswers
    Queries <- MCQueries
    Decorations <- MCDecorations
    Leaves <- MCLeaves
    Drops <- MCDrops
    MaxGestures = 3
    Height = 2
    Overscan = 0
    StackMax = 4
    Stacked = TRUE
    Collision = "reject"
    Keys <- MCKeys
    Preload = 3
INVARIANTS TreeDrawn
 
CHECK_DEADLOCK FALSE
