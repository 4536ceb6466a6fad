SPECIFICATION Spec
CONSTANTS
    Limit = 4
    None = None
    Setups <- MCSetups
    EntrySets <- MCEntrySets
    Answers <- MCAnswers
    Queries <- MCQueries
    Decorations <- MCDecorations
    Leaves <- MCLeaves
    Drops <- MCDrops
    MaxGestures = 3
INVARIANTS  ViewComplete
PROPERTIES EventsTell EditsHonest
CHECK_DEADLOCK FALSE
