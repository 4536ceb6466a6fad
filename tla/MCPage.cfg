SPECIFICATION PageSpec
CONSTANTS
    None = None
    RowHeight = 3
    GroupHeight = 2
    HeaderHeight = 1
    EmptyHeight = 2
    OverscanRows = 3
    Viewport = 4
    Overscroll = 1
    Capped = 2
    Options <- MCOptions
    Data <- MCData
    Filters <- MCFilters
    Aligns <- MCAligns
    Indices = {3}
    Tops = {8, 25}
    Keys <- MCKeys
    MaxGestures = 3
    Sections <- MCSections
    SectionOptions <- MCSectionOptions
    Slots = 4
    Budget = 3
INVARIANTS  FocusHonest
 
CHECK_DEADLOCK FALSE
