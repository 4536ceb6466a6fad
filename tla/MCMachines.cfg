SPECIFICATION MachinesSpec
CONSTANTS
    None = None
    Scenes = {"stream", "theme", "sheet", "worktrees", "release"}
    Feed = 3
    Kinds = {"reader", "generator"}
    UserTops = {0, 45}
    MaxUser = 4
    Nothing = Nothing
    Schemes <- MCSchemes
    Elements = {e1, e2}
    MaxCalls = 4
    NoNode = NoNode
    Containers = {k1, k2}
    Statements = {d1, d2}
    StatementOptions <- MCStatementOptions
    MaxRenders = 4
    NoClaim = NoClaim
    Branches = {"slash", "dash", "fix"}
    DirName <- MCDirName
    Paths <- MCPaths
    Shells = {s1, s2}
    MaxSlot = 2
    MaxCommands = 4
    Versions = {1, 2}
    Defects = {"privateDependency", "missingExport", "attwFailure"}
    MaxRuns = 2
    MaxEdits = 1
INVARIANTS ThemeHonest TableCurrent ReleaseSound
PROPERTIES StreamHonest StreamCompletes ClaimsHonest
CHECK_DEADLOCK FALSE
