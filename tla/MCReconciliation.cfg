SPECIFICATION FairSpec
CONSTANTS
    None = None
    Ledger <- MCLedger
    MatchOptions <- MCMatchOptions
    Saved <- MCSaved
    MaxGestures = 3
INVARIANTS PageCurrent StaleOnlyIfUndercut RowsHonest
PROPERTIES VerdictsKept ProposalsArrive
CHECK_DEADLOCK FALSE
