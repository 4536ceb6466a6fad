SPECIFICATION Spec
CONSTANTS
    None = None
    Ledger <- MCLedger
    MatchOptions <- MCMatchOptions
    Saved <- MCSaved
    MaxGestures = 2
INVARIANT
    StaleProposalsDropped
CHECK_DEADLOCK FALSE
