SPECIFICATION Spec
CONSTANTS
    Limit = 1024
    None = None
    Absent = Absent
INVARIANTS RegistersExact MatchesComplete MatchesPreferred  TextReadsBack NothingDropped
CHECK_DEADLOCK FALSE
