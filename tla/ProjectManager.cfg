SPECIFICATION Spec
CONSTANTS
    Session = {s1}
    Call = {c1}
    NoCall = NoCall
    ListLimit = 3
    HistoryMax = 2
    MaxTurns = 3
    MaxReports = 2
    MaxFaults = 1
CHECK_DEADLOCK FALSE
INVARIANTS TypeOK TimelineIsLog ReplyTellsAll HistoryTellsSettled
