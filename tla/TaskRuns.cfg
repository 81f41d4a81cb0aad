SPECIFICATION RunsSpec
CONSTANTS
    Run = {r1, r2}
    Call = {c1, c2}
    NoRun = NoRun
    MaxSecond = 2
    MaxServer = 2
    MaxStoreErrors = 1
    MaxRestarts = 2
SYMMETRY Symmetry
INVARIANTS OneTurnPerSecond AcceptedSecondsAccounted StaleRunsParked ReboundRunsKept
