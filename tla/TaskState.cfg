SPECIFICATION Spec
CONSTANTS
    p1 = p1
    t1 = t1
    t2 = t2
    other = other
    own = own
    shell = shell
    Pane = {p1}
    Task = {t1, t2}
    Project <- MCProject
    Home <- MCHome
    Blank = blank
    Command = {shell}
    NoPane = nopane
    None = none
    MaxTime = 2
    MaxReports = 2
    MaxEdits = 2
    MaxFaults = 1
    MaxInFlight = 2
SYMMETRY Symmetry
CHECK_DEADLOCK FALSE
INVARIANTS KnownIsStored TreeShownOrNoticed
PROPERTIES ActivityNotBackdated
