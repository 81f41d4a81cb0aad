SPECIFICATION Spec
CONSTANTS
    Pane = {p1, p2}
    NoPane = NoPane
    Conn = {c1}
    Limit = 1
    LineLimit = 1
    MaxWatcher = 2
    MaxActor = 2
    MaxEvent = 4
SYMMETRY Symmetry
CHECK_DEADLOCK FALSE
INVARIANTS TypeOK  DeafOnlyRobbed 
