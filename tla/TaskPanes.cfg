SPECIFICATION Spec
CONSTANTS
    Request = {q1, q2}
    NoTask = NoTask
    NoPane = NoPane
    MaxRequests = 2
    MaxErrors = 1
SYMMETRY Symmetry
CHECK_DEADLOCK FALSE
INVARIANTS PaneBoundOnce OpenPanesBound ArchivedUnbound 
