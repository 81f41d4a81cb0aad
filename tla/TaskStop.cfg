SPECIFICATION Spec
CONSTANTS
    parent = parent
    child = child
    Task <- ParentAndChild
    Related <- BothWays
    Stopper = {x1}
    Runner = {"context"}
    QueueSize = 1
    MaxTurns = 1
    MaxStoreErrors = 0
    MaxCrashes = 0
INVARIANT StoppedRowsCanceled
CHECK_DEADLOCK FALSE
