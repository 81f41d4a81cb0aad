SPECIFICATION Spec
CONSTANTS
    parent = parent
    child = child
    Task <- ParentAndChild
    Related <- BothWays
    Stopper = {x1}
    Runner = {"context", "plain"}
    QueueSize = 1
    MaxTurns = 2
    MaxStoreErrors = 1
    MaxCrashes = 1
INVARIANTS TypeOK RunningRowsOwned RepliesChain
 
CHECK_DEADLOCK FALSE
