SPECIFICATION Spec
CONSTANTS
    Pane = {p1}
    NoPane = NoPane
    Task = {k1}
    QueueSize = 1
    MaxTabs = 2
    MaxRequests = 2
    MaxAgents = 2
CHECK_DEADLOCK FALSE
INVARIANTS ReplyReachesAsker ActivePaneIsAskers 
 
