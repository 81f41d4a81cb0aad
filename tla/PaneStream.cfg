SPECIFICATION Spec
CONSTANTS
    Conn = {c1}
    Cap = 2
    PendingLimit = 1
    FeedCap = 1
    ResetFrames = 2
    MaxOut = 2
    MaxSelects = 2
    MaxLoops = 2
    MaxCloses = 1
INVARIANTS TypeOK  InOrderOutsideFlush EndedReachesWatchers
CHECK_DEADLOCK FALSE
