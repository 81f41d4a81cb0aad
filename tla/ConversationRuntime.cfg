SPECIFICATION RuntimeSpec
CONSTANTS
    Key = {k1, k2}
    Event = {e1, e2, e3}
    Canceller = {x1, x2}
    QueueSize = 2
    NoEvent = NoEvent
CHECK_DEADLOCK FALSE
INVARIANTS OnlyBegunCancelled
PROPERTIES ImplementsSerialSpec
