SPECIFICATION MCSpec
CONSTANTS
    once = once  again = again
    Tasks = {once, again}
    Periodic = {again}
    WORK_WHEEL_SIZE = 3
    ASSISTANT_WHEEL_SIZE = 2
    NumThreads = 2
    NumCalls = 3
    QueueSize = 2
    None = None
CHECK_DEADLOCK FALSE
INVARIANTS
    WheelInv
    StopTakesHold
    PoolInv
PROPERTIES
    OnTime
    Fires
    QueuedIsRun
    NextCallRescues
