SPECIFICATION FairSpec
CONSTANTS
    NumCalls = 1
    NumCallers = 1
    NumThreads = 2
    Producers = {1}
    Consumers = {1, 2}
    QueueSize = 1
    Strategies = {"block"}
    None = None
CHECK_DEADLOCK FALSE
PROPERTIES
    DestructorReturns
