SPECIFICATION MCSpec
CONSTANTS
    Threads = {t1, t2, t3}
    WriteFirst = TRUE
    NumCalls = 4
    NumCallers = 2
    NumThreads = 2
    Producers = {1, 2, 3, 4}
    Consumers = {1, 2}
    QueueSize = 2
    Strategies = {"block", "sleep"}
    None = None
CHECK_DEADLOCK FALSE
INVARIANTS
    LockInv
    QueueInv
PROPERTIES
    ImplementsRWLock
    WriterAdmitted
    RefusedOnlyIfFullOrOvertaken
    ElementsAreTaken
    ImplementsFifo
