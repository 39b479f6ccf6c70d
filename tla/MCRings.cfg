SPECIFICATION MCSpec
CONSTANTS
    Writers = {w1, w2}
    Listeners = {l1}
    BufLength = 2
    MaxSeq = 5
    NoInfo = NoInfo
    Torn = Torn
    Dispatchers = {d1, d2}
    FusedChoices = {TRUE, FALSE}
    QueueSizes = {0, 1, 2}
    MaxMessages = 5
    None = None
CHECK_DEADLOCK FALSE
INVARIANTS
    NotifierInv
    BufferInv
    FusedInOrder
PROPERTIES
    SkipsOnlyWhenLapped
    MovesOn
    SkipsOnlyWhenOverrun
    ImplementsLossyChannel
