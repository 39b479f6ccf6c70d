SPECIFICATION FairSpec
CONSTANTS
    Writers = {w1, w2}
    Readers = {r1, r2}
    Sizes = {1, 2}
    Messages = {1, 2}
    BlockNum <- TwoThenOne
    kMaxTryLockTimes = 2
    MaxSegments = 2
    MaxWrites = 2
CHECK_DEADLOCK FALSE
INVARIANTS
    SegmentInv
    ReadsCompleteMessages
    NobodyLeftBehind
PROPERTIES
    WriterFindsBlock
