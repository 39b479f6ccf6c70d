SPECIFICATION Spec
CONSTANTS
    Writers = {w1}
    Readers = {r1}
    Sizes = {1, 2}
    Messages = {1, 2}
    BlockNum <- TwoThenOne
    kMaxTryLockTimes = 2
    MaxSegments = 2
    MaxWrites = 3
CHECK_DEADLOCK FALSE
INVARIANT IndexInRange
