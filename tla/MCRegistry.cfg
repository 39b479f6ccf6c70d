SPECIFICATION FairSpec
CONSTANTS
    None = None
    Main = Main
    Threads = {t1}
    Processors = {p1, p2}
    Instances = {c1, c2}
    Ids = {a, b}
CHECK_DEADLOCK FALSE
INVARIANTS
    RegistryInv
    GoneForGood
PROPERTIES
    CallsComplete
