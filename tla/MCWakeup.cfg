SPECIFICATION FairSpec
CONSTANTS
    p1 = p1
    p2 = p2
    r1 = r1
    r2 = r2
    c1 = c1
    s1 = s1
    s2 = s2
    None = None
    Processors = {p1, p2}
    Routines = {r1, r2}
    Senders = {s1, s2}
    Contexts = {c1}
    ReadersOf <- MCReadersOf
    Layouts <- MCLayouts
    Sleepers = {r1}
    MaxSends = 1
INVARIANTS
    ExclusiveRun
    NoLostWakeup
    IdleMeansNoWork
PROPERTIES
    Consumed
    Started
