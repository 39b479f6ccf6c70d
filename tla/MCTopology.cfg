SPECIFICATION FairSpec
CONSTANTS
    w1 = w1  r1 = r1  r2 = r2  proc1 = proc1  proc2 = proc2  proc3 = proc3
    Writers = {w1}
    Readers = {r1, r2}
    Procs = {proc1, proc2, proc3}
    Layouts <- MCLayouts
INVARIANTS
    TopologyInv
    QuietMeansConnected
PROPERTIES
    StopsSending
    DeadForgotten
CHECK_DEADLOCK FALSE
