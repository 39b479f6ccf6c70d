SPECIFICATION MCSpec
CONSTANTS
    A = A  B = B  a1 = a1  a2 = a2  b1 = b1
    s1 = s1  s2 = s2  s3 = s3  processP = processP  processQ = processQ  processR = processR
    Clients = {A, B}
    Callers = {a1, a2, b1}
    Services = {s1, s2, s3}
    Processes = {processP, processQ, processR}
    ClientOf <- MCClientOf
    ProcessOf <- MCProcessOf
    Setups <- UpToTwoServices
    MaxNumber = 2
    Depth = 1
    Nobody = Nobody
INVARIANTS
    AnswersInv
PROPERTIES
    Answered
    AllReturn
CHECK_DEADLOCK FALSE
