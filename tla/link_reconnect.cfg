SPECIFICATION Spec
CONSTANTS
    c1 = c1
    c2 = c2
    Conn = {c1, c2}
    NoConn = NoConn
    N = 3
    K = 2
    W = 1
    T1 = 1
    T2 = 1
    T3 = 1
    maxConn = 1
    Slave = {"srv"}
    AutoStart = {"cli"}
    KeepOutq = TRUE
    AckTimer = TRUE
    MaxPut = 2
    MaxReq = 0
    MaxDisc = 0
    MaxDial = 2
    MaxBind = 0
    MaxCut = 1
    MaxAll = 5
SYMMETRY Symmetry
INVARIANTS
    Accounted
    AckedWasSeen
    CnxCount
    NoSeqError
PROPERTIES
    KeepsPromise
CHECK_DEADLOCK FALSE
