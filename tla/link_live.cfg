SPECIFICATION FairSpec
CONSTANTS
    c1 = c1
    Conn = {c1}
    NoConn = NoConn
    N = 3
    K = 1
    W = 1
    T1 = 1
    T2 = 1
    T3 = 1
    maxConn = 1
    Slave = {"srv"}
    AutoStart = {"cli"}
    KeepOutq = FALSE
    AckTimer = TRUE
    MaxPut = 2
    MaxReq = 1
    MaxDisc = 1
    MaxDial = 1
    MaxBind = 1
    MaxCut = 1
    MaxAll = 4
PROPERTIES
    MessageSettles
    NiceCloseEnds
CHECK_DEADLOCK FALSE
