SPECIFICATION FairSpec
CONSTANTS
    c1 = c1
    Conn = {c1}
    NoConn = NoConn
    N = 2
    K = 1
    W = 1
    T1 = 2
    T2 = 1
    T3 = 3
    maxConn = 1
    Slave = {"srv"}
    AutoStart = {"cli"}
    KeepOutq = FALSE
    AckTimer = TRUE
    MaxPut = 0
    MaxReq = 0
    MaxDisc = 0
    MaxDial = 1
    MaxBind = 0
    MaxCut = 1
    MaxAll = 2
PROPERTIES
    DeadPeerNoticed
CHECK_DEADLOCK FALSE
