SPECIFICATION ESpec
CONSTANTS
    c1 = c1
    Conn = {c1}
    NoConn = NoConn
    N = 2
    K = 1
    W = 1
    T1 = 1
    T2 = 1
    T3 = 1
    maxConn = 0
    Slave = {"srv"}
    AutoStart = {"cli"}
    KeepOutq = TRUE
    AckTimer = FALSE
    MaxPut = 2
    MaxReq = 1
    MaxDisc = 1
    MaxDial = 2
    MaxBind = 1
    MaxCut = 1
    MaxAll = 3
INVARIANTS
    ETypeOK
    WriteArmed
    NoIdleWrite
    WaitAckExact
    Addressed
PROPERTIES
    XlapSpec
CHECK_DEADLOCK FALSE
