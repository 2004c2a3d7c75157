SPECIFICATION Spec
CONSTANTS
    c1 = c1
    Conn = {c1}
    NoConn = NoConn
    N = 3
    K = 2
    W = 2
    T1 = 1
    T2 = 1
    T3 = 1
    maxConn = 0
    Slave = {"srv"}
    AutoStart = {"cli"}
    KeepOutq = FALSE
    AckTimer = TRUE
    MaxPut = 4
    MaxReq = 1
    MaxDisc = 0
    MaxDial = 1
    MaxBind = 0
    MaxCut = 0
    MaxAll = 5
INVARIANTS
    TypeOK
    SendWindow
    AckDebt
    NoSeqError
    InOrderDelivery
    AckComing
    OKNRIsWalk
    StartAgreement
PROPERTIES
    StopConfirmed
CHECK_DEADLOCK FALSE
