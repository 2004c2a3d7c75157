SPECIFICATION PromptSpec
CONSTANTS
    c1 = c1
    Conn = {c1}
    NoConn = NoConn
    N = 3
    K = 2
    W = 2
    T1 = 4
    T2 = 1
    T3 = 2
    maxConn = 0
    Slave = {"srv"}
    AutoStart = {"cli"}
    KeepOutq = FALSE
    AckTimer = TRUE
    MaxPut = 4
    MaxReq = 3
    MaxDisc = 0
    MaxDial = 1
    MaxBind = 0
    MaxCut = 0
    MaxAll = 6
INVARIANTS
    StartAgreement
PROPERTIES
    HealthyLink
CHECK_DEADLOCK FALSE
