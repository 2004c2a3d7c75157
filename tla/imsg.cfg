SPECIFICATION FairSpec
CONSTANTS
    Msg = {m1, m2}
    NoMsg = NoMsg
    Thread = {t1, t2}
    To = {a, b}
    Calls <- MixedCalls
    Delta = {2}
    Second = 3
    Anticip = 1
    MaxNow = 3
    MaxRemove = 1
    MaxCancel = 1
    NbMax = 2
INVARIANTS
    TypeOK
    Linked
    Counted
    NotEarly
    NoLostWakeup
PROPERTIES
    Fifo
    Served
