SPECIFICATION WSpec
CONSTANTS
    Fd = {0, 1, 2}
    Addr = {a1, a2, a3}
    NoAddr = NoAddr
    SzPoll = 2
    MaxEvents = 3
    MaxAdd = 5
    Per = 1
    UIntMax = 5
SYMMETRY Symmetry
INVARIANTS
    OwnEvent
