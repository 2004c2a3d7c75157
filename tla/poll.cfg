SPECIFICATION Spec
CONSTANTS
    Fd = {3, 4, 5}
    SzPoll = 2
    MaxAdd = 4
INVARIANTS
    TypeOK
    RoomKept
PROPERTIES
    ServesRounds
