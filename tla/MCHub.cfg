SPECIFICATION Spec
CONSTANTS
    Clients = {c1, c2}
    Names = {r1, r2}
    Slots = {1, 2, 3}
    ActivityCap = 1
    joinAttempts = 2
SYMMETRY HubSymmetry
CHECK_DEADLOCK FALSE
INVARIANTS
    TypeOK
    MembersRecorded
    SingleWriter
    EvictsItself
    NoOrphanRoom
    DeadRoomNoticed
