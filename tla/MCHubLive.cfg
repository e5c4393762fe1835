SPECIFICATION FairSpec
CONSTANTS
    Clients = {c1, c2}
    Names = {r1}
    Slots = {1, 2}
    ActivityCap = 1
    joinAttempts = 2
CHECK_DEADLOCK FALSE
PROPERTIES
    SessionsProgress
    ShutdownCompletes
