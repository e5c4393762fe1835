SPECIFICATION Spec
CONSTANTS
    Clients = {c1, c2}
    Names = {r1}
    Slots = {1, 2, 3}
    ActivityCap = 1
    joinAttempts = 3
SYMMETRY HubSymmetry
CHECK_DEADLOCK FALSE
INVARIANTS
    RegistryKnowsWhere
