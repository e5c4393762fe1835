SPECIFICATION Spec
CONSTANTS
    MaxText = 1
    MaxImageBytes = 0
    MaxBackfill = 3
    Buffer = 2
    MaxSeq = 4
    MaxFaults = 0
CHECK_DEADLOCK FALSE
INVARIANTS
    NothingMissed
