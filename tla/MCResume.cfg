SPECIFICATION Spec
CONSTANTS
    MaxText = 1
    MaxImageBytes = 0
    MaxBackfill = 2
    Buffer = 3
    MaxSeq = 3
    MaxFaults = 1
CHECK_DEADLOCK FALSE
INVARIANTS
    TypeOK
    ResumeComplete
PROPERTIES
    CatchesUp
