SPECIFICATION Spec
CONSTANTS
    Buffer = 2
    MaxFrames = 4
CHECK_DEADLOCK FALSE
INVARIANTS
    TypeOK
    NothingLostAlive
PROPERTIES
    SlowConsumerClosed
    PumpsEnd
