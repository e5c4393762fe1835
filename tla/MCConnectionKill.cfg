SPECIFICATION Spec
CONSTANTS
    Buffer = 2
    MaxFrames = 4
CHECK_DEADLOCK FALSE
PROPERTIES
    KillClosesSocket
