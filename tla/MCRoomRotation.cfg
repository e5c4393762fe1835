SPECIFICATION Spec
CONSTANTS
    MaxText = 2
    MaxImageBytes = 3
    MaxBackfill = 0
    Keys = {k1, k2}
    MaxTextBytes = 1
    ImageMaxBytes = 2
    MaxPayload = 2
    FrameMimes = {"none", "short"}
    MaxLines = 3
SYMMETRY KeySymmetry
INVARIANTS
    OldMessagesVerify
