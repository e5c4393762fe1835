SPECIFICATION Spec
CONSTANTS
    MaxText = 2
    MaxImageBytes = 3
    MaxBackfill = 2
    Keys = {k1, k2}
    MaxTextBytes = 1
    ImageMaxBytes = 2
    MaxPayload = 2
    FrameMimes = {"none", "short"}
    MaxLines = 4
SYMMETRY KeySymmetry
INVARIANTS
    TypeOK
    ArchiveDense
    CounterMatchesArchive
    BroadcastDurable
    RingInArchive
    OneMarkerPerTarget
    Reopens
    ResponseComplete
    ServedAuthentic
    GapsExplained
    ShushHolds
PROPERTIES
    BroadcastMonotonic
    ImplementsLedger
