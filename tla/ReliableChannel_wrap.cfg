\* The channel across the wrap of its sequence number.
CONSTANTS
    SEQNUM_MAX = 5
    SEQNUM_INITIAL = 4
    WINDOW = 2
    MaxPackets = 3
    MaxSends = 3
    MaxPings = 1
SPECIFICATION FairSpec
INVARIANTS
    TypeOK
    InOrder
    WindowRespected
    AckedIsKept
PROPERTIES
    Refinement
    DeliveredUnlessLost
CHECK_DEADLOCK FALSE
