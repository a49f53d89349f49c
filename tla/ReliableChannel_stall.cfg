\* The same channel across the wrap: a payload is never delivered.
CONSTANTS
    SEQNUM_MAX = 4
    SEQNUM_INITIAL = 4
    WINDOW = 2
    MaxPackets = 3
    MaxSends = 2
    MaxPings = 1
SPECIFICATION FairSpec
PROPERTY
    AllDelivered
CHECK_DEADLOCK FALSE
