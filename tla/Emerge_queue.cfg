\* The queue with two threads and two peers, up to the shutdown.
CONSTANTS
    NBlocks = 3
    CHUNK = 1
    OverLimit = {0, 2}
    Peers = {p1, p2}
    NThreads = 2
    qlimit_total = 3
    qlimit_diskonly = 2
    qlimit_generate = 1
    MaxSignals = 1
SPECIFICATION FairSpec
INVARIANTS
    QueuesInSync
    PeerCountsExact
    NoLostWakeup
PROPERTIES
    EveryBlockPopped
    ShutdownCompletes
CHECK_DEADLOCK FALSE
