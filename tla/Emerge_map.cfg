\* One thread, as num_emerge_threads is by default, and the map it generates.
CONSTANTS
    NBlocks = 4
    CHUNK = 2
    OverLimit = {}
    Peers = {p1}
    NThreads = 1
    qlimit_total = 2
    qlimit_diskonly = 2
    qlimit_generate = 2
    MaxSignals = 1
SPECIFICATION Spec
INVARIANTS
    TypeOK
    ChangesAnnounced
PROPERTIES
    ChunkNotSentBefore
    OnlyBordersLoseEdits
CHECK_DEADLOCK FALSE
