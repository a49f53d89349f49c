\* Two threads generate the same chunk.
CONSTANTS
    NBlocks = 2
    CHUNK = 2
    OverLimit = {}
    Peers = {p1}
    NThreads = 2
    qlimit_total = 2
    qlimit_diskonly = 2
    qlimit_generate = 2
    MaxSignals = 1
SPECIFICATION Spec
PROPERTY
    ChunkNotSentBefore
CHECK_DEADLOCK FALSE
