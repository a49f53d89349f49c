\* A block changes while a copy of it, or its GOTBLOCKS, is under way.
CONSTANTS
    MaxDist = 0
    GenDist = 0
    DIncrement = 2
    NearD = 1
    FarD = 4
    MaxSending = 1
    EmergeLimit = 1
    RestartAfter = 1
    Contention = TRUE
    OnDisk = {0}
    OverLimit = {}
    Above = {}
    Ground = {}
    EditKinds = {"near", "far"}
    MaxEdits = 1
    MaxUnloads = 0
    MaxMoves = 0
    MaxEvents = 1
SPECIFICATION Spec
INVARIANT
    SentNeedNotBeResent
CHECK_DEADLOCK FALSE
