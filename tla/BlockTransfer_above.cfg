\* All blocks exist, one is straight above the player, at a height of half the
\* distance that blocks are sent to, and nothing happens.
CONSTANTS
    MaxDist = 4
    GenDist = 0
    DIncrement = 2
    NearD = 1
    FarD = 4
    MaxSending = 2
    EmergeLimit = 2
    RestartAfter = 2
    Contention = FALSE
    OnDisk = {0, 1, 2, 3, 4}
    OverLimit = {}
    Above = {2}
    Ground = {4}
    EditKinds = {"near", "far"}
    MaxEdits = 0
    MaxUnloads = 0
    MaxMoves = 0
    MaxEvents = 0
SPECIFICATION FairSpec
PROPERTY
    UpperBlocksConverge
CHECK_DEADLOCK FALSE
