\* Edits, turns, moves, unloads and generation, any two of them, in any order.
\* Block 1 is straight above the player, block 2 beyond the map, block 3 far.
CONSTANTS
    MaxDist = 3
    GenDist = 1
    DIncrement = 2
    NearD = 1
    FarD = 3
    MaxSending = 1
    EmergeLimit = 1
    RestartAfter = 2
    Contention = FALSE
    OnDisk = {0, 3}
    OverLimit = {2}
    Above = {1}
    Ground = {3}
    EditKinds = {"near", "far"}
    MaxEdits = 2
    MaxUnloads = 1
    MaxMoves = 1
    MaxEvents = 2
SPECIFICATION FairSpec
INVARIANTS
    TypeOK
    Throttled
    SendingOnItsWay
    SentUnlessCrossed
PROPERTY
    BlocksConverge
CHECK_DEADLOCK FALSE
