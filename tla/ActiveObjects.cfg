\* Two objects in two blocks, known to one client: they move, are added, killed,
\* saved, unloaded and survive restarts and crashes.
CONSTANTS
    Objects = {o1, o2}
    LastBlock = 1
    Clients = {c1}
    OnDisk = {0}
    MaxId = 2
    max_objects_per_block = 1
    MaxEvents = 2
SPECIFICATION Spec
INVARIANTS
    TypeOK
    OneHome
    ActivesMatch
    LiveOnce
    UnmodifiedIsSaved
    KnownIdsAreKept
    RemovedStaysRemoved
CHECK_DEADLOCK FALSE
