\* Three blocks in a row, changed, unloaded and received in any order.
CONSTANTS
    NBlocks = 3
    MaxChanges = 4
    MaxUnloads = 1
SPECIFICATION FairSpec
INVARIANTS
    UrgentsAreQueued
    OwedIsPending
    IdleMeshIsCurrent
PROPERTY
    EveryTaskIsMade
CHECK_DEADLOCK FALSE
