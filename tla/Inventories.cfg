\* One slot of the player, two of a chest and one of another; a stack holds
\* two, so a move fits whole, in part or not at all. The player acts twice, a
\* script or another player once, at any time.
CONSTANTS
    Items = {"stone", "brick"}
    Ingredient = "stone"
    Product = "brick"
    stack_max = 2
    MainSize = 1
    ChestSize = 2
    OtherSize = 1
    FullMain = 1
    FullChest = 1
    MaxActions = 2
    MaxEvents = 1
    Given = {"brick"}
SPECIFICATION Spec
INVARIANTS
    TypeOK
    ItemsKept
    RollbackRestores
    CopyIsCurrent
PROPERTY LimitsRespected
CHECK_DEADLOCK FALSE
