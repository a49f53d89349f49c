\* Two games join and leave, and their ids are given again.
CONSTANTS
    Addresses = {a, b}
    LastId = 3
    MaxJoins = 2
    MaxData = 1
SPECIFICATION FairSpec
INVARIANTS
    ClientsFollowPeers
    AddedIsNew
    DataIsFromItsClient
PROPERTY
    GoneIsForgotten
CHECK_DEADLOCK FALSE
