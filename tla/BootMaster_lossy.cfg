SPECIFICATION FairSpec
CONSTANTS
    A = A
    B = B
    None = None
    Old = Old
    Bits = 2
    Uids <- MCUids
    Types <- MCTypes
    Board <- MCBoard
    Size <- MCSize
    Tables <- MCTables
    Rounds = 2
    Sessions = {1, 2}
    Persist = TRUE
    Hosts = {"segment", "solo"}
    Lossy = TRUE
    MaxTrouble = 1
INVARIANTS
    TypeOK
    SealedWhole
    SearchFindsAll
    GoneUnlessDeaf
    OneTypeRepairs
PROPERTIES
    RunEnds
CHECK_DEADLOCK FALSE
