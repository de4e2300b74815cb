SPECIFICATION FairSpec
CONSTANTS
    long = long
    alien = alien
    Images = {long}
    Size <- MCSize
    Shaped = {long}
    MaxChunks = 2
    HeaderSlot = 1
    Split = 2
    Records = {"r1", "r2"}
    Units = {5}
    Sessions = {0}
    QuietAfterGo = FALSE
    None = None
    Erased = Erased
    Torn = Torn
INVARIANTS
    UnsealedIsInvalid
    PersistFindsErased
PROPERTIES
    SealFinishes
    StartsAlone
