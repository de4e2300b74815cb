SPECIFICATION Spec
CONSTANTS
    long = long
    alien = alien
    Images = {long, alien}
    Size <- MCSize
    Shaped = {long}
    MaxChunks = 2
    HeaderSlot = 1
    Split = 2
    Records = {}
    Units = {5}
    Sessions = {0}
    QuietAfterGo = FALSE
    None = None
    Erased = Erased
    Torn = Torn
INVARIANT RunsWhole
