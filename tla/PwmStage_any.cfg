SPECIFICATION Spec
CONSTANTS
    x = x
    y = y
    Legs = 1
    Duties = {x, y}
    Drive = Drive
    Zero = Zero
    None = None
    MaxPeriods = 1
    Pace = 4
    Ops = {"all", "fine", "alternate", "enable", "disable", "drop", "deadtime", "mode", "sync", "clear"}
    Breaks = TRUE
INVARIANTS
    TypeOK
    DirectAgrees
    LandedByUpdate
    OneWriter
PROPERTY ClosesOnDrive
SYMMETRY AnyTriple
