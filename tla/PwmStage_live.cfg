SPECIFICATION FairSpec
CONSTANTS
    x = x
    y = y
    Legs = 2
    Duties = {x, y}
    Drive = Drive
    Zero = Zero
    None = None
    MaxPeriods = 3
    Pace = 4
    Ops = {"all", "fine", "alternate", "enable", "rearm", "disable", "mode"}
    Breaks = FALSE
INVARIANT HoldBounded
PROPERTIES
    LetsGo
    DriveLands
