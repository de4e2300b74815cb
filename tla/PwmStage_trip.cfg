SPECIFICATION Spec
CONSTANTS
    x = x
    y = y
    Legs = 1
    Duties = {x}
    Drive = Drive
    Zero = Zero
    None = None
    MaxPeriods = 0
    Pace = 4
    Ops = {"enable", "deadtime", "mode"}
    Breaks = FALSE
INVARIANT TripHolds
