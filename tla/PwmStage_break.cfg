SPECIFICATION Spec
CONSTANTS
    x = x
    y = y
    Legs = 2
    Duties = {x, y}
    Drive = Drive
    Zero = Zero
    None = None
    MaxPeriods = 0
    Pace = 4
    Ops = {"all", "alternate", "enable", "clear"}
    Breaks = TRUE
INVARIANT ArmsAtZero
