SPECIFICATION Spec
CONSTANTS
    Bytes = 6
    Fields = {1, 3}
    Overhead = 1
    Accumulates = {0, 2}
    Counts = {0, 2}
    Clocks = {"tim1", "software"}
    Designs <- MCDesigns
    Ladder = 2
    MaxAdditions = 2
    ClimbAt = 6
    FallAt = 3
    Eighths = 8
    ClimbMax = 512
    FallAfter = 2
    Refused = {0}
    Wants = {2}
    MaxRecords = 3
    Habits = {"powered", "heeds"}
INVARIANTS
    TypeOK
    LeavesOutAtTop
PROPERTY
    IsQueue
