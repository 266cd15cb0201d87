SPECIFICATION FairLaneSpec
CONSTANTS
    Resources = {r1, r2}
    Exclusive = exclusive
    MaxTasks = 3
    MaxCancels = 1
INVARIANTS InOrder AccountedOnce DrainIsComplete
PROPERTIES EverythingSettles
CHECK_DEADLOCK FALSE
