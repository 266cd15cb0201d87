SPECIFICATION FairSpec
CONSTANTS
    Messages = {m1, m2}
    None = None
    MaxThreads = 2
    MaxFaults = 2
    MaxStops = 1
INVARIANTS NeverTwice QueueIsTrue TurnsAreTracked
PROPERTIES LaneFrees
CHECK_DEADLOCK FALSE
