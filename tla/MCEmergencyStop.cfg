SPECIFICATION FairSpec
CONSTANTS
    Sessions = {a, b}
    RowsPerPass = 1
    MaxRounds = 3
    MaxRows = 2
    MaxFaults = 2
    MaxCrashes = 2
    MaxThreads = 2
INVARIANTS StopsRecorded CutOffThreadsReset
PROPERTIES ReplayedRightly Serves
CHECK_DEADLOCK FALSE
