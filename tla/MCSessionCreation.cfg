SPECIFICATION FairCreationSpec
CONSTANTS
    Sessions = {c, f, g}
    Forks = {f, g}
    Pids = {p, q}
    MaxPending = 2
    MaxFailures = 2
    MaxCrashes = 2
INVARIANTS EvidenceKept TreesAsRecorded
PROPERTIES InterruptedIsShown
CHECK_DEADLOCK FALSE
