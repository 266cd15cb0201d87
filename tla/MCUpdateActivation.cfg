SPECIFICATION FairSpec
CONSTANTS
    Coordinators = {c1, c2}
    Runtimes = {r1, r2}
    Initial = r1
    None = none
    MaxRuns = 3
    MaxFaults = 1
INVARIANTS DecisionIsSound StartedOnce
PROPERTIES UnfinishedNotOverwritten RunsSettle
CHECK_DEADLOCK FALSE
