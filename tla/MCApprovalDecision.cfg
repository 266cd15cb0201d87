SPECIFICATION Spec
CONSTANTS
    Requests = {1, 2}
    Turnless = {2}
    MaxStops = 1
    MaxFaults = 1
    MaxDecisions = 2
    FailureThreshold = 1
INVARIANTS SavedFirst RecordsAreTrue
PROPERTIES AllowGuarded
CHECK_DEADLOCK FALSE
