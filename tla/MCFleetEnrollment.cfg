SPECIFICATION FairSpec
CONSTANTS
    Machines = {m1}
    MaxMachines = 1
    MaxCodes = 2
    MaxFaults = 1
    MaxLosses = 1
    MaxCrashes = 1
INVARIANTS OneWorkingKey FleetIsTrue
PROPERTIES NeverResurrected Settles
CHECK_DEADLOCK FALSE
