SPECIFICATION FairSpec
CONSTANTS
    Procs = {p, q}
    MaxOps = 3
    MaxCmds = 2
    MaxFaults = 2
INVARIANTS ClaimGuards
PROPERTIES LeaseReturns
CHECK_DEADLOCK FALSE
