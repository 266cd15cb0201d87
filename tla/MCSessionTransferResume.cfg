SPECIFICATION FairSpec
CONSTANTS
    Machines = {a, b}
    Transfers = {t1}
    Origin = a
    NoMachine = NoMachine
    NoTransfer = NoTransfer
    LateDelivery = FALSE
    MaxFaults = 1
PROPERTIES
    StagedResumes
CHECK_DEADLOCK FALSE
