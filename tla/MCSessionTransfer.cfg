SPECIFICATION FairSpec
CONSTANTS
    Machines = {a, b}
    Transfers = {t1, t2}
    Origin = a
    NoMachine = NoMachine
    NoTransfer = NoTransfer
    LateDelivery = FALSE
    MaxFaults = 3
INVARIANTS SingleOwner ExactlyOneHolder Consistent
PROPERTIES ImplementsOwnership CommittedCompletes WrongClaimStops
CHECK_DEADLOCK FALSE
