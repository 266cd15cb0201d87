SPECIFICATION Spec
CONSTANTS
    Machines = {a, b}
    Transfers = {t1, t2}
    Origin = a
    NoMachine = NoMachine
    NoTransfer = NoTransfer
    LateDelivery = TRUE
    MaxFaults = 4
SYMMETRY TransferSymmetry
PROPERTIES ConflictNotForgotten ArrivalNeverOverwrites
CHECK_DEADLOCK FALSE
