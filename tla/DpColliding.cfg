\* Addresses that collide.
SPECIFICATION Spec
CONSTANTS
    MAX_ENTRIES = 8
    Dev = {1, 2}
    NoDev = 0
    XG = {1}
    Gateways = {1}
    Leases <- CollidingLeases
    Macs <- TwoMacs
    ClientXcalServer = TRUE
    StackStat = {0, 3}
PROPERTY SuccessIsStored
