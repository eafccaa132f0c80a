\* Addresses that collide and addresses that do not; slot 3; an address that passes from one device to another; a device that is never taken off.
SPECIFICATION Spec
CONSTANTS
    MAX_ENTRIES = 8
    Dev = {1, 2, 3}
    NoDev = 0
    XG = {1, 3}
    Gateways = {1}
    Leases <- MixedLeases
    Macs <- MixedMacs
    ClientXcalServer = TRUE
    StackStat = {0, 3}
INVARIANTS TypeOK OneSlotPerAddress ListedAllowed OnlyListedAllowed
