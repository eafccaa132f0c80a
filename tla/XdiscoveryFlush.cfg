\* CLIENT_XCAL_SERVER: verify_devices flushes the BasicDevice browser while the main loop runs; requests
\* nest. A count that stays above 0 stops verify_devices, and the run is over after MaxEvents events.
SPECIFICATION Spec
CONSTANTS
    Dev = {1, 2}
    Self = 2
    Gateways = {1}
    RefCp <- RefactoredCp
    Val = {0, 1}
    rfc_enabled = TRUE
    ClientXcalServer = TRUE
    Broadband = TRUE
    Reentrant = TRUE
    MayFail = TRUE
    MaxDepth = 2
    MaxEvents = 7
    SelfFailLimit = 2
INVARIANTS SortedUnique AddCountCovers
CHECK_DEADLOCK FALSE
