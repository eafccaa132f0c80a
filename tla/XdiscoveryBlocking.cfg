\* Requests block (GUPnP 1.2); a refactored gateway and a renderer; the self-discovery watchdog.
SPECIFICATION FairSpec
CONSTANTS
    Dev = {1, 2, 3}
    Self = 1
    Gateways = {2}
    RefCp <- RefactoredCp
    Val = {0, 1}
    rfc_enabled = TRUE
    ClientXcalServer = FALSE
    Broadband = FALSE
    Reentrant = FALSE
    MayFail = FALSE
    MaxDepth = 1
    MaxEvents = 5
    SelfFailLimit = 2
INVARIANT TypeOK
PROPERTIES RescansForever DeadRemoved SelfFoundOrRestarted
