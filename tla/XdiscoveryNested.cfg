\* Main loops nest (GUPnP before 1.2); legacy devices; only the main thread runs callbacks.
SPECIFICATION IarmSpec
CONSTANTS
    Dev = {1, 2}
    Self = 1
    Gateways = {2}
    RefCp <- LegacyCp
    Val = {0, 1}
    rfc_enabled = FALSE
    ClientXcalServer = FALSE
    Broadband = TRUE
    Reentrant = TRUE
    MayFail = TRUE
    MaxDepth = 3
    MaxEvents = 6
    SelfFailLimit = 2
    TextLength <- Bytes
    MaxBus = 1
INVARIANTS AddCountExact PublishedWhenQuiet ReaderCurrent OnlyZeroPast
PROPERTIES SelfStaysPublished ImplementsDirectory
