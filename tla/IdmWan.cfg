\* The WAN comes and goes while the thread starts.
SPECIFICATION FairSpec
CONSTANTS
    MaxChanges = 6
PROPERTIES FullOnceUp FullStays
CHECK_DEADLOCK FALSE
