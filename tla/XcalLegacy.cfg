\* Values change at any time, also during the start and while they are printed.
SPECIFICATION FairSpec
CONSTANTS
    Conf <- Confs
    Sys <- Values
    Zone = {"MST", "CST"}
    Garbage <- TwoStacks
INVARIANTS AvailableFollowsTuner SerialDescribed CurrentWhenQuiet ZoneNamed
PROPERTY StartsWhenReady
CHECK_DEADLOCK FALSE
