\* Clients of DiscoverFriendlies; values change at any time, also during the start.
SPECIFICATION FairSpec
CONSTANTS
    Client = {c1, c2}
    Service <- Legacy
    Payload = {"MST", "CST"}
    DevConf <- Confs
    MaxChanges = 2
INVARIANT ZoneNamed
PROPERTIES NeverOlder AllNotified StartsWhenReady
CHECK_DEADLOCK FALSE
