\* A server leaves, and the lock stays taken.
SPECIFICATION FairSpec
CONSTANTS
    Udn = {u1, u2}
    NoUdn = NoUdn
    MaxCalls = 1
PROPERTY MethodReturns
CHECK_DEADLOCK FALSE
