\* Servers are added while a client lists and browses them.
SPECIFICATION Spec
CONSTANTS
    Udn = {u1, u2, u3}
    NoUdn = NoUdn
    MaxCalls = 2
SYMMETRY UdnSymmetry
INVARIANTS Enumerable
CHECK_DEADLOCK FALSE
