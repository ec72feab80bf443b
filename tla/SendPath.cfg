CONSTANTS
    a = a
    b = b
    c = c
    i1 = i1
    NoRequest = NoRequest
    Requests = {a, b, c}
    Control = {c}
    Instances = {i1}
    ParallelFactor = 1
    MaxInstancesPerLink = 1
    MaxNames = 2
    MaxDowns = 1
SPECIFICATION Spec
INVARIANT StationAccounted
INVARIANT NoIdleStation
INVARIANT OneVerdict
PROPERTY WaitingEnds
CHECK_DEADLOCK FALSE
