CONSTANTS
    a = a
    b = b
    i1 = i1
    NoRequest = NoRequest
    Requests = {a, b}
    Control = {}
    Instances = {i1}
    ParallelFactor = 1
    MaxInstancesPerLink = 1
    MaxNames = 1
    MaxDowns = 0
SPECIFICATION Spec
PROPERTY WaitingServed
CHECK_DEADLOCK FALSE
