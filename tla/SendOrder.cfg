SPECIFICATION Spec
CONSTANTS
    Orders = {"FIFO", "Priority", "Attribute", "Configured"}
    Priorities = {1, 2}
    MaxElements = 5
    ParallelFactors = {1, 2}
INVARIANT EachHeldOnce
INVARIANT StationsBusy
PROPERTY HighestFirst
CHECK_DEADLOCK FALSE
