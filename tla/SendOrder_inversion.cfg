SPECIFICATION Spec
CONSTANTS
    Orders = {"AttributePriority"}
    Priorities = {1, 2}
    MaxElements = 5
    ParallelFactors = {1}
PROPERTY HighestFirst
CHECK_DEADLOCK FALSE
