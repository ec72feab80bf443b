SPECIFICATION Spec
CONSTANTS
    Objects = {o1, o2}
    Persistent = {o1}
    Nodes = {n1}
    Kinds = {"insert", "delete", "update", "query", "find", "lookup", "age"}
    MaxTasks = 2
    MaxAgedAtOnce = 1
INVARIANT WaitsForATask
CHECK_DEADLOCK FALSE
