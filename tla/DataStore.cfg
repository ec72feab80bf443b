SPECIFICATION FairSpec
CONSTANTS
    Objects = {o1, o2}
    Persistent = {o1}
    Nodes = {n1}
    Kinds = {"insert", "delete", "update", "query", "find", "lookup", "age"}
    MaxTasks = 4
    MaxAgedAtOnce = 1
INVARIANTS SavedIsFinal Drained
PROPERTIES MostUrgentFirst Implements EventuallyDone StopReturns
CHECK_DEADLOCK FALSE
