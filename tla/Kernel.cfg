CONSTANTS
    node = node
    c1 = c1
    s1 = s1
    k1 = k1
    a1 = a1
    Plain = {node}
    Clients = {c1}
    Servers = {s1}
    Spawned = {k1}
    Apps = {a1}
SPECIFICATION Spec
INVARIANT NothingLeftRunning
INVARIANT ReadyMeansQuiet
INVARIANT ShutdownNotStuck
CHECK_DEADLOCK FALSE
