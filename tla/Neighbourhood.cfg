CONSTANTS
    x = x
    y = y
    ThirdParty = ThirdParty
    Ifaces = {x, y}
    Known = 1
    Times = {2}
    MaxAdds = 2
    MaxObjects = 2
    MaxNodes = 5
    MaxReceived = 1
SYMMETRY Symmetry
SPECIFICATION Spec
INVARIANT OneRecord
INVARIANT NeighboursAgree
INVARIANT ContactsTold
CHECK_DEADLOCK FALSE
