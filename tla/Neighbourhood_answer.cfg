CONSTANTS
    x = x
    y = y
    ThirdParty = ThirdParty
    Ifaces = {x, y}
    Known = 1
    Times = {2}
    MaxAdds = 2
    MaxObjects = 2
    MaxNodes = 5
    MaxReceived = 1
SPECIFICATION Spec
PROPERTY BestInformation
CHECK_DEADLOCK FALSE
