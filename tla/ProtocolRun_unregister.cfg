SPECIFICATION Spec
CONSTANTS
    MaxRequests = 1
    MaxIncoming = 0
    MaxPeerChanges = 0
    MaxShutdowns = 1
    ConnectionAttempts = 1
    MaxProtocolErrors = 1
    MaxSendTimeouts = 1
INVARIANT DeletedOnce
CHECK_DEADLOCK FALSE
