SPECIFICATION Spec
CONSTANTS
    MaxRequests = 1
    MaxIncoming = 0
    MaxPeerChanges = 1
    MaxShutdowns = 0
    ConnectionAttempts = 1
    MaxProtocolErrors = 1
    MaxSendTimeouts = 1
INVARIANT NothingLost
CHECK_DEADLOCK FALSE
