SPECIFICATION FairSpec
CONSTANTS
    MaxRequests = 3
    MaxIncoming = 1
    MaxPeerChanges = 1
    MaxShutdowns = 2
    ConnectionAttempts = 2
    MaxProtocolErrors = 1
    MaxSendTimeouts = 1
INVARIANTS OnePlace InOrder AccountedFor AtMostOneLostByStop NoRunAfterDelete
PROPERTIES VerdictFinal EventuallyReported EventuallyDeleted
CHECK_DEADLOCK FALSE
