SPECIFICATION Spec
CONSTANTS
    o1 = o1
    o2 = o2
    NoObject = none
    Objects <- MCObjects
    DataLen <- MCDataLen
    HeaderLen = 1
    BufferSize = 3
    MaxMetadata = 6
    Datagram = TRUE
    Redundancy = 1
    Periodic = FALSE
    MaxRetries = 0
    MaxJobs = 1
    MaxFaults = 0
INVARIANT Intact
CHECK_DEADLOCK FALSE
