SPECIFICATION FairSpec
CONSTANTS
    o1 = o1
    o2 = o2
    NoObject = none
    Objects <- MCObjects
    DataLen <- MCDataLen
    HeaderLen = 2
    BufferSize = 2
    MaxMetadata = 6
    Datagram = FALSE
    Redundancy = 0
    Periodic = TRUE
    MaxRetries = 0
    MaxJobs = 3
    MaxFaults = 2
INVARIANT Intact
PROPERTIES Implements SendEnds
CHECK_DEADLOCK FALSE
