SPECIFICATION FairSpec
CONSTANTS
    o1 = o1
    o2 = o2
    NoObject = none
    Objects <- MCObjects
    DataLen <- MCDataLen
    HeaderLen = 2
    BufferSize = 2
    MaxMetadata = 6
    Datagram = TRUE
    Redundancy = 0
    Periodic = FALSE
    MaxRetries = 1
    MaxJobs = 2
    MaxFaults = 1
INVARIANTS FilterAccounted Remembered
PROPERTIES Implements SendEnds FilterSettles
CHECK_DEADLOCK FALSE
