SPECIFICATION Spec
CONSTANTS
    o1 = o1
    o2 = o2
    NoObject = none
    Objects <- MCObjects
    DataLen <- MCDataLen
    HeaderLen = 2
    BufferSize = 2
    MaxMetadata = 6
    Datagram = TRUE
    Redundancy = 0
    Periodic = TRUE
    MaxRetries = 1
    MaxJobs = 2
    MaxFaults = 1
INVARIANTS FilterAccounted Remembered
PROPERTY Implements
CHECK_DEADLOCK FALSE
