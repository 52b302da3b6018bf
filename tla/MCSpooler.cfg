CONSTANTS
    SpoolSizes = {1, 3}
    MaxByteLimits = {3, 4}
    EventSizes = {1, 2, 5}
    InputCap = 2
    OutputCap = 1
    NumEvents = 4
    MaxFlushes = 1
    MaxReloads = 1
    EnableShutdown = TRUE
SPECIFICATION FairSpec
CHECK_DEADLOCK FALSE
INVARIANT SpoolsInOrder BytesLimited SendsAll
PROPERTY AllDelivered
