CONSTANTS
    SpoolSizes = {3}
    MaxByteLimits = {3, 6}
    EventSizes = {2}
    InputCap = 1
    OutputCap = 1
    NumEvents = 3
    MaxFlushes = 0
    MaxReloads = 1
    EnableShutdown = FALSE
SPECIFICATION Spec
CHECK_DEADLOCK FALSE
INVARIANT BytesInForce
