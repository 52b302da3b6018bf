CONSTANTS
    SpoolSizes = {1, 3}
    MaxByteLimits = {4}
    EventSizes = {1, 2, 5}
    InputCap = 2
    OutputCap = 1
    NumEvents = 3
    MaxFlushes = 1
    MaxReloads = 1
    EnableShutdown = FALSE
SPECIFICATION Spec
CHECK_DEADLOCK FALSE
INVARIANT NothingSkipped
