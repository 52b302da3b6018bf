CONSTANTS
    Servers = {s1, s2}
    Method = "loadbalance"
    EventChanCap = 3
    MaxFaults = 2
    MaxPendingPayloads = 1
    SpoolSizes = {2}
    FileLen = 2
    RegistrarChanCap = 1
    MaxCrashes = 0
    EnableShutdown = FALSE
SPECIFICATION Spec
SYMMETRY Symmetry
CHECK_DEADLOCK FALSE
INVARIANT AtLeastOnce
