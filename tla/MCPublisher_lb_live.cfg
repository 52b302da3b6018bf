CONSTANTS
    Servers = {s1, s2}
    Method = "loadbalance"
    EventChanCap = 3
    MaxFaults = 1
    MaxPendingPayloads = 1
    SpoolSizes = {1}
    FileLen = 1
    RegistrarChanCap = 1
    MaxCrashes = 0
    EnableShutdown = FALSE
SPECIFICATION FairSpec
CHECK_DEADLOCK FALSE
PROPERTY Delivery
