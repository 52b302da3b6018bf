CONSTANTS
    Servers = {s1, s2}
    Method = "loadbalance"
    EventChanCap = 3
    MaxFaults = 1
    MaxPendingPayloads = 2
    SpoolSizes = {1, 2}
    FileLen = 3
    RegistrarChanCap = 1
    MaxCrashes = 0
    EnableShutdown = FALSE
SPECIFICATION Spec
SYMMETRY Symmetry
CHECK_DEADLOCK FALSE
INVARIANT AcksInOrder PayloadsConserved PayloadLimit ReadyAreActive
