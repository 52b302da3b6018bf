CONSTANTS
    Servers = {s1, s2}
    Method = "random"
    EventChanCap = 3
    MaxFaults = 3
    MaxPendingPayloads = 2
    SpoolSizes = {1, 2}
    FileLen = 2
    RegistrarChanCap = 1
    MaxCrashes = 1
    EnableShutdown = TRUE
SPECIFICATION FairSpec
CHECK_DEADLOCK FALSE
INVARIANT TypeOK SequencesMatch PendingWatched
PROPERTY KeepsPromise Delivery ShutdownCompletes
