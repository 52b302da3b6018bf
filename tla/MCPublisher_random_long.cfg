CONSTANTS
    Servers = {s1, s2}
    Method = "random"
    EventChanCap = 3
    MaxFaults = 2
    MaxPendingPayloads = 2
    SpoolSizes = {1, 2}
    FileLen = 3
    RegistrarChanCap = 1
    MaxCrashes = 1
    EnableShutdown = TRUE
SPECIFICATION Spec
SYMMETRY Symmetry
CHECK_DEADLOCK FALSE
INVARIANT TypeOK AcksInOrder PayloadsConserved PayloadLimit ReadyAreActive SequencesMatch AtLeastOnce PendingWatched
PROPERTY KeepsPromise
