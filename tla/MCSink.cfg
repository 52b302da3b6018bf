CONSTANTS
    s1 = s1
    s2 = s2
    s3 = s3
    Elements = {s1, s2, s3}
    Configs <- Mixed
    Initial <- Mixed
    QueueCap = 1
    Unreachable = {}
    MaxFaults = 2
    MaxReloads = 1
SPECIFICATION FairSpec
CHECK_DEADLOCK FALSE
INVARIANT RingIntact PositionFollows NextExists
PROPERTY Serves ShutdownEnds
