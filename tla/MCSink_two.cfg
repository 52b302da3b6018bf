CONSTANTS
    s1 = s1
    s2 = s2
    s3 = s3
    Elements = {s1, s2}
    Configs <- TwoServers
    Initial <- TwoServers
    QueueCap = 1
    Unreachable = {}
    MaxFaults = 3
    MaxReloads = 0
SPECIFICATION FairSpec
CHECK_DEADLOCK FALSE
INVARIANT TypeOK RingIntact PositionFollows
PROPERTY Serves 
