CONSTANTS
    s1 = s1
    s2 = s2
    s3 = s3
    Elements = {s1, s2}
    Configs <- TwoServers
    Initial <- TwoServers
    QueueCap = 1
    Unreachable = {s1}
    MaxFaults = 0
    MaxReloads = 1
SPECIFICATION FairSpec
CHECK_DEADLOCK FALSE
PROPERTY FailsOver
