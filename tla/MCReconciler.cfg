SPECIFICATION FairSpec
CONSTANTS
    s1 = s1
    s2 = s2
    r1 = r1
    r2 = r2
    p1 = p1
    p2 = p2
    p3 = p3
    Nobody = Nobody
    Servers <- OneServer
    Replicas <- TwoReplicas
    Passes <- TwoPasses
    Home <- Apart
    Slots = 1
    PoolSize = 2
    MaxEdits = 2
    MaxFaults = 1
INVARIANT NoLostWake
PROPERTY SnapshotNeverOlder
PROPERTY EditReachesAgent
