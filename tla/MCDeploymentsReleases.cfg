SPECIFICATION FairSpec
CONSTANTS
    t1 = t1
    t2 = t2
    h1 = h1
    h2 = h2
    Target = "target"
    Builder = "target"
    Txns <- OneTxn
    Handlers <- OneHandler
    Triggers <- UserTriggers
    Drainers = 1
    MaxDeploys = 2
    MaxPushes = 0
    MaxBumps = 1
    MaxReports = 1
    MaxSends = 1
INVARIANT PinIsARelease
 
CHECK_DEADLOCK FALSE
