SPECIFICATION Spec
CONSTANTS
    t1 = t1
    t2 = t2
    h1 = h1
    h2 = h2
    Target = "target"
    Builder = "builder"
    Txns <- TwoTxns
    Handlers <- OneHandler
    Triggers <- PushTriggers
    Drainers = 1
    MaxDeploys = 2
    MaxPushes = 2
    MaxBumps = 0
    MaxReports = 1
    MaxSends = 1
PROPERTY KeepsHistory
CHECK_DEADLOCK FALSE
