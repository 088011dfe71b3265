SPECIFICATION FairSpec
CONSTANTS
    Docs <- OneDoc
    Ops <- OneDocOps
    OpsOf <- OneDocOpsOf
    DependsOn <- OneDocDependsOn
    MaxRedrive = 0
    MaxEdits = 0
    MaxFaults = 1
    NoDoc = NoDoc
PROPERTIES StatusReachesControlPlane
