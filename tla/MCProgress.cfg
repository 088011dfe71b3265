SPECIFICATION ProgressSpec
CONSTANTS
    Docs <- OneDoc
    Ops <- OneDocOps
    OpsOf <- OneDocOpsOf
    DependsOn <- OneDocDependsOn
    MaxRedrive = 1
    MaxEdits = 0
    MaxFaults = 2
    NoDoc = NoDoc
    Machines = {"s1"}
    ServerTypes = {"gpu"}
    NeedsGPU = {"gpu"}
    Resources = {"app"}
    AllowedServerTypes <- MCAllowed
    Wanted <- MCWanted
    PortCeiling = 1
    Channels = {"hook"}
    Kind <- MCKind
    Keys = {"flap"}
    Event <- MCEvent
    Windowed = {"flap"}
    Producers = {1, 2}
    Dispatchers = {"a", "b"}
    BatchSize = 1
    Concurrency = 1
    MaxAttempts = 2
    MaxRows = 2
    MaxAlertFaults = 1
    Hosts = {"h"}
    HostTypes = {"general", "gpu"}
    UnitWeight <- MCUnitWeight
    FreeTier = 1
    Subs = {"sub1"}
    MaxFleet = 2
    MaxPaddle = 2
    MaxRollbacks = 0
    Tenants = {"o1", "o2"}
    MinSystemicPopulation = 2
    SystemicPasses = 2
    MaxCooldownPasses = 2
    MaxFailures = 4
PROPERTIES AlertsAreAnOutbox DocumentsConverge DecommissionEnds AlertsSettle BillsWhatRuns BackoffEnds
CHECK_DEADLOCK FALSE
