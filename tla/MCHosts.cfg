SPECIFICATION HostsSpec
CONSTANTS
    Kinds <- AllKinds
    MaxGen = 2
    MaxDocs = 4
    MaxFaults = 1
    Keep = 2
    Window = 2
    Machines = {"s1"}
    ServerTypes = {"general", "gpu"}
    NeedsGPU = {"gpu"}
    Resources = {"app", "llm"}
    AllowedServerTypes <- MCAllowed
    Wanted <- MCWanted
    PortCeiling = 2
    Ids = {"a", "b", "c"}
    Missing = "x"
    MaxLen = 3
    MaxDeps = 2
INVARIANTS Exclusive OnlyWhatIsDesired 
INVARIANTS OrderIsRight  PortsDistinct CleanMeansClean
PROPERTIES NeverCut SelfHeals
CHECK_DEADLOCK FALSE
