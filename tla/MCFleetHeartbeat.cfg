INIT FleetInit
NEXT FleetNext
CONSTANTS
    Machines = {"s1"}
    ServerTypes = {"general", "gpu"}
    NeedsGPU = {"gpu"}
    Resources = {"app", "llm"}
    AllowedServerTypes <- MCAllowed
    Wanted <- MCWanted
    PortCeiling = 2
INVARIANT DecommissionStands
CHECK_DEADLOCK FALSE
