INIT ServicesInit
NEXT ServicesNext
CONSTANTS
    Services = {"web", "db"}
    Plain = "plain"
    Prebuilt = {"db"}
    AfterService <- MCAfterService
    AppSpecs = {{"web", "db"}, {"plain"}}
    Volumes = {"v"}
    MaxK8sFails = 1
    SecretTxns = {t1, t2}
    MaxDeks = 3
    MaxUpdates = 1
    MaxKeks = 2
    Quotas = {1}
    MaxS3Ops = 4
    MaxS3Faults = 1
    Hosts = {"h"}
    HostTypes = {"general", "gpu"}
    UnitWeight <- MCUnitWeight
    FreeTier = 1
    Subs = {"sub1", "sub2"}
    MaxFleet = 2
    MaxPaddle = 2
    MaxRollbacks = 1
    MaxCommits = 2
    MaxHooks = 2
    MaxRedeliveries = 1
    MaxGitEdits = 3
    Nobody = Nobody
    Servers = {s1, s2}
    Replicas = {r1}
    Passes = {p1, p2, p3}
    Home <- Together
    Slots = 1
    PoolSize = 2
    MaxEdits = 1
    MaxFaults = 0
    Channels = {"hook"}
    Kind <- MCKind
    Keys = {"once", "flap"}
    Event <- MCEvent
    Windowed = {"flap"}
    Producers = {1, 2}
    Dispatchers = {"a", "b"}
    BatchSize = 1
    Concurrency = 1
    MaxAttempts = 2
    MaxRows = 2
    MaxAlertFaults = 1
INVARIANTS  NoOrphans  NoBucketStuck
INVARIANTS NewestEventWins HookOnce PreviewTracked PoolNotWedged
INVARIANTS OneRowPerAlert NoDoubleSend
CHECK_DEADLOCK FALSE
