INIT BackupsInit
NEXT BackupsNext
CONSTANTS
    r1 = r1
    r2 = r2
    Replicas = {r1, r2}
    Source = "src"
    Target = "dst"
    KeepDaily = 1
    ClockSkew = 0
    MaxDay = 2
    MaxDumps = 2
    MaxRestores = 1
    Targets = {"bucket"}
    ArchiveKeepDaily = 1
    MaxTime = 3
    MaxUpsets = 1
SYMMETRY Symmetric
INVARIANTS OneRunADay GreenMeansRestorable RestoreLoadsPinned 
PROPERTY WALNeverLost
CHECK_DEADLOCK FALSE
