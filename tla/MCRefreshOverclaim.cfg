CONSTANTS
    Procs = {p1, p2}
    Threads = {t1, t2}
    Operations = {"update", "pbp"}
    Tables <- MCOneTable
    FencedTables <- MCOneTable
    TablesOf <- MCTablesOf
    Partitioning <- MCPartitioning
    WorkerLimit = 1
    MaxAttempts = 2
    LeaseTicks = 1
    MaxJobs = 2
    MaxClaims = 2
    MaxDelay = 1
    MaxRestarts = 0
SPECIFICATION Spec
SYMMETRY MCSymmetry
PROPERTIES LiveClaimKept
