CONSTANTS
    Procs = {p1, p2}
    Threads = {t1}
    Operations = {"update"}
    Tables <- MCOneTable
    FencedTables <- MCOneTable
    TablesOf <- MCTablesOf
    Partitioning <- MCPartitioning
    WorkerLimit = 1
    MaxAttempts = 2
    LeaseTicks = 1
    MaxJobs = 1
    MaxClaims = 3
    MaxDelay = 1
    MaxRestarts = 1
SPECIFICATION FairSpec
INVARIANTS TypeOK SucceededPublished
PROPERTIES NoSupersededTable PublishedInOrder SettledIsFinal EveryJobSettles
