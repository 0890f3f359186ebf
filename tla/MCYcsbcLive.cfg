\* Two threads on one CPU load three records, and one is left over; fair scheduling.
SPECIFICATION FairSpec
CONSTANTS
    NumThreads = 2
    RecordCount = 3
    InsertStart = 0
    OperationCount = 2
    Mix <- AllOperations
    Distribution = "zipfian"
    NewKeys = 2
    BuildKeyName <- Hashed
    BackEnd = "ipc"
    FieldCount = 2
    ReadAllFields = TRUE
    MaxScanLength = 2
    ScanLengths = "zipfian"
    MayFail = FALSE
    OnlineCpus <- FourCpus
    AvoidBootCpu = FALSE
    MigrateRR = FALSE
    Disperse = FALSE
INVARIANT LoadReported
PROPERTY BenchmarkEnds
