\* Two threads load three records: one is left over.
SPECIFICATION Spec
CONSTANTS
    NumThreads = 2
    RecordCount = 3
    InsertStart = 0
    OperationCount = 2
    Mix <- ReadsAndInserts
    Distribution = "zipfian"
    NewKeys = 1
    BuildKeyName <- Hashed
    BackEnd = "shm"
    FieldCount = 2
    ReadAllFields = TRUE
    MaxScanLength = 2
    ScanLengths = "uniform"
    MayFail = FALSE
    OnlineCpus <- FourCpus
    AvoidBootCpu = FALSE
    MigrateRR = TRUE
    Disperse = FALSE
INVARIANT PickedKeysInserted
