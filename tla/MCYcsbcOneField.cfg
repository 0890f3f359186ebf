\* Transactions that read one field of a record over shared memory.
SPECIFICATION Spec
CONSTANTS
    NumThreads = 2
    RecordCount = 4
    InsertStart = 0
    OperationCount = 2
    Mix <- ReadsAndInserts
    Distribution = "latest"
    NewKeys = 0
    BuildKeyName <- Hashed
    BackEnd = "shm"
    FieldCount = 2
    ReadAllFields = FALSE
    MaxScanLength = 2
    ScanLengths = "uniform"
    MayFail = FALSE
    OnlineCpus <- FourCpus
    AvoidBootCpu = FALSE
    MigrateRR = TRUE
    Disperse = FALSE
PROPERTY LookupsSucceed
