\* Two threads on three of four CPUs; thread count divides both totals.
SPECIFICATION Spec
CONSTANTS
    NumThreads = 2
    RecordCount = 4
    InsertStart = 0
    OperationCount = 4
    Mix <- AllOperations
    Distribution = "zipfian"
    NewKeys = 2
    BuildKeyName <- Hashed
    BackEnd = "ipc"
    FieldCount = 2
    ReadAllFields = TRUE
    MaxScanLength = 2
    ScanLengths = "uniform"
    MayFail = TRUE
    OnlineCpus <- FourCpus
    AvoidBootCpu = TRUE
    MigrateRR = TRUE
    Disperse = TRUE
INVARIANTS TypeOK InsertsFresh PickedKeysInserted ThreadsDispersed BootCpuAvoided
PROPERTY LookupsSucceed
