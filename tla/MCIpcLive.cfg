\* Two threads of one phase under fair scheduling.
SPECIFICATION FairSpec
CONSTANTS
    c1 = c1  c2 = c2  v1 = v1  v2 = v2
    NoRow = NoRow  NoList = NoList  Blank = Blank  Torn = Torn  None = None
    Keys <- MCKeys  Fields <- MCFields  Vals <- MCVals  Names <- MCNames
    Clients <- Pair
    Requests <- Puts
    NumOps = 1
    Wave <- OneWave
    Oversized <- NoRequests
    MaxRows = 2
    KernelFaults = TRUE
PROPERTIES RpcsReturn WorkersEnd
