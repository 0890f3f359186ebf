\* A loading and a transaction thread under fair scheduling.
SPECIFICATION FairSpec
CONSTANTS
    c1 = c1  c2 = c2  v1 = v1  v2 = v2
    NoRow = NoRow  NoList = NoList  Blank = Blank  Torn = Torn
    Keys <- MCKeys  Fields <- MCFields  Vals <- MCVals  Names <- MCNames
    Clients <- Pair
    Requests <- Puts
    NumOps = 1
    Wave <- TwoWaves
    Oversized <- NoRequests
    MaxRows = 2
    KernelFaults = TRUE
PROPERTIES CallsAnswered ServerLetsGo ThreadsReturn
