\* One thread that may look up a record that is not there.
SPECIFICATION FairSpec
CONSTANTS
    c1 = c1  c2 = c2  v1 = v1  v2 = v2
    NoRow = NoRow  NoList = NoList  Blank = Blank  Torn = Torn
    Keys <- MCKeys  Fields <- MCFields  Vals <- MCVals  Names <- MCNames
    Clients <- Lone
    Requests <- Lookups
    NumOps = 1
    Wave <- SoleWave
    Oversized <- NoRequests
    MaxRows = 2
    KernelFaults = FALSE
PROPERTY CallsReturn
