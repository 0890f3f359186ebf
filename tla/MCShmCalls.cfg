\* Two threads of one phase, two operations each of all kinds; every fault,
\* requests and scan results that exceed a window.
SPECIFICATION Spec
CONSTANTS
    c1 = c1  c2 = c2  v1 = v1  v2 = v2
    NoRow = NoRow  NoList = NoList  Blank = Blank  Torn = Torn
    Keys <- MCKeys  Fields <- MCFields  Vals <- MCVals  Names <- MCNames
    Clients <- Pair
    Requests <- All
    NumOps = 2
    Wave <- OneWave
    Oversized <- BigInsert
    MaxRows = 1
    KernelFaults = TRUE
SYMMETRY Symmetry
INVARIANTS TypeOK NoDataRace ServesCurrentRequest NoStrayAccess IInv
PROPERTY ShmServiceSpec
