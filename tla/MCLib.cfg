\* A load of two records, then two threads with three operations each: queries
\* that hold the table while the other thread writes, under fair scheduling.
SPECIFICATION FairSpec
CONSTANTS
    c0 = c0  c1 = c1  c2 = c2  sdb = sdb  v1 = v1  v2 = v2
    NoRow = NoRow  NoList = NoList
    Keys <- MCKeys  Fields <- MCFields  Vals <- MCVals  Names <- MCNames
    Clients <- MCClients
    Schema = sdb
    Requests <- MCRequests
    Calls <- MCCalls
    NumOps <- MCNumOps
    Wave <- MCWave
INVARIANTS TypeOK StatementsClean DataSurvives ScansAreStable
PROPERTIES LibServiceSpec WritersGetThrough
