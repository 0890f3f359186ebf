\* Two threads with two calls each, under fair scheduling.
SPECIFICATION FairSpec
CONSTANTS
    t1 = t1  t2 = t2  v1 = v1  v2 = v2
    b1 = b1  b2 = b2  b3 = b3  b4 = b4
    NoRecord = NoRecord  Everything = Everything  Nobody = Nobody
    Free = Free  NoBlock = NoBlock
    Threads <- MCThreads  Keys <- MCKeys  Fields <- MCFields  Vals <- MCVals
    Requests <- MCRequests
    NumOps = 2
    Blocks <- MCBlocks
INVARIANTS TypeOK BlocksOwned
PROPERTIES HashServiceSpec OperationsReturn
