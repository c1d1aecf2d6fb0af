SPECIFICATION MCSpec
CONSTANTS
    PageWords = 5
    NurseryPages = 1
    NurseryLowWater = 1
    InitPages = 8
    ReservedPages = 16
    GrowSlack = 0
    DirtyVectorsMax = 1
    NDefuns = 1
    NValues = 1
    Requests <- MCRequests
    MaxFields = 1
    MaxRoots = 3
    MaxOps = 6
    Ids = {1, 2, 3, 4, 5}
INVARIANTS
    TypeOK
    OneCopy
    WalksOnHeaders
    VerifyHeapClean
    NoStalePointer
    AllocatedPagesExact
    UnscannedIsListed
    
PROPERTIES
    KeepsGraph
    AllocationAnswered
