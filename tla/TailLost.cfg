SPECIFICATION MCSpec
CONSTANTS
    PageWords = 5
    NurseryPages = 2
    NurseryLowWater = 1
    InitPages = 10
    ReservedPages = 20
    GrowSlack = 0
    DirtyVectorsMax = 1
    NDefuns = 1
    NValues = 1
    Requests <- MCRequests
    MaxFields = 2
    MaxRoots = 5
    MaxOps = 9
    Ids = {1, 2, 3, 4, 5, 6}
INVARIANT ScannedIsPromoted
