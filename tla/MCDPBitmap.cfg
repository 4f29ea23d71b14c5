CONSTANTS
    SectorSize <- MCSectorSize
    RegionSize <- MCRegionSize
    TotalSize <- MCTotalSize
    Requests <- MCRequests
    MaxSets = 3
    NULL = NULL
SPECIFICATION Spec
INVARIANTS
    TypeOK
    SetIsExact
    RegionsInBounds
    TestIsExact
    GetAgreesWithTest
