CONSTANTS
    Plan <- MCPlan
    Ends <- MCEnds
    NoData <- MCNoData
    Batches = {b1, b2, b3}
    Items = {i1, i2}
    Workers = 2
    FlushInterval = 2
    MaxFaults = 2
SPECIFICATION FairSpec
INVARIANT TypeOK
INVARIANT FewMarksAreAtRisk
INVARIANT NoDuplicates
INVARIANT SkippedBatchesAreLoaded
PROPERTY ImplementsResumableLoad
PROPERTY LoadCompletes
