CONSTANTS
    Plan <- ShortPlan
    Ends <- ShortEnds
    NoData = {}
    Batches = {b1, b2}
    Items = {i1, i2}
    Workers = 2
    FlushInterval = 2
    MaxFaults = 1
SPECIFICATION Spec
INVARIANT CountedIsLoaded
