CONSTANTS
    Seeds = {s1, s2}
    Batches = {b1, b2, b3}
    RefLabels = {location, country, skill}
    Location = location
    Country = country
    EdgeLabels = {location, skill}
    Enough = 2
    None = None
    MaxRuns = 3
    MaxFaults = 1
SPECIFICATION Spec
INVARIANT SkippedRunHasEdges
CHECK_DEADLOCK FALSE
