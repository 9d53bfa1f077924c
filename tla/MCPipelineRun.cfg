CONSTANTS
    Seeds = {s1, s2}
    Batches = {b1, b2, b3}
    RefLabels = {location, country, skill}
    Location = location
    Country = country
    EdgeLabels = {location, skill}
    Enough = 2
    None = None
    MaxRuns = 3
    MaxFaults = 3
SPECIFICATION Spec
INVARIANT TypeOK
INVARIANT NothingIsDoubled
INVARIANT DanglingOnlyWhenUnfinished
INVARIANT CompleteIsConsistentUnless
INVARIANT LoadsItsSeed
CHECK_DEADLOCK FALSE
SYMMETRY Symmetry
