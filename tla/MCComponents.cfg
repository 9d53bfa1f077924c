CONSTANTS
    Employees <- MCEmployees
    Edges <- MCEdges
    Inputs <- MCInputs
    CountryCounts <- MCCountryCounts
    Totals <- MCTotals
    BenchCount = 3
    JobLevels <- MCJobLevels
    DomainSkills <- MCDomainSkills
    SkillNames <- MCSkillNames
    Certs = {ct1, ct2}
    Clients = {cl1, cl2}
    Natives = {"Hindi", "English"}
    Languages <- MCLanguages
    FirstYear = 2023
    MaxPicks = 3
    Requests = {r1, r2}
    Tokens <- MCTokens
    NoToken <- MCNoToken
    KeysTtl = 2
    MaxTime = 3
    Callers = {c1, c2}
    PoolSize = 2
    Entities <- MCEntities
    EntitySources <- MCSources
    Batches <- MCBatches
    Similarity <- MCSimilarity
    ValidTypes <- MCValidTypes
    Candidates = 2
    MaxCalls = 2
    Data <- MCData
    Limits = {0, 1, 2, 4, 9}
    MaxLimit = 4
    OverFetch = 2
    FetchCap = 4
    Searches <- MCSearches
    Titles = {"dr", "prof"}
    Letters <- MCLetters
    PartOf <- MCPartOf
    Graphs <- MCGraphs
    Templates <- MCTemplates
    Replies = {"1", "2", "3", "b"}
    Fragments <- MCFragments
    Strangers = {"a.pdf"}
    NameChars <- MCNameChars
    HistoryLimit = 3
    MaxTurns = 3
    MaxRaised = 1
SPECIFICATION Spec
SYMMETRY Symmetry
INVARIANT MeaningKeptUnless
INVARIANT PushedOnceUnless
INVARIANT BenchFilledUnless
INVARIANT OneEdgePerTargetUnless
INVARIANT EdgesFitEmployee
INVARIANT JudgedByKeysOfTheHour
INVARIANT OneResultPerQuery
INVARIANT FoundIsMeantUnless
INVARIANT UnknownIsUnknownUnless
INVARIANT NearestInScopeUnless
INVARIANT NamedIsFoundUnless
INVARIANT ChosenAsShownUnless
INVARIANT CvIsOfEmployeeUnless
INVARIANT AnonymousCvUnless
CHECK_DEADLOCK FALSE
