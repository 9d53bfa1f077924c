CONSTANTS
    Replicas = {r1}
    Sessions = {s1}
    Users = {u1}
    NoUser = NoUser
    NoMeta = NoMeta
    Turns = {t1, t2}
    Threshold = 2
    MaxMessages = 3
    MaxFaults = 2
    HistoryLimit = 2
SPECIFICATION ServiceSpec
INVARIANT ServiceTypeOK
INVARIANT CountExactWhenHealthy
PROPERTY BreakerOpensUntilRestart
PROPERTY SettledMetaSticks
PROPERTY PromptReachesAgentUnless
PROPERTY RepliesTrueWhenHealthy
PROPERTY EventLoopFrees
CHECK_DEADLOCK FALSE
