CONSTANTS
    Replicas = {r1}
    Sessions = {s1}
    Users = {u1}
    NoUser = NoUser
    NoMeta = NoMeta
    Turns = {t1, t2}
    HistoryLimit = 2
    Threshold = 2
    MaxMessages = 3
    MaxFaults = 1
SPECIFICATION ServiceSpec
PROPERTY DeletedReplyHidesThread
CHECK_DEADLOCK FALSE
