CONSTANTS
    Replicas = {r1, r2}
    Sessions = {s1}
    Users = {u1}
    NoUser = NoUser
    NoMeta = NoMeta
    Threshold = 2
    MaxMessages = 2
    MaxFaults = 0
SPECIFICATION Spec
PROPERTY DeletedThreadStaysDeleted
CHECK_DEADLOCK FALSE
