CONSTANTS
    Replicas = {r1, r2}
    Sessions = {s1}
    Users = {u1}
    NoUser = NoUser
    NoMeta = NoMeta
    Threshold = 2
    MaxMessages = 2
    MaxFaults = 2
SPECIFICATION Spec
INVARIANT TypeOK
INVARIANT OpenBreakerTouchesNoCosmos
INVARIANT CountNeverOverreports
PROPERTY AcknowledgedMessageIsRetained
PROPERTY MessagesLeaveOnlyByDeletion
SYMMETRY ReplicaSymmetry
CHECK_DEADLOCK FALSE
