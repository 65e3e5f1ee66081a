SPECIFICATION Spec
CONSTANTS
    k1 = k1
    k2 = k2
    t1 = t1
    t2 = t2
    Keys <- MCKeys
    Texts <- MCTexts
    TextOf <- MCTextOf
    ReplicationFactor = 2
    WriteQuorum = 1
    ReadQuorum = 2
    AuditLimit = 10
    Faults = {}
    MaxOps = 3
    MaxRows = 6
INVARIANT
    ForgetsOnlyAsked
CHECK_DEADLOCK FALSE
