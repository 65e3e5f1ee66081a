SPECIFICATION FairSpec
CONSTANTS
    k1 = k1
    k2 = k2
    t1 = t1
    t2 = t2
    Keys <- MCKeys
    Texts <- MCTexts
    TextOf <- MCTextOf
    ReplicationFactor = 3
    WriteQuorum = 2
    ReadQuorum = 2
    AuditLimit = 10
    Faults = {}
    MaxOps = 3
    MaxRows = 6
PROPERTY
    RepairConverges
CHECK_DEADLOCK FALSE
