SPECIFICATION Spec
CONSTANTS
    ReplicationFactor = 2
    WriteQuorum = 2
    ReadQuorum = 1
    ReadFanout = 1
    x = x
    y = y
    w1 = w1
    w2 = w2
    Texts <- OneText
    Mortal <- OneText
    Lifelong <- OneText
    Writers <- TwoWriters
    Reachable <- Outages
    Batches = {}
    Ids <- OneId
    Numbering <- Askew
    MaxCalls = 2
    MaxFaults = 1
SYMMETRY Symmetric
CHECK_DEADLOCK FALSE
PROPERTIES
    KeepsPromise
