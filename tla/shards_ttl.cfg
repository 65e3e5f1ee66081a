SPECIFICATION TimedSpec
CONSTANTS
    ReplicationFactor = 2
    WriteQuorum = 2
    ReadQuorum = 1
    ReadFanout = 1
    x = x
    y = y
    w1 = w1
    w2 = w2
    Texts <- OneText
    Mortal <- OneText
    Lifelong <- None
    Writers <- OneWriter
    Reachable <- Outages
    Batches = {"remember"}
    Ids <- OneId
    Numbering <- Askew
    MaxCalls = 1
    MaxFaults = 0
CHECK_DEADLOCK FALSE
PROPERTY
    MortalsFade
