SPECIFICATION Spec
CONSTANTS
    a = a
    b = b
    k1 = k1
    k2 = k2
    NoPage = NoPage
    Regions <- TwoRegions
    Keys <- OneKey
    ReplicationFactor = 1
    WriteQuorum = 1
    Limit = 10
    Offset <- Ahead
    MinUp = 1
    Losses = TRUE
    MaxOps = 2
INVARIANT
    CursorCovers
