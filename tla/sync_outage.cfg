SPECIFICATION Spec
CONSTANTS
    a = a
    b = b
    k1 = k1
    k2 = k2
    NoPage = NoPage
    Regions <- TwoRegions
    Keys <- OneKey
    ReplicationFactor = 3
    WriteQuorum = 2
    Limit = 10
    Offset <- InStep
    MinUp = 0
    Losses = TRUE
    MaxOps = 2
INVARIANT
    CursorCovers
