SPECIFICATION Spec
CONSTANTS
    a = a
    b = b
    k1 = k1
    k2 = k2
    NoPage = NoPage
    Regions <- TwoRegions
    Keys <- TwoKeys
    ReplicationFactor = 1
    WriteQuorum = 1
    Limit = 1
    Offset <- InStep
    MinUp = 1
    Losses = TRUE
    MaxOps = 3
INVARIANT
    CursorCovers
