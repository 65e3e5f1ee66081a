SPECIFICATION FairSpec
CONSTANTS
    a = a
    b = b
    k1 = k1
    k2 = k2
    NoPage = NoPage
    Regions <- TwoRegions
    Keys <- OneKey
    ReplicationFactor = 2
    WriteQuorum = 2
    Limit = 10
    Offset <- InStep
    MinUp = 1
    Losses = TRUE
    MaxOps = 2
INVARIANTS
    TypeOK
    CursorCovers
    DeletesFinal
PROPERTY
    Convergence
