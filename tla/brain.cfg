SPECIFICATION FairSpec
CONSTANTS
    o1 = o1
    o2 = o2
    n = n
    ground1 = ground1
    e1 = e1
    Outcomes <- Two
    Scopes <- OneScope
    Sources <- GroundAndOne
    ScopeOf <- SameScope
    GroundOf <- OneGround
    CitedBy <- FirstApart
    Limit = 2
    MaxChanges = 2
    MaxFaults = 2
CHECK_DEADLOCK FALSE
INVARIANTS
    ErasureHonest
    ServedBacked
    IntegrationTrue
PROPERTY
    ErasureCompletes
