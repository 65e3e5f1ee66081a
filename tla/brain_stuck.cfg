SPECIFICATION FairSpec
CONSTANTS
    o1 = o1
    o2 = o2
    n = n
    ground1 = ground1
    e1 = e1
    Outcomes <- Two
    Scopes <- OneScope
    Sources <- GroundAndOne
    ScopeOf <- SameScope
    GroundOf <- OneGround
    CitedBy <- FirstApart
    Limit = 1
    MaxChanges = 3
    MaxFaults = 0
CHECK_DEADLOCK FALSE
PROPERTY
    DirtyCleaned
