SPECIFICATION Spec
CONSTANTS
    a = a
    b = b
    c = c
    d = d
    Nodes <- MCNodes
    InitialVoters <- MCInitialVoters
    NoLease = NoLease
    LeaseTTL = 1
    MaxTerm = 2
    MaxRevision = 2
    MaxTime = 2
INVARIANTS
    TypeOK
    LogExplainsCommits
    OneLeaderPerTerm
    NoLostUpdate
PROPERTY
    LeaseExclusion
SYMMETRY MCSymmetry
CHECK_DEADLOCK FALSE
