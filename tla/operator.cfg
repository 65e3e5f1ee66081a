SPECIFICATION OperatorFairSpec
CONSTANTS
    Nobody = Nobody
    Operators = {o1, o2}
    ClusterCount = 2
    ItemCount = 1
    Duration = 2
    Patience = 1
    Ahead = {o2}
    Skew = 1
    MaxEdits = 1
    MaxFaults = 1
INVARIANTS
    OperatorTypeOK
    TermRespected
PROPERTIES
    NoRollback
    ReconciledForGood
