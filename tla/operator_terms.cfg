SPECIFICATION OperatorSpec
CONSTANTS
    Nobody = Nobody
    Operators = {o1, o2}
    ClusterCount = 1
    ItemCount = 2
    Duration = 2
    Patience = 1
    Ahead = {o2}
    Skew = 1
    MaxEdits = 2
    MaxFaults = 2
INVARIANTS
    OperatorTypeOK
    TermRespected
PROPERTY
    NoRollback
