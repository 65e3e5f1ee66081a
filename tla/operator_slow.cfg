SPECIFICATION OperatorSpec
CONSTANTS
    Nobody = Nobody
    Operators = {o1, o2}
    ClusterCount = 1
    ItemCount = 2
    Duration = 2
    Patience = 1
    Ahead = {}
    Skew = 0
    MaxEdits = 0
    MaxFaults = 0
INVARIANT
    OneReconciler
