SPECIFICATION LeaseSpec
CONSTANTS
    r1 = r1
    r2 = r2
    r3 = r3
    r4 = r4
    j1 = j1
    j2 = j2
    n1 = n1
    All = All
    Nobody = Nobody
    Done = Done
    Runs <- FourRuns
    Jobs <- TwoJobs
    Namespaces = {n1}
    JobOf <- TwoRetries
    NamespaceOf <- OneEverywhere
    Late = {}
    Faulty = {}
CHECK_DEADLOCK FALSE
INVARIANT
    OneMutator
