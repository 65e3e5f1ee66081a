SPECIFICATION FairSpec
CONSTANTS
    Regions = {east, west}
    Keys = {k1, k2}
    KeySets = {{k1}}
    MaxSignals = 3
    MaxDeltas = 1
    MaxRestarts = 1
INVARIANTS
    TypeOK
    CountedOnce
    HealthyMeansAgreed
PROPERTIES
    Convergence
