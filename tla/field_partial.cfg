SPECIFICATION Spec
CONSTANTS
    Regions = {east, west}
    Keys = {k1, k2}
    KeySets = {{k1}, {k2}}
    MaxSignals = 3
    MaxDeltas = 1
    MaxRestarts = 0
INVARIANT
    AuditMeansAgreed
