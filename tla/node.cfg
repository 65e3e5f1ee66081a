SPECIFICATION Spec
CONSTANTS
    NoKey = NoKey
    Processes = {p1}
    Texts = {x}
    Keys = {k}
    Redis = FALSE
    Journaling = TRUE
    Refreshing = FALSE
    Faults = {}
    MaxMemories = 2
    MaxForgets = 2
    MaxCrashes = 1
CHECK_DEADLOCK FALSE
INVARIANTS
    TypeOK
    RestoreExact
    OncePerKey
PROPERTY
    KeepsPromise
