SPECIFICATION Spec
CONSTANTS
    NoKey = NoKey
    Processes = {p1}
    Texts = {x}
    Keys = {}
    Redis = TRUE
    Journaling = FALSE
    Refreshing = FALSE
    Faults = {}
    MaxMemories = 1
    MaxForgets = 2
    MaxCrashes = 1
CHECK_DEADLOCK FALSE
PROPERTY
    KeepsPromise
