SPECIFICATION FairSpec
CONSTANTS
    NoKey = NoKey
    Processes = {p1, p2}
    Texts = {x}
    Keys = {}
    Redis = TRUE
    Journaling = FALSE
    Refreshing = TRUE
    Faults = {"index", "invalidate"}
    MaxMemories = 1
    MaxForgets = 2
    MaxCrashes = 1
CHECK_DEADLOCK FALSE
PROPERTY
    ForgottenFades
