SPECIFICATION FairSpec
CONSTANTS
    Runs = {r1, r2}
    Versions = {1, 2}
    Modes = {"python", "docker-compose"}
    Quiet = TRUE
    MaxWrites = 2
    MaxFaults = 3
INVARIANT
    AlwaysOne
CHECK_DEADLOCK FALSE
