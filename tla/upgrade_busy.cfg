SPECIFICATION FairSpec
CONSTANTS
    Runs = {r1, r2}
    Versions = {1, 2}
    Modes = {"python", "docker-compose"}
    Quiet = FALSE
    MaxWrites = 2
    MaxFaults = 3
INVARIANT
    Whole
CHECK_DEADLOCK FALSE
