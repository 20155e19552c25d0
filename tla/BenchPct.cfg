SPECIFICATION FairSpec
CONSTANTS
    Clients = {c1, c2}
    Warmup = 0
    Ops = 50
    Runs = 1
    MaxSample = 1
INVARIANTS
    PctNearestRank
CHECK_DEADLOCK FALSE
