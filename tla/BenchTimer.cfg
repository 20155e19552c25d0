SPECIFICATION FairSpec
CONSTANTS
    Clients = {c1, c2}
    Warmup = 1
    Ops = 1
    Runs = 1
    MaxSample = 1
PROPERTIES
    TimerAfterWarmup
CHECK_DEADLOCK FALSE
