SPECIFICATION FairSpec
CONSTANTS
    Clients = {c1, c2, c3}
    Warmup = 1
    Ops = 2
    Runs = 2
    MaxSample = 300
INVARIANTS
    SampleComplete
    TimedFromT0
    NoConnLeft
    PctWithinOneRank
PROPERTIES
    HarnessEnds
CHECK_DEADLOCK FALSE
