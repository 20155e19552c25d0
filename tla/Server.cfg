SPECIFICATION FairSpec
CONSTANTS
    Conns = {c1, c2}
    NoConn = NoConn
    MaxUnread = 1
INVARIANTS
    WgCountsLive
    ShutdownClean
PROPERTIES
    NoAddAfterWait
    CloseIsNoError
    ShutdownDrains
    EveryConnCloses
CHECK_DEADLOCK FALSE
