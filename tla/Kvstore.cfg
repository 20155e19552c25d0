SPECIFICATION MainFairSpec
CONSTANTS
    Conns = {c1, c2}
    NoConn = NoConn
    MaxUnread = 1
INVARIANTS
    CutOffOnlyLate
PROPERTIES
    InterruptExits
CHECK_DEADLOCK FALSE
