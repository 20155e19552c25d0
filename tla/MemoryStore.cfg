\* Three goroutines, so that a reader can park behind a writer that waits for
\* another reader; one key, so that every pair of calls conflicts.
SPECIFICATION FairSpec
CONSTANTS
    Procs = {p1, p2, p3}
    Nobody = Nobody
    Keys = {k1}
    Values = {empty, v1}
    Empty = empty
    Absent = Absent
INVARIANTS
    TypeOK
    MapExclusive
PROPERTIES
    Linearizable
    CallReturns
