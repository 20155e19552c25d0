SPECIFICATION FairSpec
CONSTANTS
    Requests = {r1, r2}
    Absent = Absent
INVARIANTS
    AnswersTruthful
PROPERTIES
    EveryCommandLogged
CHECK_DEADLOCK FALSE
