SPECIFICATION Spec
CONSTANTS
    Objects = {o1, o2}
    Handles = {h1, h2, h3}
    NoRef = NoRef
    Inline = Inline
    Infinity = Infinity
    Argvs <- MCArgvs
    Events = {e1, e2}
    NoEvent = NoEvent
    MaxDepth = 5
    MaxTimeouts = 2
SYMMETRY Symmetry
INVARIANTS
    RefsResolve
    TimeoutsLive
    AnswersOwnCall
    ExitSettles
CHECK_DEADLOCK FALSE
