SPECIFICATION Spec
CONSTANTS
    Inputs <- MCInputs
    SeenCap = 3
    Slots = 2
INVARIANTS
    DrawerTrue
    DrawerMissesOnlyAtCap
    LoadFallsBack
    StoredIsReal
PROPERTIES
    AnswersAsServer
    PageSettles
CHECK_DEADLOCK FALSE
