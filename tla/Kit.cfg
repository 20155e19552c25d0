SPECIFICATION KitFairSpec
CONSTANTS
    Total = 3
    NotFinite = NotFinite
    Positions = {130}
    Rest = Rest
INVARIANTS
    ShownIsCurrent
    ClockMatchesPlay
    WashRests
    ThemeTrue
PROPERTIES
    AutoplayEnds
    MotionStops
