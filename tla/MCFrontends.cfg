SPECIFICATION Spec
CONSTANTS
    StreamCap = 2
    Kinds = {"cli", "tui"}
    Bounds <- MCBounds
INVARIANTS LogShown TreeTrue FlagTrue
CHECK_DEADLOCK FALSE
