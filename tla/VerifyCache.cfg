SPECIFICATION Spec
CONSTANTS
    c1 = c1
    c2 = c2
    c3 = c3
    Comparisons = {c1, c2, c3}
    Candidates = {"recovered"}
    Options <- Sequential
    Diverges <- TheDiverges
    Idle = {3}
    Frames = 2
    Tree = FALSE
    Editable = {"shared", "game", "native"}
    Faults = {}
    Deaths = TRUE
    MaxEdits = 1
    MaxNodes = 1
SYMMETRY Symmetry
INVARIANTS
    VerdictIsOfReceipt
    OracleTrue
\* A behaviour ends when every comparison has been reported or killed.
CHECK_DEADLOCK FALSE
