SPECIFICATION Spec
CONSTANTS
    c1 = c1
    c2 = c2
    c3 = c3
    Comparisons = {c1}
    Candidates = {"recovered"}
    Options <- Plain
    Diverges <- TheDiverges
    Idle = {3}
    Frames = 2
    Tree = TRUE
    Editable = {"game"}
    Faults = {}
    Deaths = FALSE
    MaxEdits = 0
    MaxNodes = 2
INVARIANTS
    OracleTrue
\* A behaviour ends when every comparison has been reported.
CHECK_DEADLOCK FALSE
