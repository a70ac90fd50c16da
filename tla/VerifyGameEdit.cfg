SPECIFICATION Spec
CONSTANTS
    c1 = c1
    c2 = c2
    c3 = c3
    Comparisons = {c1}
    Candidates = {"original"}
    Options <- Plain
    Diverges <- TheDiverges
    Idle = {3}
    Frames = 2
    Tree = FALSE
    Editable = {"game"}
    Faults = {}
    Deaths = FALSE
    MaxEdits = 1
    MaxNodes = 1
INVARIANTS
    OracleSurvivesGameEdits
\* A behaviour ends when every comparison has been reported.
CHECK_DEADLOCK FALSE
