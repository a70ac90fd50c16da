SPECIFICATION Spec
CONSTANTS
    c1 = c1
    c2 = c2
    c3 = c3
    Comparisons = {c1}
    Candidates = {"original", "recovered"}
    Options <- AllOptions
    Diverges <- TheDiverges
    Idle = {3}
    Frames = 2
    Tree = TRUE
    Editable = {"shared", "game", "native"}
    Faults = {"error", "dependency", "timeout"}
    Deaths = FALSE
    MaxEdits = 2
    MaxNodes = 2
INVARIANTS
    TypeOK
    VerdictCoversGraph
    BlamesCandidateLast
PROPERTIES
    Reported
\* A behaviour ends when every comparison has been reported.
CHECK_DEADLOCK FALSE
