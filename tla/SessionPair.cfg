SPECIFICATION Spec
CONSTANTS
    p1 = p1
    p2 = p2
    Players = {p1, p2}
    Masks = {0, 1}
    Fails <- TheFails
    HostFaults = FALSE
    MaxFrames = 2
    MaxBuild = 1
    MaxSessions = 2
SYMMETRY Symmetry
INVARIANTS
    DamageConfined
    LostOnlyIfShared
\* A behaviour ends once MaxSessions sessions have been closed.
CHECK_DEADLOCK FALSE
