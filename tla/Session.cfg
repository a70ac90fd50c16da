SPECIFICATION Spec
CONSTANTS
    p1 = p1
    p2 = p2
    Players = {p1}
    Masks = {0, 1}
    Fails <- TheFails
    HostFaults = TRUE
    MaxFrames = 2
    MaxBuild = 2
    MaxSessions = 2
INVARIANTS
    TypeOK
    HistoryValid
    JournalExact
    NeverRefused
    NothingPlayedIsLost
PROPERTIES
    NodesNeverEdited
    ContinuesAsCold
\* A behaviour ends once MaxSessions sessions have been closed.
CHECK_DEADLOCK FALSE
