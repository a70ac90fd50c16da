SPECIFICATION Spec
CONSTANTS
    Stream <- TheStream
    Demos <- TheDemos
    Initialised = {1, 2, 3, 12}
    Difficulties = {1, 2}
    LivesOf <- TheLives
    ContinuesOf <- TheContinues
    MaxLives = 2
    MaxCount = 2
INVARIANTS
    TypeOK
    StreamAgrees
    NoPauseInDemo
    LatchOnlyOnLevelC
PROPERTIES
    PauseReleasedInLevel
\* A run ends at a gap in the recovered code.
CHECK_DEADLOCK FALSE
