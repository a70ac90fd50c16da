SPECIFICATION Spec
CONSTANTS
    Main <- TheMain
    Handler <- TheHandler
    Plans <- ThePlans
    Seams <- TheSeams
    FrameTicks = 31
    VBlankOffset = 22
    ObservationOffset = 15
    Divider = 2
    Masks = {0, 1}
    MaxFrames = 12
INVARIANTS
    TypeOK
    SnapshotSafe
    RaisesOnlyOnMismatch
PROPERTIES
    ImplementsCanonical
    StepCompletes
\* A run stops for good after MaxFrames frames, or when a step raises.
CHECK_DEADLOCK FALSE
