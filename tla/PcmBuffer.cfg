SPECIFICATION Spec
CONSTANTS
    PrimeFrames = 2
    CapacityFrames = 4
    PushSizes = {1, 2, 3}
    BlockSizes = {1, 3}
    MaxFrames = 8
INVARIANTS
    TypeOK
    NoFrameLost
    CountsChunks
PROPERTIES
    PrimedPlays
    ImplementsStream
\* An overflow ends the UI thread; the device then drains and stays silent.
CHECK_DEADLOCK FALSE
