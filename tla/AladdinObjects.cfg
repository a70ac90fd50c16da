SPECIFICATION Spec
CONSTANTS
    MainSize = 2
    ExtraSize = 1
    Pools <- ThePools
    TileSlots = 2
    Needs = {0, 1}
    Cells = {1}
    Levels <- TheLevels
INVARIANTS
    TypeOK
    TilesExclusive
    NoTileLeaks
    OwnFrame
    NoTwin
PROPERTIES
    PlayerNotDropped
