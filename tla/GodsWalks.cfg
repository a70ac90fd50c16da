SPECIFICATION Spec
CONSTANTS
    SignBit = 8
    Room = {0, 1, 3, 5}
    Waypoints <- ThePlaces
    Budgets = {1, 2, 9}
    MaxSteps = 12
INVARIANTS
    TypeOK
    OnCourse
PROPERTIES
    WaypointMet
    Arrives
