CONSTANTS
    MaxFleets = 3
    MaxStops = 1
SPECIFICATION Spec
CHECK_DEADLOCK FALSE
INVARIANTS
    TypeOK
    NoFleetLost
    OneFleet
    CleanStop
PROPERTIES
    FleetsAreStopped
