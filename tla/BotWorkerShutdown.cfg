CONSTANTS
    MaxFleets = 1
    MaxStops = 0
SPECIFICATION Spec
CHECK_DEADLOCK FALSE
PROPERTY
    ShutdownEnds
