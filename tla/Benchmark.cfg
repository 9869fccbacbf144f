CONSTANTS
    MaxStarts = 1
    MaxStops = 0
    MaxFleets = 8
    PhaseTime <- Durations
    StepTime = 2
    MaxTime = 30
SPECIFICATION Spec
CHECK_DEADLOCK FALSE
INVARIANT
    PeakHasBots
