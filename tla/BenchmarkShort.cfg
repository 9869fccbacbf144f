CONSTANTS
    MaxStarts = 1
    MaxStops = 1
    MaxFleets = 7
    PhaseTime <- ShortDurations
    StepTime = 1
    MaxTime = 10
SPECIFICATION Spec
CHECK_DEADLOCK FALSE
INVARIANTS
    LoadFollowsPlan
    CompletedIsQuiet
