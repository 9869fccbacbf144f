CONSTANTS
    MaxStarts = 1
    MaxStops = 1
    RampSteps = 1
SPECIFICATION Spec
CHECK_DEADLOCK FALSE
INVARIANT
    RefusedWhileRunning
