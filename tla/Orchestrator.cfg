CONSTANTS
    MaxStarts = 2
    MaxStops = 2
    RampSteps = 1
SPECIFICATION Spec
CHECK_DEADLOCK FALSE
INVARIANTS
    TypeOK
    PlanFollowed
    ReplacedFallsSilent
    OneLateAssignment
PROPERTIES
    ThreadEnds
    ShowsRunStatus
