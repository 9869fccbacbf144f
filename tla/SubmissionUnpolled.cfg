CONSTANTS
    Pollers = {}
    Starters = {1}
    Slots = {1}
    PoolSize = 1
    MaxStarts = 1
    MaxStops = 0
    MaxFaults = 0
SPECIFICATION Spec
CHECK_DEADLOCK FALSE
PROPERTIES
    FinalizerSuffices
