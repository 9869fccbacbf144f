CONSTANTS
    Workers = {w1, w2}
    MaxBuilds = 3
    MaxTeardowns = 1
SPECIFICATION Spec
CHECK_DEADLOCK FALSE
INVARIANTS
    ListedStatusTrue
PROPERTIES
    BuildEnds
