CONSTANTS
    Pollers = {1}
    Starters = {1}
    Slots = {1}
    PoolSize = 2
    MaxStarts = 2
    MaxStops = 1
    MaxFaults = 1
SPECIFICATION Spec
CHECK_DEADLOCK FALSE
INVARIANTS
    TypeOK
    Watched
PROPERTIES
    ScoredWhenOver
    CompletedIsFinalized
    TestingEnds
    PollsAnswered
