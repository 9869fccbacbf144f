CONSTANTS
    MaxBatch = 2
    MaxLive = 1
    MaxOrders = 2
    MaxFaults = 1
    Client = {c1}
    MaxScores = 2
    MaxDeletes = 1
    MaxFailures = 1
SPECIFICATION Spec
CHECK_DEADLOCK FALSE
INVARIANTS
    CountedOnce
    DeliveredOnExit
    UpToDate
    RowIsWhole
PROPERTIES
    TelemetryArrives
    ClientsCatchUp
