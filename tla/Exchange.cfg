CONSTANTS
    Handler = {h1, h2, h3}
    MaxOrders = 3
    MaxPrice = 1
    MaxQty = 2
    NoAccount = NoAccount
    NoOrder = NoOrder
    NoLocation = NoLocation
    NoTracker = NoTracker
    NoRequest = NoRequest
SPECIFICATION Spec
SYMMETRY Symmetry
CHECK_DEADLOCK FALSE
INVARIANTS
    TypeOK
    OneBook
    RestingIsTracked
    TrackerNeverUnderstates
    CancelNeverOverreports
    CancelAckedOnce
