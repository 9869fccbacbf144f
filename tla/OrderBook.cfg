CONSTANTS
    OrderId = {o1, o2, o3}
    Account = {alice}
    NoAccount = NoAccount
    NoOrder = NoOrder
    NoLocation = NoLocation
    MaxPrice = 2
    MaxQty = 2
SPECIFICATION Spec
INVARIANTS
    TypeOK
    IndexMatchesLists
    QuotesMatchOrders
    UncrossedExceptOwn
    FillsAddUp
PROPERTIES
    PriceTimePriorityKept
    CallReturns
