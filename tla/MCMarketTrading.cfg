SPECIFICATION Spec
CONSTANTS
    ann = ann
    bob = bob
    treasury = treasury
    None = None
    Users <- MCUsers
    Provider = treasury
    Unit = 3
    OpeningLiquidity = 1
    OpeningPrice <- MCOpeningPrice
    OpeningAsk <- MCOpeningAsk
    InitialFunds = 7
    Requests <- MCRequests
    MaxOrders = 6
    ClosesAt = 2
    MaxTime = 2
INVARIANTS TypeOK MoneyHolds OrdersAreBacked NothingLeftToMatch
PROPERTIES PriorityRespected
CHECK_DEADLOCK FALSE
