SPECIFICATION Spec
CONSTANTS
    ann = ann
    bob = bob
    treasury = treasury
    None = None
    Users <- MCUsers
    Provider = treasury
    Unit = 3
    OpeningLiquidity = 0
    OpeningPrice <- MCOpeningPrice
    OpeningAsk <- MCOpeningAsk
    InitialFunds = 6
    Requests <- MCRequests
    MaxOrders = 3
    ClosesAt = 2
    MaxTime = 2
PROPERTIES NoLateFill
CHECK_DEADLOCK FALSE
