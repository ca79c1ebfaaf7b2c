SPECIFICATION Spec
CONSTANTS
    None = None
    Requests = {c, d}
    Pair = {s, t}
    People = {"user"}
    Currencies = {"UGX", "KES"}
    Destinations = {"bank", "mobile"}
    WithdrawalKeys = {1, 2}
    Withdrawn <- SomeWithdrawals
    Funds = 2
    Policy <- LowPolicy
    LastMoment = 2
    MaxHeld = 1
    PlatformLimits <- SomeLimits
    MaxDecisions = 1
    MaxRevisions = 2
    OrderMarkets = {1, 2}
    Prices = {1, 2}
    Sizes = {1, 2}
    Values = {2}
    Durations = {1}
    LastDay = 1
    MaxOrders = 2
    MaxControls = 1
    Owners = {1, 2, 3}
    Capacities = {2, 3}
    MaxPoints = 1
    MaxUpdates = 1
    Members = {cy, di}
    Invitees = {cy}
    MaxInvitations = 2
    MaxLoad = 3
SYMMETRY Symmetry
INVARIANTS TypeOK WithdrawalsBalance AutoApprovalsSafe MoneyDesksBalance TradesCleared InvitationGivesAccess
PROPERTIES LimitsHold
CHECK_DEADLOCK FALSE
