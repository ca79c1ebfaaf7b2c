\* The creator also holds the approval permission, one of the other
\* verifiers also trades (so that it may publish, dispute or decide), and
\* one participant only trades.
SPECIFICATION FairSpec
CONSTANTS
    None = None
    Users = {creator, verifier, trader, fan}
    Creator = creator
    Managers = {creator}
    Approvers = {creator, verifier}
    Verifiers = {creator, verifier, trader}
    Participants = {trader, fan}
    Outcomes = {"YES", "NO"}
    OpensAt = 0
    ClosesAt = 1
    SettlesBy = 2
    Hours = {1, 2}
    Accelerator = TRUE
    MaxTime = 4
INVARIANTS TypeOK ClosedHasNoOrders ResolvedIsSettleable ResultFollowsReview PaidOutOnce
PROPERTIES ResolvedIsSettled
CHECK_DEADLOCK FALSE
