SPECIFICATION Spec
CONSTANTS
    None = None
    Processes = {1, 2}
    PaymentKeys = {"deposit"}
    Staff = {"staff"}
    PerKind = 1
    MaxTime = 1
    Documents = {"document"}
    Synthetic = {2}
    Tries = 2
    Bound = 2
INVARIANTS TypeOK OutcomesHold DepositsCreditedOnce
PROPERTIES OutcomesStand
CHECK_DEADLOCK FALSE
