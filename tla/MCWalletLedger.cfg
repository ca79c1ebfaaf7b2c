SPECIFICATION FairSpec
CONSTANTS
    p1 = p1
    p2 = p2
    u1 = u1
    u2 = u2
    r1 = r1
    r2 = r2
    r3 = r3
    NoProc = NoProc
    NoCall = NoCall
    NoEntry = NoEntry
    Procs <- MCProcs
    Users <- MCUsers
    Currencies <- MCCurrencies
    References <- MCReferences
    Contexts <- MCContexts
    Calls <- MCCalls
INVARIANTS TypeOK LedgerExplainsBalance UniqueReference SuccessIsRecorded NoWaitCycle
PROPERTIES ImplementsAbstractLedger EveryCallEnds
