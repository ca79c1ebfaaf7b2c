---------------------------- MODULE Withdrawals ----------------------------
(***************************************************************************)
(* The withdrawal lifecycle of WalletService, with the risk-based          *)
(* automatic approval of WithdrawalRiskService.                            *)
(*                                                                         *)
(* create_withdrawal_request runs in two steps here. Request locks the     *)
(* wallet row of one currency, makes its checks and inserts its rows;      *)
(* Finish reserves the funds (which locks the user row), evaluates the     *)
(* risk policy and commits. In between, the user's other requests run on   *)
(* their other wallets, and the account may be deactivated. Every          *)
(* administrator operation holds the lock of the withdrawal row from its   *)
(* first read to its commit and is one action. A single wallet operation   *)
(* is atomic: WalletLedger shows that _execute is.                         *)
(***************************************************************************)
EXTENDS Integers, FiniteSets, FiniteSetsExt

CONSTANTS
    Procs,               \* concurrent create_withdrawal_request calls
    Users, Currencies,
    Keys,                \* idempotency keys of requests
    Destinations,
    Requests,            \* the requests that are made
    InitialFunds,        \* available balance of every wallet at the start
    MaxSingle,           \* WALLET_WITHDRAWAL_AUTO_APPROVAL_MAX_SINGLE_UGX
    MaxDayCount, MaxDayValue, MaxWeekValue,  \* ..._MAX_24H_COUNT, _MAX_24H_UGX, _MAX_7D_UGX
    AutoApprovalEnabled,
    DayWindow, WeekWindow,  \* 24 hours and 7 days, in units of the clock
    MaxTime,             \* bound: the last clock value explored
    MaxOrderHold,        \* bound: what market orders reserve of one wallet
    NoRequest, NoWithdrawal

Accounts == Users \X Currencies

RequestType ==
    [key : Keys, account : Accounts, amount : Nat \ {0}, destination : Destinations]

(* What the constants must satisfy.                                        *)
RequestsAssumption == NoRequest \notin Requests /\ Requests \subseteq RequestType
SettingsAssumption ==
    /\ InitialFunds \in Nat /\ MaxTime \in Nat /\ MaxOrderHold \in Nat
    /\ {MaxSingle, MaxDayCount, MaxDayValue, MaxWeekValue, DayWindow, WeekWindow} \subseteq Nat
    /\ AutoApprovalEnabled \in BOOLEAN

Statuses == {"PENDING_APPROVAL", "APPROVED", "REJECTED", "PROCESSING",
             "COMPLETED", "FAILED"}
Active   == {"PENDING_APPROVAL", "APPROVED", "PROCESSING"}
TransactionStatuses == {"PENDING", "COMPLETED", "FAILED", "CANCELLED"}
Modes    == {"PENDING", "AUTOMATIC", "MANUAL"}
Reasons  == {"ACCOUNT_NOT_ELIGIBLE", "AMOUNT_ABOVE_AUTO_APPROVAL_LIMIT",
             "WITHDRAWAL_COUNT_24H_LIMIT", "WITHDRAWAL_VALUE_24H_LIMIT",
             "WITHDRAWAL_VALUE_7D_LIMIT", "NEW_WITHDRAWAL_DESTINATION",
             "RECENT_FAILED_WITHDRAWAL"}

Withdrawal ==
    [request : RequestType, created : Nat, status : Statuses,
     transaction : TransactionStatuses, mode : Modes, reasons : SUBSET Reasons]

VARIABLES
    now,         \* the clock
    eligible,    \* users that are active and verified
    available, reserved,   \* balances of each wallet
    orderHold,   \* the part of reserved that belongs to market orders
    gone,        \* what has left the wallet: payouts, purchases, fills
    withdrawal,  \* committed withdrawals, by idempotency key
    work,        \* the request each transaction is serving
    walletLock,  \* wallets whose row a serving transaction has locked
    RequireKnownDestination  \* a setting of the deployment, which never changes

money == <<available, reserved, orderHold, gone>>
serving == <<work, walletLock>>
vars == <<now, eligible, available, reserved, orderHold, gone, withdrawal,
          work, walletLock, RequireKnownDestination>>

TypeOK ==
    /\ now \in 0 .. MaxTime
    /\ eligible \subseteq Users
    /\ available \in [Accounts -> Nat]
    /\ reserved \in [Accounts -> Nat]
    /\ orderHold \in [Accounts -> Nat]
    /\ gone \in [Accounts -> Nat]
    /\ withdrawal \in [Keys -> Withdrawal \cup {NoWithdrawal}]
    /\ work \in [Procs -> Requests \cup {NoRequest}]
    /\ walletLock \subseteq Accounts
    /\ RequireKnownDestination \in BOOLEAN

Init ==
    /\ now = 0
    /\ eligible = Users
    /\ available = [a \in Accounts |-> InitialFunds]
    /\ reserved = [a \in Accounts |-> 0]
    /\ orderHold = [a \in Accounts |-> 0]
    /\ gone = [a \in Accounts |-> 0]
    /\ withdrawal = [k \in Keys |-> NoWithdrawal]
    /\ work = [p \in Procs |-> NoRequest]
    /\ walletLock = {}
    /\ RequireKnownDestination \in BOOLEAN

-----------------------------------------------------------------------------
Exists(k) == withdrawal[k] # NoWithdrawal
OwnerOf(a) == a[1]

\* Defective forms of the wallet operations, which the runs must notice.
ReserveUnchecked(a, n) ==
    /\ available' = [available EXCEPT ![a] = @ - n]
    /\ reserved' = [reserved EXCEPT ![a] = @ + n]

ReleaseKeepsReserved(a, n) ==
    /\ reserved[a] >= n
    /\ available' = [available EXCEPT ![a] = @ + n]
    /\ UNCHANGED reserved

\* The wallet operations that withdrawals use, as WalletService defines them.
Reserve(a, n) ==
    /\ available[a] >= n
    /\ available' = [available EXCEPT ![a] = @ - n]
    /\ reserved' = [reserved EXCEPT ![a] = @ + n]

Release(a, n) ==
    /\ reserved[a] >= n
    /\ available' = [available EXCEPT ![a] = @ + n]
    /\ reserved' = [reserved EXCEPT ![a] = @ - n]

ConsumeReserved(a, n) ==
    /\ reserved[a] >= n
    /\ reserved' = [reserved EXCEPT ![a] = @ - n]
    /\ gone' = [gone EXCEPT ![a] = @ + n]

-----------------------------------------------------------------------------
(* create_withdrawal_request up to the insert of its rows. A key already   *)
(* used returns the existing withdrawal or is refused; either way nothing  *)
(* changes. The unique transaction reference makes a second insert of the  *)
(* same key wait for the first.                                            *)
Request(p, r) ==
    /\ work[p] = NoRequest
    /\ OwnerOf(r.account) \in eligible
    /\ r.account \notin walletLock
    /\ ~Exists(r.key)
    /\ \A q \in Procs : work[q] # NoRequest => work[q].key # r.key
    /\ available[r.account] >= r.amount
    /\ work' = [work EXCEPT ![p] = r]
    /\ walletLock' = walletLock \cup {r.account}
    /\ UNCHANGED <<now, eligible, money, withdrawal>>

\* The user's committed withdrawals created within a window before now.
Recent(u, window) ==
    {k \in Keys : /\ Exists(k)
                  /\ OwnerOf(withdrawal[k].request.account) = u
                  /\ withdrawal[k].created >= now - window}

Total(keys) == MapThenSumSet(LAMBDA k : withdrawal[k].request.amount, keys)

\* Any earlier withdrawal, paid out or not, makes its destination known.
RequestedBefore(u, destination) ==
    \E k \in Keys : /\ Exists(k)
                    /\ OwnerOf(withdrawal[k].request.account) = u
                    /\ withdrawal[k].request.destination = destination

HasKnownDestination(u, destination) ==
    \E k \in Keys : /\ Exists(k)
                    /\ OwnerOf(withdrawal[k].request.account) = u
                    /\ withdrawal[k].status = "COMPLETED"
                    /\ withdrawal[k].request.destination = destination

\* A policy that looks at the wallet of the request only.
PerWalletPolicy(r) ==
    LET u == OwnerOf(r.account)
        day == {k \in Recent(u, DayWindow) : withdrawal[k].request.account = r.account} IN
    {reason \in Reasons :
        \/ reason = "ACCOUNT_NOT_ELIGIBLE" /\ u \notin eligible
        \/ reason = "AMOUNT_ABOVE_AUTO_APPROVAL_LIMIT" /\ r.amount > MaxSingle
        \/ reason = "WITHDRAWAL_COUNT_24H_LIMIT" /\ Cardinality(day) + 1 > MaxDayCount
        \/ reason = "WITHDRAWAL_VALUE_24H_LIMIT" /\ Total(day) + r.amount > MaxDayValue}

(* WithdrawalRiskService.evaluate: the reasons that keep a request from    *)
(* automatic approval. The limits count every earlier withdrawal of the    *)
(* user, whatever its currency and its outcome.                            *)
RiskReasons(r) ==
    LET u    == OwnerOf(r.account)
        day  == Recent(u, DayWindow)
        week == Recent(u, WeekWindow)
    IN {reason \in Reasons :
        \/ reason = "ACCOUNT_NOT_ELIGIBLE" /\ u \notin eligible
        \/ reason = "AMOUNT_ABOVE_AUTO_APPROVAL_LIMIT" /\ r.amount > MaxSingle
        \/ reason = "WITHDRAWAL_COUNT_24H_LIMIT" /\ Cardinality(day) + 1 > MaxDayCount
        \/ reason = "WITHDRAWAL_VALUE_24H_LIMIT" /\ Total(day) + r.amount > MaxDayValue
        \/ reason = "WITHDRAWAL_VALUE_7D_LIMIT" /\ Total(week) + r.amount > MaxWeekValue
        \/ reason = "NEW_WITHDRAWAL_DESTINATION"
             /\ RequireKnownDestination /\ ~HasKnownDestination(u, r.destination)
        \/ reason = "RECENT_FAILED_WITHDRAWAL"
             /\ \E k \in week : withdrawal[k].status = "FAILED"}

AutoApprove(r) == AutoApprovalEnabled /\ RiskReasons(r) = {}

StopServing(p) ==
    /\ work' = [work EXCEPT ![p] = NoRequest]
    /\ walletLock' = walletLock \ {work[p].account}

(* The rest of create_withdrawal_request: reserve, evaluate, commit.       *)
Finish(p) ==
    LET r == work[p] IN
    /\ r # NoRequest
    /\ Reserve(r.account, r.amount)
    /\ withdrawal' = [withdrawal EXCEPT ![r.key] =
           [request |-> r, created |-> now,
            status |-> IF AutoApprove(r) THEN "APPROVED" ELSE "PENDING_APPROVAL",
            transaction |-> "PENDING",
            mode |-> IF AutoApprove(r) THEN "AUTOMATIC" ELSE "PENDING",
            reasons |-> RiskReasons(r)]]
    /\ StopServing(p)
    /\ UNCHANGED <<now, eligible, orderHold, gone>>

(* The transaction is rolled back before it commits.                       *)
Abandon(p) ==
    /\ work[p] # NoRequest
    /\ StopServing(p)
    /\ UNCHANGED <<now, eligible, money, withdrawal>>

-----------------------------------------------------------------------------
(* The administrator operations. A call in another state is refused, or    *)
(* returns the withdrawal unchanged when it is already in the target state. *)
HasStatus(k, statuses) == Exists(k) /\ withdrawal[k].status \in statuses

WalletFree(k) == withdrawal[k].request.account \notin walletLock

ApproveWithdrawal(k) ==
    /\ HasStatus(k, {"PENDING_APPROVAL"})
    /\ withdrawal' = [withdrawal EXCEPT ![k].status = "APPROVED", ![k].mode = "MANUAL"]
    /\ UNCHANGED <<now, eligible, money, serving>>

RejectWithdrawal(k) ==
    /\ HasStatus(k, {"PENDING_APPROVAL"})
    /\ WalletFree(k)
    /\ Release(withdrawal[k].request.account, withdrawal[k].request.amount)
    /\ withdrawal' = [withdrawal EXCEPT ![k].status = "REJECTED",
                                        ![k].transaction = "CANCELLED"]
    /\ UNCHANGED <<now, eligible, orderHold, gone, serving>>

MarkProcessing(k) ==
    /\ HasStatus(k, {"APPROVED"})
    /\ withdrawal' = [withdrawal EXCEPT ![k].status = "PROCESSING"]
    /\ UNCHANGED <<now, eligible, money, serving>>

CompleteWithdrawal(k) ==
    /\ HasStatus(k, {"PROCESSING"})
    /\ WalletFree(k)
    /\ ConsumeReserved(withdrawal[k].request.account, withdrawal[k].request.amount)
    /\ withdrawal' = [withdrawal EXCEPT ![k].status = "COMPLETED",
                                        ![k].transaction = "COMPLETED"]
    /\ UNCHANGED <<now, eligible, available, orderHold, serving>>

\* The guard of fail_withdrawal without its status condition.
FailsAnything(k) ==
    /\ Exists(k) /\ WalletFree(k)
    /\ Release(withdrawal[k].request.account, withdrawal[k].request.amount)
    /\ withdrawal' = [withdrawal EXCEPT ![k].status = "FAILED", ![k].transaction = "FAILED"]
    /\ UNCHANGED <<now, eligible, orderHold, gone, serving>>

\* The transaction row is not updated.
FailForgetsTransaction(k) ==
    /\ HasStatus(k, {"APPROVED", "PROCESSING"}) /\ WalletFree(k)
    /\ Release(withdrawal[k].request.account, withdrawal[k].request.amount)
    /\ withdrawal' = [withdrawal EXCEPT ![k].status = "FAILED"]
    /\ UNCHANGED <<now, eligible, orderHold, gone, serving>>

FailWithdrawal(k) ==
    /\ HasStatus(k, {"APPROVED", "PROCESSING"})
    /\ WalletFree(k)
    /\ Release(withdrawal[k].request.account, withdrawal[k].request.amount)
    /\ withdrawal' = [withdrawal EXCEPT ![k].status = "FAILED",
                                        ![k].transaction = "FAILED"]
    /\ UNCHANGED <<now, eligible, orderHold, gone, serving>>

-----------------------------------------------------------------------------
(* The other users of the same wallets, one quantum at a time: a purchase  *)
(* (spend_available_balance), and market orders, which reserve, release    *)
(* and consume what they reserved.                                         *)
SpendAvailable(a) ==
    /\ a \notin walletLock
    /\ available[a] >= 1
    /\ available' = [available EXCEPT ![a] = @ - 1]
    /\ gone' = [gone EXCEPT ![a] = @ + 1]
    /\ UNCHANGED <<now, eligible, reserved, orderHold, withdrawal, serving>>

OrderReserves(a) ==
    /\ a \notin walletLock
    /\ orderHold[a] < MaxOrderHold
    /\ Reserve(a, 1)
    /\ orderHold' = [orderHold EXCEPT ![a] = @ + 1]
    /\ UNCHANGED <<now, eligible, gone, withdrawal, serving>>

OrderReleases(a) ==
    /\ a \notin walletLock
    /\ orderHold[a] >= 1
    /\ Release(a, 1)
    /\ orderHold' = [orderHold EXCEPT ![a] = @ - 1]
    /\ UNCHANGED <<now, eligible, gone, withdrawal, serving>>

OrderConsumes(a) ==
    /\ a \notin walletLock
    /\ orderHold[a] >= 1
    /\ ConsumeReserved(a, 1)
    /\ orderHold' = [orderHold EXCEPT ![a] = @ - 1]
    /\ UNCHANGED <<now, eligible, available, withdrawal, serving>>

(* An account is deactivated or loses its verification.                    *)
LoseEligibility(u) ==
    /\ u \in eligible
    /\ eligible' = eligible \ {u}
    /\ UNCHANGED <<now, money, withdrawal, serving>>

\* The clock counts days; a request is served within one.
Tick ==
    /\ now < MaxTime
    /\ \A p \in Procs : work[p] = NoRequest
    /\ now' = now + 1
    /\ UNCHANGED <<eligible, money, withdrawal, serving>>

Step ==
    \/ \E p \in Procs : \/ \E r \in Requests : Request(p, r)
                        \/ Finish(p)
                        \/ Abandon(p)
    \/ \E k \in Keys : \/ ApproveWithdrawal(k) \/ RejectWithdrawal(k)
                       \/ MarkProcessing(k) \/ CompleteWithdrawal(k)
                       \/ FailWithdrawal(k)
    \/ \E a \in Accounts : \/ SpendAvailable(a) \/ OrderReserves(a)
                           \/ OrderReleases(a) \/ OrderConsumes(a)
    \/ \E u \in Users : LoseEligibility(u)
    \/ Tick

Next == Step /\ UNCHANGED RequireKnownDestination

Spec == Init /\ [][Next]_vars

-----------------------------------------------------------------------------
KeysOf(a, statuses) ==
    {k \in Keys : HasStatus(k, statuses) /\ withdrawal[k].request.account = a}

(* ReservedBacksWithdrawals: the reserved balance of a wallet is exactly   *)
(* what its unfinished withdrawals and its open orders have set aside, so  *)
(* that rejecting, failing or completing each of them can never be refused *)
(* for lack of reserved funds, and none of them takes another's funds.     *)
ReservedBacksWithdrawals ==
    \A a \in Accounts : reserved[a] = orderHold[a] + Total(KeysOf(a, Active))

(* FundsConserved: nothing is created or lost along any path of the        *)
(* lifecycle: what is not available or reserved has left the wallet, and   *)
(* each completed withdrawal left once.                                    *)
FundsConserved ==
    \A a \in Accounts :
        /\ available[a] + reserved[a] + gone[a] = InitialFunds
        /\ gone[a] >= Total(KeysOf(a, {"COMPLETED"}))

(* TransactionAgrees: the wallet transaction shown to the user ends the    *)
(* way the withdrawal ended, and is pending exactly as long.               *)
TransactionAgrees ==
    \A k \in Keys : Exists(k) =>
        withdrawal[k].transaction =
            (CASE withdrawal[k].status \in Active      -> "PENDING"
               [] withdrawal[k].status = "COMPLETED"   -> "COMPLETED"
               [] withdrawal[k].status = "FAILED"      -> "FAILED"
               [] withdrawal[k].status = "REJECTED"    -> "CANCELLED")

(* AutoApprovalsBounded: within any 24-hour window a user's automatically  *)
(* approved withdrawals stay within the configured count and value, even   *)
(* when requests on wallets of different currencies run at the same time.  *)
AutoApprovalsBounded ==
    \A u \in Users : \A from \in 0 .. MaxTime :
        LET window == {k \in Keys : /\ Exists(k) /\ withdrawal[k].mode = "AUTOMATIC"
                                    /\ OwnerOf(withdrawal[k].request.account) = u
                                    /\ withdrawal[k].created \in from .. (from + DayWindow)}
        IN  /\ Cardinality(window) <= MaxDayCount
            /\ Total(window) <= MaxDayValue

(* AutomaticOnlyIfTrusted: a withdrawal that skipped manual approval had    *)
(* no risk reason and, when the policy asks for it, went to a destination   *)
(* that an earlier withdrawal of the same user was paid out to.             *)
AutomaticOnlyIfTrusted ==
    \A k \in Keys : Exists(k) /\ withdrawal[k].mode = "AUTOMATIC" =>
        /\ AutoApprovalEnabled /\ withdrawal[k].reasons = {}
        /\ withdrawal[k].request.amount <= MaxSingle
        /\ RequireKnownDestination =>
             \E j \in Keys \ {k} :
                 /\ HasStatus(j, {"COMPLETED"})
                 /\ OwnerOf(withdrawal[j].request.account) = OwnerOf(withdrawal[k].request.account)
                 /\ withdrawal[j].request.destination = withdrawal[k].request.destination
                 /\ withdrawal[j].created <= withdrawal[k].created

(* TerminalIsFinal: a rejected, completed or failed withdrawal never       *)
(* changes again, and a committed one is never replaced by another request *)
(* that carries its idempotency key.                                       *)
KeepsTerminal ==
     \A k \in Keys : Exists(k) =>
         /\ withdrawal'[k] # NoWithdrawal
         /\ withdrawal'[k].request = withdrawal[k].request
         /\ withdrawal[k].status \notin Active => withdrawal'[k] = withdrawal[k]
TerminalIsFinal == [][KeepsTerminal]_vars
=============================================================================
