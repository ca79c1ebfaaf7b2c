------------------------- MODULE PlatformMemberships -------------------------
(***************************************************************************)
(* Memberships of the platform that one fan buys from the wallet: plans    *)
(* and their prices, subscriptions, cancellations by the fan or the staff. *)
(*                                                                         *)
(* A subscription reads the plan first.  Then, in one transaction, it      *)
(* locks the wallet of the plan's currency, pays under an idempotency key  *)
(* (a key that paid before pays nothing), cancels the active memberships   *)
(* it sees and creates a new one.  The staff edits a plan by saving the    *)
(* whole row it read, or sets its status.                                  *)
(***************************************************************************)
EXTENDS Naturals, Sequences, FiniteSets, FiniteSetsExt

CONSTANTS
    Plans, Currencies,
    Currency,        \* plan |-> its currency
    Prices, Keys, Requests, Editors,
    Funds,           \* what the wallet of each currency starts with
    MaxMemberships,  \* bound on the subscriptions created
    MaxEdits,        \* bound on the edits of plans
    None

PlanStatus == {"DRAFT", "ACTIVE", "ARCHIVED"}

VARIABLES
    plans,        \* plan |-> [status, price]
    memberships,  \* the subscriptions of the fan, in the order of creation
    payments,     \* key |-> the wallet transaction it made, or None
    balance,      \* available balance of each wallet
    locked,       \* currency |-> the request that locked its wallet, or None
    calls,        \* what each request is doing
    drafts,       \* editor |-> the plan it read and will save, or None
    edits,
    closed        \* history: plans whose last status set was not ACTIVE

vars == <<plans, memberships, payments, balance, locked, calls, drafts, edits, closed>>

Rows == [status : PlanStatus, price : Prices]
Subscriptions == [plan : Plans, active : BOOLEAN, amount_paid : Prices, key : Keys]
Idle == [step |-> None, plan |-> None, price |-> None, key |-> None, cancels |-> {}]

TypeOK ==
    /\ plans \in [Plans -> Rows]
    /\ memberships \in Seq(Subscriptions) /\ Len(memberships) <= MaxMemberships
    /\ \A k \in Keys : payments[k] = None
                       \/ payments[k] \in [currency : Currencies, amount : Prices]
    /\ balance \in [Currencies -> Nat]
    /\ locked \in [Currencies -> Requests \cup {None}]
    /\ \A r \in Requests : calls[r].cancels \subseteq 1..MaxMemberships
    /\ edits \in 0..MaxEdits /\ closed \subseteq Plans

Init ==
    /\ plans \in [Plans -> [status : {"ACTIVE"}, price : Prices]]
    /\ memberships = <<>> /\ payments = [k \in Keys |-> None]
    /\ balance = [m \in Currencies |-> Funds]
    /\ locked = [m \in Currencies |-> None]
    /\ calls = [r \in Requests |-> Idle]
    /\ drafts = [e \in Editors |-> None] /\ edits = 0 /\ closed = {}

At(r, step) == calls[r].step = step
Active == {i \in DOMAIN memberships : memberships[i].active}
staff == <<plans, drafts, edits, closed>>

-----------------------------------------------------------------------------
(* The view reads an active plan; price and status are those it read.      *)
Subscribe(r, p, k) ==
    /\ At(r, None) /\ plans[p].status = "ACTIVE"
    /\ Len(memberships) + Cardinality({q \in Requests : ~At(q, None)}) < MaxMemberships
    /\ calls' = [calls EXCEPT ![r] = [step |-> "pay", plan |-> p, key |-> k,
                                      price |-> plans[p].price, cancels |-> {}]]
    /\ UNCHANGED <<memberships, payments, balance, locked, staff>>

(* spend_available_balance, with the wallet locked until the transaction   *)
(* ends.  A key that paid before must have paid the same amount.           *)
MatchesUser(k, currency, amount) == payments[k].currency = currency
Matches(k, currency, amount) == payments[k] = [currency |-> currency, amount |-> amount]

Pay(r) ==
    LET c == calls[r]  m == Currency[c.plan]
        new == payments[c.key] = None
        refused == IF new THEN balance[m] < c.price ELSE ~Matches(c.key, m, c.price)
    IN
    /\ At(r, "pay") /\ locked[m] = None
    /\ \A q \in Requests : calls[q].key = c.key => ~At(q, "replace") /\ ~At(q, "create")
    /\ UNCHANGED <<memberships, staff>>
    /\ IF refused
       THEN calls' = [calls EXCEPT ![r] = Idle] /\ UNCHANGED <<payments, balance, locked>>
       ELSE /\ calls' = [calls EXCEPT ![r].step = "replace"]
            /\ locked' = [locked EXCEPT ![m] = r]
            /\ IF new
               THEN /\ payments' = [payments EXCEPT ![c.key] =
                                       [currency |-> m, amount |-> c.price]]
                    /\ balance' = [balance EXCEPT ![m] = @ - c.price]
               ELSE UNCHANGED <<payments, balance>>

(* The active memberships that are committed; a row another transaction    *)
(* cancels makes this one wait.                                            *)
Replace(r) ==
    /\ At(r, "replace")
    /\ \A q \in Requests : calls[q].cancels \cap Active = {}
    /\ calls' = [calls EXCEPT ![r].step = "create", ![r].cancels = Active]
    /\ UNCHANGED <<memberships, payments, balance, locked, staff>>

Create(r) ==
    LET c == calls[r] IN
    /\ At(r, "create")
    /\ memberships' = Append(
           [i \in DOMAIN memberships |->
               IF i \in c.cancels THEN [memberships[i] EXCEPT !.active = FALSE]
               ELSE memberships[i]],
           [plan |-> c.plan, active |-> TRUE, amount_paid |-> c.price, key |-> c.key])
    /\ locked' = [locked EXCEPT ![Currency[c.plan]] = None]
    /\ calls' = [calls EXCEPT ![r] = Idle]
    /\ UNCHANGED <<payments, balance, staff>>

(* By the fan or by the staff.                                             *)
Cancel(i) ==
    /\ i \in Active /\ \A q \in Requests : i \notin calls[q].cancels
    /\ memberships' = [memberships EXCEPT ![i].active = FALSE]
    /\ UNCHANGED <<payments, balance, locked, calls, staff>>

-----------------------------------------------------------------------------
(* The staff sets a status, or reads a plan and later saves all of it.     *)
SetStatus(p, s) ==
    /\ edits < MaxEdits /\ edits' = edits + 1 /\ plans[p].status # s
    /\ plans' = [plans EXCEPT ![p].status = s]
    /\ closed' = IF s = "ACTIVE" THEN closed \ {p} ELSE closed \cup {p}
    /\ UNCHANGED <<memberships, payments, balance, locked, calls, drafts>>

ReadPlan(e, p, price) ==
    /\ drafts[e] = None /\ edits < MaxEdits /\ edits' = edits + 1
    /\ drafts' = [drafts EXCEPT ![e] = [plan |-> p,
                                        row |-> [plans[p] EXCEPT !.price = price]]]
    /\ UNCHANGED <<plans, memberships, payments, balance, locked, calls, closed>>

SavePlan(e) ==
    /\ drafts[e] # None
    /\ plans' = [plans EXCEPT ![drafts[e].plan] = drafts[e].row]
    /\ drafts' = [drafts EXCEPT ![e] = None]
    /\ UNCHANGED <<memberships, payments, balance, locked, calls, edits, closed>>

-----------------------------------------------------------------------------
Buying == \E r \in Requests :
    \/ \E p \in Plans, k \in Keys : Subscribe(r, p, k)
    \/ Pay(r) \/ Replace(r) \/ Create(r)
Cancelling == \E i \in DOMAIN memberships : Cancel(i)
Managing == \/ \E p \in Plans, s \in PlanStatus : SetStatus(p, s)
            \/ \E e \in Editors, p \in Plans, x \in Prices : ReadPlan(e, p, x)
            \/ \E e \in Editors : SavePlan(e)

Next == Buying \/ Cancelling \/ Managing

Spec == Init /\ [][Next]_vars

-----------------------------------------------------------------------------
Paid(m) == {k \in Keys : payments[k] # None /\ payments[k].currency = m}

(* What left a wallet is what its payments say, and every membership was   *)
(* paid for at the price it records, however prices change and keys are    *)
(* used again.                                                             *)
MembershipsArePaid ==
    /\ \A m \in Currencies :
           balance[m] + MapThenSumSet(LAMBDA k : payments[k].amount, Paid(m)) = Funds
    /\ \A i \in DOMAIN memberships :
           LET s == memberships[i] IN
           payments[s.key] = [currency |-> Currency[s.plan], amount |-> s.amount_paid]

(* Buying a membership replaces the active one of the same currency; of    *)
(* two purchases at once the wallet lets one in first.                     *)
OneActivePerCurrency == \A m \in Currencies :
    Cardinality({i \in Active : Currency[memberships[i].plan] = m}) <= 1

(* Buying a membership replaces the active one.                            *)
OneActiveMembership == Cardinality(Active) <= 1

(* Each membership has a payment of its own.                               *)
EachIsPaidFor == \A i, j \in DOMAIN memberships :
    i # j => memberships[i].key # memberships[j].key

(* A plan that was paused or archived stays so until it is activated.      *)
ClosedPlansStayClosed == \A p \in closed : plans[p].status # "ACTIVE"
=============================================================================
