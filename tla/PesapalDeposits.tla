-------------------------- MODULE PesapalDeposits --------------------------
(***************************************************************************)
(* Wallet top-ups through Pesapal: PesapalDepositService and its callers.  *)
(*                                                                         *)
(* start_deposit runs as three transactions with a network call between    *)
(* the last two; a starter may die after any of them, and two requests may *)
(* carry the same idempotency key. reconcile_notification asks Pesapal for *)
(* the payment status first and applies the answer later, under the row    *)
(* locks of the deposit and of its intent: by then the answer may be old.  *)
(* Pesapal notifies at least once after each change of a payment and       *)
(* repeats a notification that was not acknowledged; notifications may     *)
(* come twice, late or out of order.                                       *)
(***************************************************************************)
EXTENDS Naturals

CONSTANTS
    Deposits,    \* idempotency keys, one intent and one Pesapal order each
    Starters,    \* concurrent start_deposit calls
    Handlers,    \* concurrent reconcile_notification calls
    NoDeposit

(* What the constants must satisfy.                                        *)
NoDepositAssumption == NoDeposit \notin Deposits

IntentStatuses == {"none", "PENDING", "COMPLETED", "FAILED"}
OrderStatuses  == {"none", "open", "paid", "failed", "invalid", "reversed"}

VARIABLES
    intent,      \* status of the DepositIntent ("none": no row)
    row,         \* is there a PesapalDeposit row?
    tracking,    \* does it carry order_tracking_id?
    redirect,    \* does it carry redirect_url?
    shown,       \* its provider_status, as the order status it names
    credits,     \* ledger credits committed for the deposit
    submissions, \* calls of submit_order made for the deposit
    order,       \* the order at Pesapal
    owed,        \* Pesapal owes a notification of the order's last change
    startPc, startOf,      \* each starter: next statement, deposit
    handlePc, handleOf,    \* each handler: next statement, deposit
    seen,        \* the order status a handler was told
    flagged      \* deposits some handler returned for manual reconciliation

dbVars       == <<intent, row, tracking, redirect, shown, credits, flagged>>
providerVars == <<order, submissions>>
startVars    == <<startPc, startOf>>
handleVars   == <<handlePc, handleOf, seen>>
vars == <<intent, row, tracking, redirect, shown, credits, submissions, order,
          owed, startPc, startOf, handlePc, handleOf, seen, flagged>>

TypeOK ==
    /\ intent \in [Deposits -> IntentStatuses]
    /\ row \in [Deposits -> BOOLEAN]
    /\ tracking \in [Deposits -> BOOLEAN]
    /\ redirect \in [Deposits -> BOOLEAN]
    /\ shown \in [Deposits -> OrderStatuses]
    /\ credits \in [Deposits -> Nat]
    /\ submissions \in [Deposits -> Nat]
    /\ order \in [Deposits -> OrderStatuses]
    /\ owed \in [Deposits -> BOOLEAN]
    /\ startPc \in [Starters -> {"idle", "row", "submit", "store"}]
    /\ startOf \in [Starters -> Deposits \cup {NoDeposit}]
    /\ handlePc \in [Handlers -> {"idle", "query", "apply"}]
    /\ handleOf \in [Handlers -> Deposits \cup {NoDeposit}]
    /\ seen \in [Handlers -> OrderStatuses]
    /\ flagged \subseteq Deposits

Init ==
    /\ intent = [d \in Deposits |-> "none"]
    /\ row = [d \in Deposits |-> FALSE]
    /\ tracking = [d \in Deposits |-> FALSE]
    /\ redirect = [d \in Deposits |-> FALSE]
    /\ shown = [d \in Deposits |-> "none"]
    /\ credits = [d \in Deposits |-> 0]
    /\ submissions = [d \in Deposits |-> 0]
    /\ order = [d \in Deposits |-> "none"]
    /\ owed = [d \in Deposits |-> FALSE]
    /\ startPc = [s \in Starters |-> "idle"]
    /\ startOf = [s \in Starters |-> NoDeposit]
    /\ handlePc = [h \in Handlers |-> "idle"]
    /\ handleOf = [h \in Handlers |-> NoDeposit]
    /\ seen = [h \in Handlers |-> "none"]
    /\ flagged = {}

-----------------------------------------------------------------------------
(* start_deposit.                                                          *)
StartEnds(s) ==
    /\ startPc' = [startPc EXCEPT ![s] = "idle"]
    /\ startOf' = [startOf EXCEPT ![s] = NoDeposit]

StartGoesTo(s, step) ==
    /\ startPc' = [startPc EXCEPT ![s] = step]
    /\ UNCHANGED startOf

(* create_deposit_intent: idempotent on the key.                           *)
CreateIntent(s, d) ==
    /\ startPc[s] = "idle"
    /\ startPc' = [startPc EXCEPT ![s] = "row"]
    /\ startOf' = [startOf EXCEPT ![s] = d]
    /\ intent' = [intent EXCEPT ![d] = IF @ = "none" THEN "PENDING" ELSE @]
    /\ UNCHANGED <<row, tracking, redirect, shown, credits, flagged,
                   providerVars, owed, handleVars>>

\* A starter that finds the row and no checkout URL submits again.
Resubmits(s) ==
    LET d == startOf[s] IN
    /\ startPc[s] = "row"
    /\ \/ tracking[d] /\ redirect[d] /\ StartEnds(s)
       \/ ~(tracking[d] /\ redirect[d]) /\ StartGoesTo(s, "submit")
    /\ row' = [row EXCEPT ![d] = TRUE]
    /\ UNCHANGED <<intent, tracking, redirect, shown, credits, flagged,
                   providerVars, owed, handleVars>>

(* The second transaction, under the lock of the intent: only the starter  *)
(* that inserts the row goes on to submit; another one returns the stored  *)
(* checkout or is refused.                                                 *)
CreateRow(s) ==
    LET d == startOf[s] IN
    /\ startPc[s] = "row"
    /\ \/ row[d] /\ StartEnds(s)
       \/ ~row[d] /\ StartGoesTo(s, "submit")
    /\ row' = [row EXCEPT ![d] = TRUE]
    /\ UNCHANGED <<intent, tracking, redirect, shown, credits, flagged,
                   providerVars, owed, handleVars>>

(* submit_order, outside any transaction: Pesapal opens the order; the     *)
(* answer may be lost on the way back (PesapalApiError).                   *)
SubmitOrder(s) ==
    LET d == startOf[s] IN
    /\ startPc[s] = "submit"
    /\ submissions' = [submissions EXCEPT ![d] = @ + 1]
    /\ order' = [order EXCEPT ![d] = IF @ = "none" THEN "open" ELSE @]
    /\ StartGoesTo(s, "store") \/ StartEnds(s)
    /\ UNCHANGED <<dbVars, owed, handleVars>>

(* The third transaction stores what Pesapal answered, unless a            *)
(* notification has stored the tracking id before it.                      *)
StoreCheckout(s) ==
    LET d == startOf[s] IN
    /\ startPc[s] = "store"
    /\ \/ tracking[d] /\ UNCHANGED <<tracking, redirect, shown>>
       \/ /\ ~tracking[d]
          /\ tracking' = [tracking EXCEPT ![d] = TRUE]
          /\ redirect' = [redirect EXCEPT ![d] = TRUE]
          /\ shown' = [shown EXCEPT ![d] = "open"]
    /\ StartEnds(s)
    /\ UNCHANGED <<intent, row, credits, flagged, providerVars, owed, handleVars>>

(* The worker dies, or Pesapal refuses the order before opening it.        *)
CrashStart(s) ==
    /\ startPc[s] # "idle"
    /\ StartEnds(s)
    /\ UNCHANGED <<dbVars, providerVars, owed, handleVars>>

-----------------------------------------------------------------------------
(* Pesapal. A payer who has the checkout URL pays or fails; a failed       *)
(* attempt can be repeated; a payment can be reversed.                     *)
PaymentChange == {<<"open", "paid">>, <<"open", "failed">>, <<"open", "invalid">>,
                  <<"failed", "paid">>, <<"paid", "reversed">>}

OrderChanges(d) ==
    /\ redirect[d]
    /\ \E status \in OrderStatuses :
          /\ <<order[d], status>> \in PaymentChange
          /\ order' = [order EXCEPT ![d] = status]
    /\ owed' = [owed EXCEPT ![d] = TRUE]
    /\ UNCHANGED <<dbVars, submissions, startVars, handleVars>>

-----------------------------------------------------------------------------
(* reconcile_notification, called by PesapalCallbackView and               *)
(* PesapalIpnView.                                                         *)
HandleEnds(h) ==
    /\ handlePc' = [handlePc EXCEPT ![h] = "idle"]
    /\ handleOf' = [handleOf EXCEPT ![h] = NoDeposit]
    /\ seen' = [seen EXCEPT ![h] = "none"]

(* A notification, due or repeated, arrives for a known deposit.           *)
Deliver(h, d) ==
    /\ handlePc[h] = "idle"
    /\ order[d] # "none"
    /\ row[d]
    /\ handlePc' = [handlePc EXCEPT ![h] = "query"]
    /\ handleOf' = [handleOf EXCEPT ![h] = d]
    /\ owed' = [owed EXCEPT ![d] = FALSE]
    /\ UNCHANGED <<dbVars, providerVars, startVars, seen>>

\* The notification itself is taken for a payment.
TrustsNotification(h) ==
    /\ handlePc[h] = "query"
    /\ handlePc' = [handlePc EXCEPT ![h] = "apply"]
    /\ seen' = [seen EXCEPT ![h] = "paid"]
    /\ UNCHANGED <<dbVars, providerVars, owed, startVars, handleOf>>

(* get_transaction_status, outside any transaction.                        *)
QueryStatus(h) ==
    /\ handlePc[h] = "query"
    /\ handlePc' = [handlePc EXCEPT ![h] = "apply"]
    /\ seen' = [seen EXCEPT ![h] = order[handleOf[h]]]
    /\ UNCHANGED <<dbVars, providerVars, owed, startVars, handleOf>>

(* The query fails, its answer does not match the deposit, or the worker   *)
(* dies: the notification is not acknowledged and Pesapal repeats it.      *)
HandleFails(h) ==
    /\ handlePc[h] # "idle"
    /\ owed' = [owed EXCEPT ![handleOf[h]] = TRUE]
    /\ HandleEnds(h)
    /\ UNCHANGED <<dbVars, providerVars, startVars>>

\* _complete_deposit without its COMPLETED guard.
CreditsAgain(d) ==
    /\ credits' = [credits EXCEPT ![d] = @ + 1]
    /\ intent' = [intent EXCEPT ![d] = "COMPLETED"]

\* _complete_deposit that leaves a failed intent alone.
NoSecondChance(d) ==
    IF intent[d] \in {"COMPLETED", "FAILED"} THEN UNCHANGED <<credits, intent>>
    ELSE /\ credits' = [credits EXCEPT ![d] = @ + 1]
         /\ intent' = [intent EXCEPT ![d] = "COMPLETED"]

(* _complete_deposit: credits an intent that is not completed yet.         *)
CompleteDeposit(d) ==
    IF intent[d] = "COMPLETED" THEN UNCHANGED <<credits, intent>>
    ELSE /\ credits' = [credits EXCEPT ![d] = @ + 1]
         /\ intent' = [intent EXCEPT ![d] = "COMPLETED"]

\* A late failure overwrites a completed intent.
FailsCompleted(d) ==
    /\ intent' = [intent EXCEPT ![d] = "FAILED"]
    /\ UNCHANGED credits

\* A status the rest of the service does not know.
ExpiresInstead(d) ==
    /\ intent' = [intent EXCEPT ![d] = IF @ = "COMPLETED" THEN @ ELSE "EXPIRED"]
    /\ UNCHANGED credits

\* FAILED, unless the deposit is already completed.
FailDeposit(d) ==
    /\ intent' = [intent EXCEPT ![d] = IF @ = "COMPLETED" THEN @ ELSE "FAILED"]
    /\ UNCHANGED credits

(* _apply_provider_status, under the row locks of deposit and intent.      *)
ApplyStatus(h) ==
    LET d == handleOf[h] IN
    /\ handlePc[h] = "apply"
    /\ tracking' = [tracking EXCEPT ![d] = TRUE]
    /\ shown' = [shown EXCEPT ![d] = seen[h]]
    /\ \/ seen[h] = "paid" /\ CompleteDeposit(d)
       \/ seen[h] \in {"failed", "invalid", "reversed"} /\ FailDeposit(d)
       \/ seen[h] = "open" /\ UNCHANGED <<credits, intent>>
    /\ flagged' = IF seen[h] = "reversed" /\ intent[d] = "COMPLETED"
                  THEN flagged \cup {d} ELSE flagged
    /\ HandleEnds(h)
    /\ UNCHANGED <<row, redirect, providerVars, owed, startVars>>

-----------------------------------------------------------------------------
Next ==
    \/ \E s \in Starters : \/ \E d \in Deposits : CreateIntent(s, d)
                           \/ CreateRow(s) \/ SubmitOrder(s)
                           \/ StoreCheckout(s) \/ CrashStart(s)
    \/ \E d \in Deposits : OrderChanges(d)
    \/ \E h \in Handlers : \/ \E d \in Deposits : Deliver(h, d)
                           \/ QueryStatus(h) \/ HandleFails(h) \/ ApplyStatus(h)

Spec == Init /\ [][Next]_vars

(* An owed notification is eventually delivered to some handler, and a     *)
(* handler that is not interrupted for ever eventually applies an answer:  *)
(* Pesapal repeats what is not acknowledged, and calls do get through.     *)
Fairness ==
    /\ \A d \in Deposits : WF_vars(owed[d] /\ \E h \in Handlers : Deliver(h, d))
    /\ \A h \in Handlers : SF_vars(QueryStatus(h)) /\ SF_vars(ApplyStatus(h))

FairSpec == Spec /\ Fairness

-----------------------------------------------------------------------------
(* CreditedExactlyWhenCompleted: repeated, concurrent and late             *)
(* notifications credit a deposit at most once, and exactly when its       *)
(* intent is shown as completed.                                           *)
CreditedExactlyWhenCompleted ==
    \A d \in Deposits : credits[d] = IF intent[d] = "COMPLETED" THEN 1 ELSE 0

(* CreditOnlyIfPaid: a credit needs a payment that Pesapal did receive,    *)
(* even if it was reversed since.                                          *)
CreditOnlyIfPaid ==
    \A d \in Deposits : credits[d] > 0 => order[d] \in {"paid", "reversed"}

(* SubmittedOnce: retries with the same idempotency key, after a crash or  *)
(* a lost answer or at the same time, never open a second order.           *)
SubmittedOnce == \A d \in Deposits : submissions[d] <= 1

(* CompletedIsFinal: no later status, stale or not, takes a completed      *)
(* deposit back.                                                           *)
KeepsCompleted ==
     \A d \in Deposits : intent[d] = "COMPLETED" => intent'[d] = "COMPLETED"
CompletedIsFinal == [][KeepsCompleted]_vars

(* PaidIsCredited: a payment that stays paid is eventually credited,       *)
(* whatever was lost, repeated or overtaken before, a failure that was     *)
(* applied first included.                                                 *)
PaidIsCredited ==
    \A d \in Deposits : (<>[](order[d] = "paid")) => <>(credits[d] = 1)

(* ReversalOfCreditIsFlagged: once Pesapal's notifications are all         *)
(* handled, a credited deposit whose payment was reversed has been         *)
(* reported for manual reconciliation.                                     *)
ReversalOfCreditIsFlagged ==
    \A d \in Deposits :
        /\ order[d] = "reversed" /\ credits[d] > 0
        /\ ~owed[d] /\ \A h \in Handlers : handleOf[h] # d
        => d \in flagged
=============================================================================
