-------------------------- MODULE MarketResolution --------------------------
(***************************************************************************)
(* One market from its draft to the payout of its positions.  The actions  *)
(* are the operations of MarketLifecycleService, MarketProvisionalResult-  *)
(* Service, MarketResultDisputeService, MarketResultDisputeDecisionService,*)
(* MarketResolutionService, MarketSettlementService and                    *)
(* MarketVoidRefundService.                                                *)
(*                                                                         *)
(* Every operation is one database transaction that holds the row lock of  *)
(* the market from its first read on (submit_dispute and the accelerator   *)
(* lock the market through the join of their select_for_update), except    *)
(* decide, which holds the provisional-result row and takes the market row *)
(* when it resolves or voids.  They therefore exclude each other and are   *)
(* one step each.  A call that raises rolls back and is a step that        *)
(* changes nothing.  The edit of a draft is the exception: it reads the    *)
(* row without a lock and saves it as a whole, status included, whatever   *)
(* has happened to the market meanwhile.                                   *)
(*                                                                         *)
(* Orders and positions are kept as the sets of users that have one; the   *)
(* order book itself is the subject of MarketTrading.                      *)
(***************************************************************************)
EXTENDS Integers, Sequences, FiniteSets

CONSTANTS
    Users,         \* everybody who acts on the market
    Creator,       \* Market.created_by
    Managers,      \* holders of the permission manage_market
    Approvers,     \* holders of approve_market
    Verifiers,     \* holders of approve_market, verify_results or reject_result
    Participants,  \* users who may place orders
    Outcomes,      \* the outcomes of the market (YES and NO)
    None,          \* no outcome, no provisional result
    OpensAt, ClosesAt, SettlesBy,   \* the times of the market
    Hours,         \* the dispute windows and review extensions that are asked for
    Accelerator,   \* the development accelerator is switched on
    MaxTime        \* bound on the clock

ASSUME ResolutionAssumption ==
    /\ Creator \in Users
    /\ Managers \subseteq Users /\ Approvers \subseteq Verifiers
    /\ Verifiers \subseteq Users /\ Participants \subseteq Users
    /\ None \notin Outcomes
    /\ OpensAt \in Nat /\ ClosesAt \in Nat /\ SettlesBy \in Nat
    /\ OpensAt < ClosesAt /\ ClosesAt <= SettlesBy
    /\ Hours \subseteq Nat \ {0} /\ IsFiniteSet(Participants)
    /\ Accelerator \in BOOLEAN /\ MaxTime \in Nat

VARIABLES
    now,
    status,        \* Market.status
    winner,        \* Market.winning_outcome
    orders,        \* users with an OPEN or PARTIALLY_FILLED order
    holders,       \* users with a MarketPosition row
    provisional,   \* the MarketProvisionalResult, or None
    disputes,      \* participants of the MarketResultDispute rows
    decisions,     \* MarketResultDisputeDecision rows in order of sequence
    settled,       \* a MarketSettlement row exists
    refunded,      \* a MarketVoidRefund row exists
    editing,       \* the statuses that edits under way have read
    revived        \* an edit took back the status of a closed or terminal market

editVars == <<editing, revived>>
vars == <<now, status, winner, orders, holders, provisional, disputes,
          decisions, settled, refunded, editVars>>

lifecycleVars == <<now, winner, holders, provisional, disputes, decisions, settled, refunded>>

Statuses == {"DRAFT", "PENDING_APPROVAL", "APPROVED", "REJECTED", "OPEN",
             "SUSPENDED", "CLOSED", "RESOLVED", "VOIDED"}
VoidsResolved == {"APPROVED", "OPEN", "SUSPENDED", "CLOSED", "RESOLVED"}
VOIDABLE_STATUSES == {"APPROVED", "OPEN", "SUSPENDED", "CLOSED"}
FINAL_DECISION_TYPES == {"CONFIRM", "CORRECT", "VOID"}
DecisionTypes == FINAL_DECISION_TYPES \cup {"EXTEND_REVIEW"}

ProvisionalResults ==
    [winner : Outcomes, by : Users, deadline : Nat, accelerated : BOOLEAN]

ASSUME NoneAssumption == None \notin ProvisionalResults

Decisions ==
    [type : DecisionTypes, winner : Outcomes \cup {None}, by : Users,
     until : Nat, covered : Nat]

TypeOK ==
    /\ now \in 0..MaxTime
    /\ status \in Statuses
    /\ winner \in Outcomes \cup {None}
    /\ orders \subseteq Participants /\ holders \subseteq Participants
    /\ provisional \in ProvisionalResults \cup {None}
    /\ disputes \subseteq Participants
    /\ decisions \in Seq(Decisions)
    /\ settled \in BOOLEAN /\ refunded \in BOOLEAN
    /\ editing \subseteq {"DRAFT", "REJECTED"} /\ revived \in BOOLEAN

Init ==
    /\ now = 0 /\ status = "DRAFT" /\ winner = None
    /\ orders = {} /\ holders = {}
    /\ provisional = None /\ disputes = {} /\ decisions = <<>>
    /\ settled = FALSE /\ refunded = FALSE
    /\ editing = {} /\ revived = FALSE

Tick == now < MaxTime /\ now' = now + 1 /\ UNCHANGED <<status, winner, orders,
            holders, provisional, disputes, decisions, settled, refunded>>

-----------------------------------------------------------------------------
(* The lifecycle of the market.  A draft that is not complete (no source,   *)
(* criteria, rules or outcomes) is not submitted: the draft here is.        *)

ActiveWindow == OpensAt <= now /\ now < ClosesAt

MovesTo(from, to) == status \in from /\ status' = to /\ UNCHANGED lifecycleVars

Submit(u) ==
    u \in Managers /\ MovesTo({"DRAFT", "REJECTED"}, "PENDING_APPROVAL") /\ UNCHANGED orders

Approve(u) ==
    u \in Approvers /\ MovesTo({"PENDING_APPROVAL"}, "APPROVED") /\ UNCHANGED orders

Reject(u) ==
    u \in Approvers /\ MovesTo({"PENDING_APPROVAL"}, "REJECTED") /\ UNCHANGED orders

RevertToDraft(u) ==
    u \in Approvers /\ MovesTo({"APPROVED"}, "DRAFT") /\ UNCHANGED orders

(* The liquidity is booked on the approver instead of the provider.         *)
OpenForActor(u) ==
    /\ u \in Approvers
    /\ ActiveWindow
    /\ status = "APPROVED" /\ status' = "OPEN"
    /\ orders' = orders \cup {u}
    /\ holders' = holders \cup {u}
    /\ UNCHANGED <<now, winner, provisional, disputes, decisions, settled, refunded>>

(* With a configuration the treasury provider receives a position and two   *)
(* SELL orders, without one nothing happens.                                *)
ActivateOpeningLiquidity ==
    \/ UNCHANGED <<orders, holders>>
    \/ \E provider \in Participants :
           /\ orders' = orders \cup {provider}
           /\ holders' = holders \cup {provider}

Open(u) ==
    /\ u \in Approvers
    /\ ActiveWindow
    /\ status = "APPROVED" /\ status' = "OPEN"
    /\ ActivateOpeningLiquidity
    /\ UNCHANGED <<now, winner, provisional, disputes, decisions, settled, refunded>>

Suspend(u) == u \in Approvers /\ MovesTo({"OPEN"}, "SUSPENDED") /\ UNCHANGED orders

Reopen(u) ==
    u \in Approvers /\ ActiveWindow /\ MovesTo({"SUSPENDED"}, "OPEN") /\ UNCHANGED orders

(* A cleanup that leaves the order it cannot cancel.                        *)
CleanupLeavesOrder == \E left \in SUBSET orders : orders' = left

(* cleanup_locked_market cancels every active order in the transaction of   *)
(* the close.                                                               *)
Cleanup == orders' = {}

(* An approver may close at any time; the periodic close_due_markets does   *)
(* it once closes_at has passed.                                            *)
Close(u) == u \in Approvers /\ MovesTo({"OPEN", "SUSPENDED"}, "CLOSED") /\ Cleanup

CloseDueMarkets == ClosesAt <= now /\ MovesTo({"OPEN", "SUSPENDED"}, "CLOSED") /\ Cleanup

(* PATCH of a market: get_object reads the row and update checks its status. *)
StartEdit(u) ==
    /\ u \in Managers /\ status \in {"DRAFT", "REJECTED"}
    /\ editing' = editing \cup {status}
    /\ UNCHANGED <<status, orders, lifecycleVars, revived>>

(* An edit that read the status s saves the row: it had no winner then.     *)
(* Any number of edits may have read it, so that s may be saved again.      *)
SaveEdit(s) ==
    /\ s \in editing
    /\ status' = s /\ winner' = None
    /\ revived' = (revived \/ status \in {"CLOSED", "RESOLVED", "VOIDED"})
    /\ UNCHANGED <<now, orders, holders, provisional, disputes, decisions, settled, refunded, editing>>

-----------------------------------------------------------------------------
(* Trading, as far as the end of the market sees it.                        *)

(* place_order on an open market inside its window: the order rests, or it  *)
(* trades with an order of another user and both get a position; either may *)
(* be left with a remainder.                                                *)
PlaceOrder(u) ==
    /\ status = "OPEN"
    /\ ActiveWindow
    /\ \/ orders' = orders \cup {u} /\ UNCHANGED holders
       \/ \E v \in orders \ {u} :
              /\ holders' = holders \cup {u, v}
              /\ \E rest \in SUBSET {u, v} : orders' = (orders \ {v}) \cup rest
    /\ UNCHANGED <<now, status, winner, provisional, disputes, decisions, settled, refunded>>

(* cancel_order and expire_order look at the order only, not at the market. *)
OrderEnds(u) ==
    /\ u \in orders
    /\ orders' = orders \ {u}
    /\ UNCHANGED <<status, lifecycleVars>>

-----------------------------------------------------------------------------
(* The provisional result and its disputes.                                 *)

WindowClosed ==
    provisional # None => now >= provisional.deadline \/ provisional.accelerated

FinalDecisions == {i \in DOMAIN decisions : decisions[i].type \in FINAL_DECISION_TYPES}

(* require_no_open_disputes *)
NoOpenDisputes == disputes = {} \/ FinalDecisions # {}

Publish(u, o, h) ==
    /\ u \in Verifiers \ {Creator}
    /\ status = "CLOSED"
    /\ provisional = None
    /\ now + h <= MaxTime
    /\ provisional' = [winner |-> o, by |-> u, deadline |-> now + h, accelerated |-> FALSE]
    /\ UNCHANGED <<now, status, winner, orders, holders, disputes, decisions, settled, refunded>>

(* One dispute per participant, inside the window; the status of the market *)
(* is not looked at.                                                        *)
MayDispute(u) == provisional # None /\ ~ WindowClosed /\ u \in holders \ disputes

SubmitDispute(u) ==
    /\ MayDispute(u)
    /\ disputes' = disputes \cup {u}
    /\ UNCHANGED <<now, status, winner, orders, holders, provisional, decisions, settled, refunded>>

Accelerate(u) ==
    /\ Accelerator
    /\ u \in Verifiers
    /\ provisional # None
    /\ provisional' = [provisional EXCEPT !.accelerated = TRUE]
    /\ UNCHANGED <<now, status, winner, orders, holders, disputes, decisions, settled, refunded>>

-----------------------------------------------------------------------------
(* Resolution.                                                              *)

(* _apply_terminal_transition, with the guards that resolve and void share. *)
Terminal(u, from, to, o) ==
    /\ u \in Verifiers \ {Creator}
    /\ status \in from
    /\ status' = to
    /\ winner' = o

(* The checks of the provisional workflow with one of them forgotten.       *)
ReadyWithOpenDisputes(o) ==
    provisional # None => WindowClosed /\ o = provisional.winner

ReadyForAnyWinner(o) == provisional # None => WindowClosed /\ NoOpenDisputes

(* _require_provisional_workflow_ready *)
ProvisionalWorkflowReady(o) ==
    provisional # None => WindowClosed /\ NoOpenDisputes /\ o = provisional.winner

Resolve(u, o) ==
    /\ Terminal(u, {"CLOSED"}, "RESOLVED", o)
    /\ ProvisionalWorkflowReady(o)
    /\ UNCHANGED <<now, orders, holders, provisional, disputes, decisions, settled, refunded>>

Void(u) ==
    /\ Terminal(u, VOIDABLE_STATUSES, "VOIDED", None)
    /\ UNCHANGED <<now, orders, holders, provisional, disputes, decisions, settled, refunded>>

(* A decision before the window is over.                                    *)
DecidesEarly(u) ==
    /\ u \in Verifiers
    /\ provisional # None
    /\ FinalDecisions = {}
    /\ u \notin disputes \cup {Creator, provisional.by}
    /\ disputes # {}

(* The conditions that decide checks before it looks at the decision type.  *)
MayDecide(u) ==
    /\ u \in Verifiers
    /\ provisional # None
    /\ FinalDecisions = {}
    /\ u \notin disputes \cup {Creator, provisional.by}
    /\ disputes # {}
    /\ WindowClosed
    /\ \A i \in DOMAIN decisions : i = Len(decisions) => now >= decisions[i].until

Record(u, type, o, until) ==
    decisions' = Append(decisions, [type |-> type, winner |-> o, by |-> u,
                                    until |-> until, covered |-> Cardinality(disputes)])

ExtendReview(u, h) ==
    /\ MayDecide(u)
    /\ now + h <= MaxTime
    /\ Record(u, "EXTEND_REVIEW", None, now + h)
    /\ UNCHANGED <<now, status, winner, orders, holders, provisional, disputes, settled, refunded>>

(* CONFIRM takes the provisional winner, CORRECT another one, VOID none.    *)
DecisionOutcome(type, o) ==
    CASE type = "CONFIRM" -> o = provisional.winner
      [] type = "CORRECT" -> o \in Outcomes /\ o # provisional.winner
      [] type = "VOID"    -> o = None

DecideFinally(u, type, o) ==
    /\ MayDecide(u)
    /\ DecisionOutcome(type, o)
    /\ IF type = "VOID" THEN Terminal(u, VOIDABLE_STATUSES, "VOIDED", None)
                        ELSE Terminal(u, {"CLOSED"}, "RESOLVED", o)
    /\ Record(u, type, o, 0)
    /\ UNCHANGED <<now, orders, holders, provisional, disputes, settled, refunded>>

-----------------------------------------------------------------------------
(* Payout.  A second call returns the row of the first and changes nothing. *)

(* settleability_errors, outstanding orders and reservations *)
Settleable == status = "RESOLVED" /\ winner # None /\ now >= SettlesBy /\ orders = {}

SettleMarket(u) ==
    /\ u \in Verifiers
    /\ ~ settled /\ ~ refunded
    /\ Settleable /\ WindowClosed /\ NoOpenDisputes
    /\ settled' = TRUE
    /\ UNCHANGED <<now, status, winner, orders, holders, provisional, disputes, decisions, refunded>>

(* _require_refundable_market *)
Refundable == status = "VOIDED" /\ winner = None

(* A refund that does not wait for the end of the window.                   *)
RefundsDuringWindow(u) ==
    /\ u \in Approvers
    /\ ~ settled /\ ~ refunded
    /\ Refundable /\ NoOpenDisputes
    /\ refunded' = TRUE
    /\ orders' = {}
    /\ UNCHANGED <<now, status, winner, holders, provisional, disputes, decisions, settled>>

(* Unlike settlement, the refund cancels the orders that are still active.  *)
RefundVoidMarket(u) ==
    /\ u \in Approvers
    /\ ~ settled /\ ~ refunded
    /\ Refundable
    /\ WindowClosed /\ NoOpenDisputes
    /\ refunded' = TRUE
    /\ orders' = {}
    /\ UNCHANGED <<now, status, winner, holders, provisional, disputes, decisions, settled>>

-----------------------------------------------------------------------------
LifecycleStep(u) ==
    \/ Submit(u) \/ Approve(u) \/ Reject(u) \/ RevertToDraft(u) \/ Open(u)
    \/ Suspend(u) \/ Reopen(u) \/ Close(u)

TradingStep == \E u \in Participants : PlaceOrder(u) \/ OrderEnds(u)

DisputeStep(u) ==
    \/ \E o \in Outcomes, h \in Hours : Publish(u, o, h)
    \/ SubmitDispute(u)
    \/ Accelerate(u)
    \/ \E h \in Hours : ExtendReview(u, h)

ResolutionStep(u) ==
    \/ \E o \in Outcomes : Resolve(u, o)
    \/ Void(u)
    \/ \E type \in FINAL_DECISION_TYPES, o \in Outcomes \cup {None} : DecideFinally(u, type, o)

PayoutStep(u) == SettleMarket(u) \/ RefundVoidMarket(u)

MarketStep ==
    \/ Tick
    \/ CloseDueMarkets
    \/ TradingStep
    \/ \E u \in Users : LifecycleStep(u) \/ DisputeStep(u) \/ ResolutionStep(u) \/ PayoutStep(u)

EditStep == (\E u \in Users : StartEdit(u)) \/ (\E s \in editing : SaveEdit(s))

Next == (MarketStep /\ UNCHANGED editVars) \/ EditStep

Spec == Init /\ [][Next]_vars

(* Time passes, the scheduler closes due markets, and the administrators do *)
(* not give up: as long as a payout or a final decision could be made,      *)
(* somebody makes it.                                                       *)
FairSpec ==
    /\ Spec
    /\ WF_vars(Tick /\ UNCHANGED editVars)
    /\ WF_vars(CloseDueMarkets /\ UNCHANGED editVars)
    /\ WF_vars((\E u \in Users : PayoutStep(u)) /\ UNCHANGED editVars)
    /\ WF_vars((\E u \in Users, type \in FINAL_DECISION_TYPES, o \in Outcomes \cup {None} :
                    DecideFinally(u, type, o)) /\ UNCHANGED editVars)

-----------------------------------------------------------------------------
(* Properties.                                                              *)

(* Once trading has ended no order is left behind, so that the check of     *)
(* settle_market for outstanding commitments can never block a settlement:  *)
(* nothing places an order on a market that is closed or resolved, even if  *)
(* an overtaken edit made a draft of it and it was opened again.            *)
ClosedHasNoOrders == status \in {"CLOSED", "RESOLVED"} => orders = {}

(* A resolved market passes every check of settle_market but the settlement *)
(* time: its window is over, its disputes have been decided, its orders are *)
(* gone, and it has not been refunded as long as no edit has revived it.    *)
(* What the alert "ready to be settled" of the resolution promises.         *)
ResolvedIsSettleable ==
    status = "RESOLVED" =>
        /\ winner # None /\ WindowClosed /\ NoOpenDisputes /\ orders = {}
        /\ refunded => revived

(* The recorded result is the one the review arrived at: the winner of the  *)
(* final decision where there is one, otherwise that of the provisional     *)
(* result; and a final decision never stands beside another result, unless  *)
(* an edit has revived the market.                                          *)
ResultFollowsReview ==
    /\ ~revived => \A i \in FinalDecisions :
           /\ status = (IF decisions[i].type = "VOID" THEN "VOIDED" ELSE "RESOLVED")
           /\ winner = decisions[i].winner
           /\ decisions[i].type = "CONFIRM" => winner = provisional.winner
           /\ decisions[i].type = "CORRECT" => winner \notin {provisional.winner, None}
    /\ status = "RESOLVED" /\ provisional # None /\ FinalDecisions = {} =>
           winner = provisional.winner

(* A final decision is the last one, taken by somebody neither the creator  *)
(* nor the publisher nor, even later, a disputant, and it covers every      *)
(* dispute that was ever submitted: none slips in after it.                 *)
DecisionsAreIndependent ==
    \A i \in FinalDecisions :
        /\ i = Len(decisions)
        /\ decisions[i].by \notin disputes \cup {Creator, provisional.by}
        /\ decisions[i].covered = Cardinality(disputes)

(* Money moves at most once, by settlement or by refund, whatever is edited; *)
(* and until an edit revives the market it was moved for a resolved or a    *)
(* voided one, never inside the dispute window and never over an undecided  *)
(* dispute, not even one submitted afterwards.                              *)
PaidOutOnce ==
    /\ ~ (settled /\ refunded)
    /\ ~revived =>
          /\ settled => status = "RESOLVED" /\ winner # None
          /\ refunded => status = "VOIDED" /\ winner = None
          /\ settled \/ refunded => WindowClosed /\ NoOpenDisputes /\ orders = {}

(* The result of a terminal market changes through an overtaken edit only:  *)
(* no operation of the lifecycle, the review or the payout touches it.      *)
TerminalIsFinal ==
    [][(status \in {"RESOLVED", "VOIDED"}) =>
          \/ UNCHANGED <<status, winner>>
          \/ \E s \in editing : SaveEdit(s)]_vars

(* Every resolved market that no edit revives is settled in the end.        *)
ResolvedIsSettled == status = "RESOLVED" ~> settled \/ revived

(* Every voided market that no edit revives is refunded in the end ("A      *)
(* market has been voided and is ready to be refunded.",                    *)
(* resolution_service).  Violated: a dispute that is open when the market   *)
(* is voided, or that is submitted to the voided market while the window is *)
(* open, can no longer be decided, since every final decision resolves or   *)
(* voids the market again, and require_no_open_disputes blocks the refund   *)
(* for ever.                                                                *)
VoidedIsRefunded == status = "VOIDED" ~> refunded \/ revived
=============================================================================
