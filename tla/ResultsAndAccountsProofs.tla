---------------------- MODULE ResultsAndAccountsProofs ----------------------
(***************************************************************************)
(* Proofs about two specifications that stay apart: of MarketResolution,   *)
(* that the result of a market follows its review and that money moves     *)
(* once; of MCAccounts, that profiles, roles, links and passwords are what *)
(* their owners were told, for any users, roles, requests and bounds.      *)
(*                                                                         *)
(* The safety properties are not inductive by themselves.  Those of the    *)
(* results depend on the shape of the review: disputes exist only for a    *)
(* provisional result, decisions only about disputes whose window is over, *)
(* and until an edit revives the market a provisional result only from the *)
(* close on and a final decision only if it is terminal.  Those of the     *)
(* accounts depend on what a request has read and still goes by when       *)
(* others have come between: each section states that first.               *)
(***************************************************************************)
EXTENDS MarketResolution, MCAccounts, Sums, SequenceTheorems

(* The review of a market proceeds in this order.                          *)
ReviewShape ==
    /\ disputes # {} => provisional # None
    /\ decisions # <<>> => disputes # {} /\ WindowClosed
    /\ winner # None <=> status = "RESOLVED"

(* Until an edit revives the market its status keeps up with the review and *)
(* the payout.                                                             *)
ResultShape ==
    ~revived => /\ provisional # None => status \in {"CLOSED", "RESOLVED", "VOIDED"}
                /\ FinalDecisions # {} => status \in {"RESOLVED", "VOIDED"}
                /\ settled => status = "RESOLVED"
                /\ refunded => status = "VOIDED"

IInv ==
    /\ TypeOK
    /\ ReviewShape
    /\ ResultShape
    /\ ClosedHasNoOrders
    /\ ResolvedIsSettleable
    /\ ResultFollowsReview
    /\ DecisionsAreIndependent
    /\ PaidOutOnce

(* Initially there is no result, no review and no payout.                  *)
LEMMA InitEstablishesIInv == Init => IInv
<1> SUFFICES ASSUME Init PROVE IInv OBVIOUS
<1>2. decisions \in Seq(Decisions) /\ Len(decisions) = 0 BY DEF Init
<1>0. DOMAIN decisions = 1..Len(decisions) /\ 1..0 = {} BY <1>2
<1>1. FinalDecisions = {} BY <1>0, <1>2 DEF FinalDecisions
<1>3. TypeOK
  <2>1. now \in 0..MaxTime BY ResolutionAssumption DEF Init
  <2>2. settled \in BOOLEAN /\ refunded \in BOOLEAN /\ editing = {}
        /\ revived \in BOOLEAN /\ winner \in Outcomes \cup {None}
        /\ provisional \in ProvisionalResults \cup {None}
    BY DEF Init
  <2>3. orders \subseteq Participants /\ holders \subseteq Participants
        /\ disputes \subseteq Participants /\ status \in Statuses
    BY DEF Init, Statuses
  <2> QED BY <1>2, <2>1, <2>2, <2>3 DEF TypeOK
<1> QED BY <1>1, <1>3
  DEF Init, IInv, ReviewShape, ResultShape, ClosedHasNoOrders, ResolvedIsSettleable,
      ResultFollowsReview, DecisionsAreIndependent, PaidOutOnce, WindowClosed, NoOpenDisputes

(* A step before the close (lifecycle_service): the market does not become  *)
(* terminal, and unless it was revived it has no review yet.                *)
LEMMA BeforeClose ==
  ASSUME IInv, status \notin {"CLOSED", "RESOLVED", "VOIDED"},
         status' \in Statuses \ {"RESOLVED", "VOIDED"},
         orders' \subseteq Participants, holders' \subseteq Participants,
         status' = "CLOSED" => orders' = {},
         UNCHANGED <<now, winner, provisional, disputes, decisions, settled, refunded, editVars>>
  PROVE  IInv'
<1>1. FinalDecisions' = FinalDecisions /\ WindowClosed' = WindowClosed
  BY DEF FinalDecisions, WindowClosed
<1>2. ~revived => provisional = None /\ FinalDecisions = {} /\ ~settled /\ ~refunded
  BY DEF IInv, ResultShape
<1>3. winner = None /\ revived' = revived BY DEF IInv, ReviewShape, editVars
<1>4. TypeOK' BY DEF IInv, TypeOK, editVars
<1>5. ReviewShape' /\ ResultShape' /\ ClosedHasNoOrders' /\ ResolvedIsSettleable'
  BY <1>1, <1>2, <1>3 DEF IInv, ReviewShape, ResultShape, ClosedHasNoOrders, ResolvedIsSettleable
<1>6. ResultFollowsReview' /\ PaidOutOnce'
  BY <1>1, <1>2, <1>3 DEF IInv, ResultFollowsReview, PaidOutOnce
<1>7. DecisionsAreIndependent' BY <1>1 DEF IInv, DecisionsAreIndependent
<1> QED BY <1>4, <1>5, <1>6, <1>7 DEF IInv

(* A step that changes neither the market nor its review: orders come and   *)
(* go, time passes, the window closes.                                      *)
LEMMA ReviewUntouched ==
  ASSUME IInv, TypeOK',
         UNCHANGED <<status, winner, disputes, decisions, settled, refunded, revived>>,
         orders' = {} \/ orders' \subseteq orders \/ status = "OPEN",
         provisional # None <=> provisional' # None,
         provisional # None => /\ provisional'.winner = provisional.winner
                               /\ provisional'.by = provisional.by,
         WindowClosed => WindowClosed'
  PROVE  IInv'
<1>1. FinalDecisions' = FinalDecisions BY DEF FinalDecisions
<1>2. ReviewShape' /\ ResultShape' /\ ClosedHasNoOrders'
  BY <1>1 DEF IInv, ReviewShape, ResultShape, ClosedHasNoOrders
<1>3. ResolvedIsSettleable' BY <1>1 DEF IInv, ResolvedIsSettleable, NoOpenDisputes
<1>4. FinalDecisions # {} => provisional # None BY DEF IInv, ReviewShape, FinalDecisions, TypeOK
<1>5. ResultFollowsReview' BY <1>1, <1>4 DEF IInv, ResultFollowsReview
<1>6. DecisionsAreIndependent' BY <1>1, <1>4 DEF IInv, DecisionsAreIndependent
<1>7. PaidOutOnce' BY <1>1 DEF IInv, PaidOutOnce, NoOpenDisputes, ResultShape
<1> QED BY <1>2, <1>3, <1>5, <1>6, <1>7 DEF IInv

(* What one more decision does to the final ones.                           *)
LEMMA OneMoreDecision ==
  ASSUME decisions \in Seq(Decisions), NEW d \in Decisions, decisions' = Append(decisions, d)
  PROVE  /\ decisions' \in Seq(Decisions) /\ decisions' # <<>>
         /\ Len(decisions') = Len(decisions) + 1
         /\ decisions'[Len(decisions')] = d
         /\ \A i \in DOMAIN decisions : decisions'[i] = decisions[i]
         /\ FinalDecisions' = IF d.type \in FINAL_DECISION_TYPES
                              THEN FinalDecisions \cup {Len(decisions')} ELSE FinalDecisions
  BY DEF FinalDecisions

(* A publication, a dispute or a review extension while the market is not   *)
(* final leaves the result alone.                                           *)
LEMMA PublishPreserves ==
  ASSUME IInv, NEW u \in Users, NEW o \in Outcomes, NEW h \in Hours, Publish(u, o, h), UNCHANGED editVars
  PROVE  IInv'
<1>1. now + h \in Nat BY ResolutionAssumption DEF IInv, TypeOK
<1>0. UNCHANGED <<now, status, winner, orders, holders, disputes, decisions, settled, refunded,
                 editing, revived>>
  BY DEF Publish, editVars
<1>4. provisional' \in ProvisionalResults BY <1>1 DEF Publish, ProvisionalResults
<1>2. TypeOK' BY <1>0, <1>4 DEF IInv, TypeOK
<1>3. disputes = {} /\ FinalDecisions = {} /\ FinalDecisions' = {} /\ decisions = <<>>
  BY DEF IInv, ReviewShape, Publish, FinalDecisions
<1> QED BY <1>0, <1>2, <1>3
  DEF Publish, IInv, ReviewShape, ResultShape, ClosedHasNoOrders, ResolvedIsSettleable,
      ResultFollowsReview, DecisionsAreIndependent, PaidOutOnce, NoOpenDisputes

(* A dispute comes before the window is over, hence before any decision and *)
(* any result but a void.                                                   *)
LEMMA SubmitDisputePreserves ==
  ASSUME IInv, NEW u \in Users, SubmitDispute(u), UNCHANGED editVars
  PROVE  IInv'
<1> USE DEF SubmitDispute, MayDispute, editVars
<1>1. TypeOK' BY DEF IInv, TypeOK
<1>2. WindowClosed' = WindowClosed /\ ~ WindowClosed BY DEF WindowClosed
<1>3. decisions = <<>> /\ status # "RESOLVED" /\ (~revived => ~ settled /\ ~ refunded)
  BY <1>2 DEF IInv, ReviewShape, ResolvedIsSettleable, PaidOutOnce
<1>4. FinalDecisions = {} /\ FinalDecisions' = {} BY <1>3 DEF IInv, TypeOK, FinalDecisions
<1> QED BY <1>1, <1>2, <1>3, <1>4
  DEF IInv, ReviewShape, ResultShape, ClosedHasNoOrders, ResolvedIsSettleable,
      ResultFollowsReview, DecisionsAreIndependent, PaidOutOnce, NoOpenDisputes

(* The number of disputes is a number.                                      *)
LEMMA DisputeCount == TypeOK => Cardinality(disputes) \in Nat
  BY ResolutionAssumption, FS_Subset, FS_CardinalityType DEF TypeOK

(* An extension of the review is recorded and changes nothing else.         *)
LEMMA ExtendReviewPreserves ==
  ASSUME IInv, NEW u \in Users, NEW h \in Hours, ExtendReview(u, h), UNCHANGED editVars
  PROVE  IInv'
<1> DEFINE d == [type |-> "EXTEND_REVIEW", winner |-> None, by |-> u,
                 until |-> now + h, covered |-> Cardinality(disputes)]
<1>1. d \in Decisions /\ d.type \notin FINAL_DECISION_TYPES BY DisputeCount, ResolutionAssumption
  DEF IInv, TypeOK, Decisions, DecisionTypes, FINAL_DECISION_TYPES
<1>2. decisions' = Append(decisions, d) BY DEF ExtendReview, Record
<1>3. decisions \in Seq(Decisions) BY DEF IInv, TypeOK
<1> HIDE DEF d
<1>4. FinalDecisions' = FinalDecisions /\ decisions' \in Seq(Decisions)
  BY <1>1, <1>2, <1>3, OneMoreDecision
<1>5. FinalDecisions = {} /\ disputes # {} /\ WindowClosed /\ provisional # None
  BY DEF ExtendReview, MayDecide
<1>7. UNCHANGED <<now, status, winner, orders, holders, provisional, disputes, settled, refunded,
                 editing, revived>>
  BY DEF ExtendReview, editVars
<1>6. TypeOK' BY <1>4, <1>7 DEF IInv, TypeOK
<1>8. WindowClosed' = WindowClosed BY <1>7 DEF WindowClosed
<1> QED BY <1>4, <1>5, <1>6, <1>7, <1>8
  DEF IInv, ReviewShape, ResultShape, ClosedHasNoOrders, ResolvedIsSettleable,
      ResultFollowsReview, DecisionsAreIndependent, PaidOutOnce, NoOpenDisputes

(* A verifier resolves or voids the market without a dispute decision.      *)
LEMMA ResolvePreserves ==
  ASSUME IInv, NEW u \in Users, NEW o \in Outcomes, Resolve(u, o), UNCHANGED editVars
  PROVE  IInv'
<1>1. /\ UNCHANGED <<now, orders, holders, provisional, disputes, decisions, settled, refunded,
                     editing, revived>>
      /\ status = "CLOSED" /\ status' = "RESOLVED" /\ winner' = o /\ o # None
      /\ provisional # None => WindowClosed /\ NoOpenDisputes /\ o = provisional.winner
  BY ResolutionAssumption DEF Resolve, Terminal, ProvisionalWorkflowReady, editVars
<1>2. TypeOK' BY <1>1 DEF IInv, TypeOK, Statuses
<1>3. FinalDecisions' = FinalDecisions /\ WindowClosed' = WindowClosed
  BY <1>1 DEF FinalDecisions, WindowClosed
<1>4. provisional = None => disputes = {} /\ WindowClosed BY DEF IInv, ReviewShape, WindowClosed
<1>5. orders = {} /\ (~revived => ~ settled /\ ~ refunded /\ FinalDecisions = {})
  BY <1>1 DEF IInv, ClosedHasNoOrders, ResultShape
<1> QED BY <1>1, <1>2, <1>3, <1>4, <1>5
  DEF IInv, ReviewShape, ResultShape, ClosedHasNoOrders, ResolvedIsSettleable,
      ResultFollowsReview, DecisionsAreIndependent, PaidOutOnce, NoOpenDisputes

LEMMA VoidPreserves ==
  ASSUME IInv, NEW u \in Users, Void(u), UNCHANGED editVars
  PROVE  IInv'
<1>1. /\ UNCHANGED <<now, orders, holders, provisional, disputes, decisions, settled, refunded,
                     editing, revived>>
      /\ status \in VOIDABLE_STATUSES /\ status' = "VOIDED" /\ winner' = None
  BY DEF Void, Terminal, editVars
<1>2. TypeOK' BY <1>1 DEF IInv, TypeOK, Statuses
<1>3. FinalDecisions' = FinalDecisions /\ WindowClosed' = WindowClosed
  BY <1>1 DEF FinalDecisions, WindowClosed
<1>4. ~revived => ~ settled /\ ~ refunded /\ FinalDecisions = {}
  BY <1>1 DEF IInv, ResultShape, VOIDABLE_STATUSES
<1> QED BY <1>1, <1>2, <1>3, <1>4
  DEF IInv, ReviewShape, ResultShape, ClosedHasNoOrders, ResolvedIsSettleable,
      ResultFollowsReview, DecisionsAreIndependent, PaidOutOnce

(* A final decision about the disputes, with the transition it causes.      *)
LEMMA DecideFinallyPreserves ==
  ASSUME IInv, NEW u \in Users, NEW type \in FINAL_DECISION_TYPES,
         NEW o \in Outcomes \cup {None}, DecideFinally(u, type, o), UNCHANGED editVars
  PROVE  IInv'
<1> DEFINE d == [type |-> type, winner |-> o, by |-> u,
                 until |-> 0, covered |-> Cardinality(disputes)]
<1>1. d \in Decisions BY DisputeCount DEF IInv, Decisions, DecisionTypes
<1>2. /\ d.type = type /\ d.winner = o /\ d.by = u /\ d.covered = Cardinality(disputes)
      /\ decisions' = Append(decisions, d)
  BY DEF DecideFinally, Record
<1>3. decisions \in Seq(Decisions) BY DEF IInv, TypeOK
<1> HIDE DEF d
<1>4. MayDecide(u) BY DEF DecideFinally
<1>5. FinalDecisions = {} /\ disputes # {} /\ WindowClosed /\ provisional # None
      /\ u \notin disputes \cup {Creator, provisional.by}
  BY <1>4 DEF MayDecide
<1>6. /\ decisions' \in Seq(Decisions) /\ decisions' # <<>>
      /\ FinalDecisions' = {Len(decisions')} /\ decisions'[Len(decisions')] = d
  BY <1>1, <1>2, <1>3, <1>5, OneMoreDecision
<1>7. /\ UNCHANGED <<now, orders, holders, provisional, disputes, settled, refunded, editing, revived>>
      /\ type = "VOID" => status \in VOIDABLE_STATUSES /\ status' = "VOIDED" /\ winner' = None
      /\ type # "VOID" => status = "CLOSED" /\ status' = "RESOLVED" /\ winner' = o
  BY DEF DecideFinally, Terminal, editVars
<1>8. /\ type = "CONFIRM" => o = provisional.winner
      /\ type = "CORRECT" => o \in Outcomes /\ o # provisional.winner
      /\ type = "VOID" => o = None
  BY DEF DecideFinally, DecisionOutcome
<1>9. provisional.winner \in Outcomes /\ None \notin Outcomes
  BY <1>5, ResolutionAssumption DEF IInv, TypeOK, ProvisionalResults
<1>10. /\ status = "CLOSED" => orders = {}
       /\ ~revived => ~ settled /\ ~ refunded
       /\ ~ (settled /\ refunded)
  BY <1>5, <1>7 DEF IInv, VOIDABLE_STATUSES, ClosedHasNoOrders, ResultShape, PaidOutOnce
<1>11. type \in {"CONFIRM", "CORRECT", "VOID"} BY DEF FINAL_DECISION_TYPES
<1>12. TypeOK' BY <1>6, <1>7, <1>11 DEF IInv, TypeOK, Statuses
<1>13. WindowClosed' = WindowClosed BY <1>7 DEF WindowClosed
<1>14. ReviewShape' /\ ResultShape'
  BY <1>5, <1>6, <1>7, <1>8, <1>9, <1>10, <1>11, <1>13 DEF ReviewShape, ResultShape
<1>15. ClosedHasNoOrders' /\ ResolvedIsSettleable'
  BY <1>5, <1>6, <1>7, <1>8, <1>9, <1>10, <1>11, <1>13
  DEF ClosedHasNoOrders, ResolvedIsSettleable, NoOpenDisputes
<1>16. ResultFollowsReview' BY <1>2, <1>6, <1>7, <1>8, <1>9, <1>11 DEF ResultFollowsReview
<1>17. DecisionsAreIndependent' BY <1>2, <1>5, <1>6, <1>7 DEF DecisionsAreIndependent
<1>18. PaidOutOnce' BY <1>7, <1>10 DEF PaidOutOnce
<1> QED BY <1>12, <1>14, <1>15, <1>16, <1>17, <1>18 DEF IInv

(* The payout of a resolved or of a voided market.                          *)
LEMMA PayoutPreserves ==
  ASSUME IInv, NEW u \in Users, PayoutStep(u), UNCHANGED editVars
  PROVE  IInv'
<1>1. /\ UNCHANGED <<now, status, winner, holders, provisional, disputes, decisions, editing, revived>>
      /\ WindowClosed /\ NoOpenDisputes /\ orders' = {}
      /\ \/ status = "RESOLVED" /\ winner # None /\ settled' = TRUE /\ ~ refunded /\ ~ refunded'
         \/ status = "VOIDED" /\ winner = None /\ refunded' = TRUE /\ ~ settled /\ ~ settled'
  BY DEF PayoutStep, SettleMarket, RefundVoidMarket, Settleable, Refundable, editVars
<1>2. settled' \in BOOLEAN /\ refunded' \in BOOLEAN
  BY DEF PayoutStep, SettleMarket, RefundVoidMarket, IInv, TypeOK
<1>3. TypeOK' BY <1>1, <1>2 DEF IInv, TypeOK
<1>4. FinalDecisions' = FinalDecisions /\ WindowClosed' = WindowClosed
  BY <1>1 DEF FinalDecisions, WindowClosed
<1>5. ReviewShape' /\ ResultShape' /\ ClosedHasNoOrders' /\ ResolvedIsSettleable'
  BY <1>1, <1>4 DEF IInv, ReviewShape, ResultShape, ClosedHasNoOrders, ResolvedIsSettleable,
     NoOpenDisputes
<1>6. ResultFollowsReview' /\ DecisionsAreIndependent'
  BY <1>1, <1>4 DEF IInv, ResultFollowsReview, DecisionsAreIndependent
<1>7. PaidOutOnce' BY <1>1, <1>4 DEF PaidOutOnce, NoOpenDisputes
<1> QED BY <1>3, <1>5, <1>6, <1>7 DEF IInv

(* The steps before the close, each an instance of BeforeClose.             *)
LEMMA LifecyclePreserves ==
  ASSUME IInv, (\E u \in Users : LifecycleStep(u)) \/ CloseDueMarkets, UNCHANGED editVars
  PROVE  IInv'
<1> USE DEF IInv, TypeOK, Statuses, lifecycleVars
<1>1. CASE \E u \in Users : Submit(u) \/ Approve(u) \/ Reject(u) \/ RevertToDraft(u)
                            \/ Suspend(u) \/ Reopen(u)
  <2>1. /\ status \notin {"CLOSED", "RESOLVED", "VOIDED"}
        /\ status' \in Statuses \ {"CLOSED", "RESOLVED", "VOIDED"}
        /\ UNCHANGED <<orders, lifecycleVars>>
    BY <1>1 DEF Submit, Approve, Reject, RevertToDraft, Suspend, Reopen, MovesTo
  <2> QED BY <2>1, BeforeClose
<1>2. CASE (\E u \in Users : Close(u)) \/ CloseDueMarkets
    BY <1>2, BeforeClose DEF Close, CloseDueMarkets, MovesTo, Cleanup
<1>3. CASE \E u \in Users : Open(u) BY <1>3, BeforeClose DEF Open, ActivateOpeningLiquidity
<1> QED BY <1>1, <1>2, <1>3 DEF LifecycleStep

(* Orders, time and the accelerator, each an instance of ReviewUntouched.   *)
LEMMA BackgroundPreserves ==
  ASSUME IInv, UNCHANGED editVars,
         TradingStep \/ Tick \/ (\E u \in Users : Accelerate(u)) \/ UNCHANGED vars
  PROVE  IInv'
<1> USE DEF editVars
<1>1. CASE TradingStep
  <2>1. /\ UNCHANGED <<now, status, winner, provisional, disputes, decisions, settled, refunded>>
        /\ orders' \subseteq orders \/ status = "OPEN"
    BY <1>1 DEF TradingStep, PlaceOrder, OrderEnds, lifecycleVars
  <2>2. orders' \subseteq Participants /\ holders' \subseteq Participants
    BY <1>1 DEF TradingStep, PlaceOrder, OrderEnds, lifecycleVars, IInv, TypeOK
  <2>3. TypeOK' BY <2>1, <2>2 DEF IInv, TypeOK
  <2>4. WindowClosed => WindowClosed' BY <2>1 DEF WindowClosed
  <2> QED BY <2>1, <2>3, <2>4, ReviewUntouched
<1>2. CASE Tick
  <2>1. TypeOK' BY <1>2, ResolutionAssumption DEF Tick, IInv, TypeOK
  <2>2. WindowClosed => WindowClosed'
      BY <1>2 DEF IInv, TypeOK, ProvisionalResults, WindowClosed, Tick
  <2> QED BY <1>2, <2>1, <2>2, ReviewUntouched DEF Tick
<1>3. CASE \E u \in Users : Accelerate(u)
    BY <1>3, ReviewUntouched, NoneAssumption DEF Accelerate, IInv, TypeOK, ProvisionalResults,
       WindowClosed
<1>4. CASE UNCHANGED vars BY <1>4, ReviewUntouched DEF vars, IInv, TypeOK, WindowClosed
<1> QED BY <1>1, <1>2, <1>3, <1>4

-----------------------------------------------------------------------------
(* An edit that is begun changes nothing; one that is saved takes the market *)
(* back before the close, and revives it if it was beyond.                  *)
LEMMA EditPreserves ==
  ASSUME IInv, EditStep
  PROVE  IInv'
<1>1. CASE \E u \in Users : StartEdit(u)
  <2>1. /\ UNCHANGED <<status, orders, now, winner, holders, provisional, disputes, decisions,
                       settled, refunded, revived>>
        /\ editing' \subseteq {"DRAFT", "REJECTED"}
    BY <1>1 DEF StartEdit, lifecycleVars, IInv, TypeOK
  <2>2. TypeOK' BY <2>1 DEF IInv, TypeOK
  <2>3. WindowClosed => WindowClosed' BY <2>1 DEF WindowClosed
  <2> QED BY <2>1, <2>2, <2>3, ReviewUntouched
<1>2. CASE \E s \in editing : SaveEdit(s)
  <2>1. /\ UNCHANGED <<now, orders, holders, provisional, disputes, decisions, settled, refunded, editing>>
        /\ status' \in {"DRAFT", "REJECTED"} /\ winner' = None
        /\ revived \/ status \in {"CLOSED", "RESOLVED", "VOIDED"} => revived'
        /\ revived' \in BOOLEAN
    BY <1>2 DEF SaveEdit, IInv, TypeOK
  <2>2. TypeOK' BY <2>1 DEF IInv, TypeOK, Statuses
  <2>3. FinalDecisions' = FinalDecisions /\ WindowClosed' = WindowClosed
    BY <2>1 DEF FinalDecisions, WindowClosed
  <2>4. ~revived' => provisional = None /\ FinalDecisions = {} /\ ~settled /\ ~refunded
    BY <2>1 DEF IInv, ResultShape
  <2>5. ReviewShape' /\ ResultShape' /\ ClosedHasNoOrders' /\ ResolvedIsSettleable'
    BY <2>1, <2>3, <2>4 DEF IInv, ReviewShape, ResultShape, ClosedHasNoOrders, ResolvedIsSettleable
  <2>6. ResultFollowsReview' /\ PaidOutOnce'
    BY <2>1, <2>3, <2>4 DEF IInv, ResultFollowsReview, PaidOutOnce
  <2>7. DecisionsAreIndependent' BY <2>1, <2>3 DEF IInv, DecisionsAreIndependent
  <2> QED BY <2>2, <2>5, <2>6, <2>7 DEF IInv
<1> QED BY <1>1, <1>2 DEF EditStep

(* Every reachable state satisfies the inductive invariant.                 *)
THEOREM Invariance == Spec => []IInv
<1>1. Init => IInv BY InitEstablishesIInv
<1>2. IInv /\ [Next]_vars => IInv'
  <2> SUFFICES ASSUME IInv, [Next]_vars PROVE IInv' OBVIOUS
  <2>1. CASE UNCHANGED vars BY <2>1, BackgroundPreserves DEF vars
  <2>2. CASE EditStep BY <2>2, EditPreserves
  <2>3. CASE MarketStep /\ UNCHANGED editVars
    <3> USE <2>3
    <3>1. CASE Tick \/ TradingStep BY <3>1, BackgroundPreserves
    <3>2. CASE CloseDueMarkets \/ \E u \in Users : LifecycleStep(u) BY <3>2, LifecyclePreserves
    <3>3. CASE \E u \in Users : DisputeStep(u)
        BY <3>3, PublishPreserves, SubmitDisputePreserves, BackgroundPreserves, ExtendReviewPreserves
           DEF DisputeStep
    <3>4. CASE \E u \in Users : ResolutionStep(u)
        BY <3>4, ResolvePreserves, VoidPreserves, DecideFinallyPreserves DEF ResolutionStep
    <3>5. CASE \E u \in Users : PayoutStep(u) BY <3>5, PayoutPreserves
    <3> QED BY <3>1, <3>2, <3>3, <3>4, <3>5 DEF MarketStep
  <2> QED BY <2>1, <2>2, <2>3 DEF Next
<1> QED BY <1>1, <1>2, PTL DEF Spec

(* All state is well-typed: each provisional result and decision was made   *)
(* by a user, and none but participants hold orders, positions or disputes. *)
THEOREM TypeCorrect == Spec => []TypeOK
<1>1. IInv => TypeOK BY DEF IInv
<1> QED BY Invariance, <1>1, PTL

(* No order survives the close of its market, and none is placed later,    *)
(* even if an edit revived the market and it is closed again: the check of *)
(* settle_market for outstanding commitments never blocks.                 *)
THEOREM ClosedMarketIsEmpty == Spec => []ClosedHasNoOrders
<1>1. IInv => ClosedHasNoOrders BY DEF IInv
<1> QED BY Invariance, <1>1, PTL

(* The result of a resolved market that no final decision was taken about  *)
(* is the provisional one, if there is one; and until an edit revives the  *)
(* market, one with a final decision is terminal with the result of the    *)
(* decision (resolution_service, result_dispute_decision_service).         *)
THEOREM ResultsFollowReviews == Spec => []ResultFollowsReview
<1>1. IInv => ResultFollowsReview BY DEF IInv
<1> QED BY Invariance, <1>1, PTL

(* No dispute escapes the final decision, and nobody decides in his own     *)
(* case (result_dispute_decision_service._require_independent_actor).       *)
THEOREM ReviewsAreIndependent == Spec => []DecisionsAreIndependent
<1>1. IInv => DecisionsAreIndependent BY DEF IInv
<1> QED BY Invariance, <1>1, PTL

(* The positions of a market are paid out once, however it is edited, and   *)
(* until an edit revives it never inside the dispute window or over an      *)
(* undecided dispute (settle_market, refund_void_market).                   *)
THEOREM PayoutOnce == Spec => []PaidOutOnce
<1>1. IInv => PaidOutOnce BY DEF IInv
<1> QED BY Invariance, <1>1, PTL

(* Whatever settle_market checks besides the settlement time holds as soon *)
(* as the market is resolved, unless it was refunded before an edit revived*)
(* it.                                                                     *)
THEOREM ResolvedCanBeSettled == Spec => []ResolvedIsSettleable
<1>1. IInv => ResolvedIsSettleable BY DEF IInv
<1> QED BY Invariance, <1>1, PTL

(* Nothing but an overtaken edit changes the status or the winner of a      *)
(* terminal market: no operation of its lifecycle, trading, review,         *)
(* resolution or payout does.                                               *)
THEOREM ResultsAreFinal == Spec => TerminalIsFinal
<1>1. [Next]_vars =>
        [(status \in {"RESOLVED", "VOIDED"}) =>
            UNCHANGED <<status, winner>> \/ \E s \in editing : SaveEdit(s)]_vars
  <2> SUFFICES ASSUME Next, status \in {"RESOLVED", "VOIDED"}, ~ \E s \in editing : SaveEdit(s)
               PROVE  status' = status /\ winner' = winner
    OBVIOUS
  <2>1. ~ CloseDueMarkets /\ \A u \in Users : ~ LifecycleStep(u)
    BY DEF CloseDueMarkets, LifecycleStep, Submit, Approve, Reject, RevertToDraft, Open,
       Suspend, Reopen, Close, MovesTo
  <2>2. \A u \in Users : ~ ResolutionStep(u) /\ ~ StartEdit(u)
    BY DEF ResolutionStep, Resolve, Void, DecideFinally, Terminal, VOIDABLE_STATUSES, StartEdit
  <2>3. CASE Tick \/ TradingStep BY <2>3 DEF Tick, TradingStep, PlaceOrder, OrderEnds, lifecycleVars
  <2>4. CASE \E u \in Users : DisputeStep(u) \/ PayoutStep(u)
    BY <2>4 DEF DisputeStep, PayoutStep, Publish, SubmitDispute, Accelerate, ExtendReview,
       SettleMarket, RefundVoidMarket
  <2> QED BY <2>1, <2>2, <2>3, <2>4 DEF Next, MarketStep, EditStep
<1> QED BY <1>1, PTL DEF Spec, TerminalIsFinal
-----------------------------------------------------------------------------
(* Notification preferences: every change that is counted is in the audit  *)
(* log, and only an update may write "off", never for a mandatory category.*)
ChoicesInv ==
    /\ Choices!TypeOK
    /\ Choices!MandatoryStaysOn
    /\ audit <= changesOfChoices /\ Len(consent) <= changesOfChoices

LEMMA ChoicesInit == Choices!Init => ChoicesInv
  <1> SUFFICES ASSUME Choices!Init PROVE ChoicesInv OBVIOUS
  <1>1. consent = <<>> /\ Len(consent) = 0 /\ consent \in Seq(BOOLEAN) BY DEF Choices!Init
  <1> QED BY <1>1, LimitsAssumption, AbsentAssumption
       DEF Choices!Init, ChoicesInv, Choices!TypeOK, Choices!MandatoryStaysOn,
           Choices!NoPreferences, Choices!Hours

LEMMA ChoicesStutter == ChoicesInv /\ UNCHANGED choicesVars => ChoicesInv'
  BY DEF ChoicesInv, choicesVars, Choices!TypeOK, Choices!MandatoryStaysOn

LEMMA ChoicesNext == ChoicesInv /\ Choices!Next => ChoicesInv'
  <1> SUFFICES ASSUME ChoicesInv, Choices!Next PROVE ChoicesInv' OBVIOUS
  <1> USE DEF Choices!Hours
  <1> DEFINE Told == preference' \in [Choices!Preferences -> {"on", "off", Absent}]
                     /\ Choices!MandatoryStaysOn'
             Counted == /\ changesOfChoices' \in 0..Bound /\ audit' \in 0..Bound
                        /\ audit' <= changesOfChoices'
                        /\ consent' \in Seq(BOOLEAN) /\ Len(consent') <= changesOfChoices'
             Kept == pending' \in {Absent, "view", "reset"} /\ hours' \in Choices!Hours
             Received == inbox' \in [{1, 2} -> {"unread", "read", Absent}]
                         /\ archived' \subseteq {1, 2}
  <1>0. /\ preference \in [Choices!Preferences -> {"on", "off", Absent}]
        /\ Choices!MandatoryStaysOn
        /\ changesOfChoices \in 0..Bound /\ audit \in 0..Bound /\ audit <= changesOfChoices
        /\ consent \in Seq(BOOLEAN) /\ Len(consent) \in Nat /\ Len(consent) <= changesOfChoices
        /\ pending \in {Absent, "view", "reset"} /\ hours \in Choices!Hours
        /\ inbox \in [{1, 2} -> {"unread", "read", Absent}] /\ archived \subseteq {1, 2}
    BY DEF ChoicesInv, Choices!TypeOK
  <1>1. ASSUME Choices!Change, Choices!Audited
        PROVE  /\ changesOfChoices' = changesOfChoices + 1 /\ audit' = audit + 1
               /\ changesOfChoices' \in 0..Bound /\ audit' \in 0..Bound /\ audit' <= changesOfChoices'
    BY <1>0, <1>1, LimitsAssumption DEF Choices!Change, Choices!Audited
  <1>2. ASSUME NEW p \in Choices!Preferences, NEW v \in {"on", "off"}, Choices!UpdatePreference(p, v)
        PROVE  Told /\ Counted /\ Kept /\ Received
    BY <1>0, <1>1, <1>2 DEF Choices!UpdatePreference, Choices!Kept, Choices!MandatoryStaysOn
  <1>3. ASSUME Choices!View PROVE Told /\ Counted /\ Kept /\ Received
    BY <1>0, <1>3 DEF Choices!View, Choices!MandatoryStaysOn
  <1>4. ASSUME Choices!Reset PROVE Told /\ Counted /\ Kept /\ Received
    BY <1>0, <1>1, <1>4, AbsentAssumption DEF Choices!Reset, Choices!NoPreferences,
       Choices!MandatoryStaysOn
  <1>5. ASSUME Choices!CreateDefaults PROVE Told /\ Counted /\ Kept /\ Received
    <2>1. \A p \in Choices!Preferences : Choices!Defaults[p] \in {"on", Absent}
      BY DEF Choices!Defaults
    <2>2. Told BY <1>0, <1>5, <2>1 DEF Choices!MandatoryStaysOn, Choices!CreateDefaults
    <2> QED BY <1>0, <1>5, <2>2 DEF Choices!CreateDefaults
  <1>6. ASSUME NEW h \in Choices!Hours, Choices!SetQuietHours(h)
        PROVE  Told /\ Counted /\ Kept /\ Received
    BY <1>0, <1>1, <1>6 DEF Choices!SetQuietHours, Choices!MandatoryStaysOn
  <1>7. ASSUME NEW g \in BOOLEAN, Choices!RecordConsent(g)
        PROVE  Told /\ Counted /\ Kept /\ Received
    BY <1>0, <1>1, <1>7 DEF Choices!RecordConsent, Choices!MandatoryStaysOn
  <1>8. ASSUME \/ Choices!MarkAllRead
               \/ \E k \in {1, 2} : Choices!Notify(k) \/ Choices!MarkRead(k) \/ Choices!Archive(k)
               \/ \E ks \in SUBSET {1, 2} : Choices!MarkMultipleRead(ks)
        PROVE  Told /\ Counted /\ Kept /\ Received
    <2>1. UNCHANGED Choices!settings
      BY <1>8 DEF Choices!MarkAllRead, Choices!Notify, Choices!MarkRead, Choices!Archive,
                  Choices!MarkMultipleRead, Choices!settings
    <2>2. Told /\ Counted /\ Kept BY <1>0, <2>1 DEF Choices!settings, Choices!MandatoryStaysOn
    <2>3. Received
      BY <1>0, <1>8 DEF Choices!MarkAllRead, Choices!Notify, Choices!MarkRead, Choices!Archive,
                  Choices!MarkMultipleRead
    <2> QED BY <2>2, <2>3
  <1>9. Told /\ Counted /\ Kept /\ Received
    BY <1>2, <1>3, <1>4, <1>5, <1>6, <1>7, <1>8 DEF Choices!Next
  <1>10. Len(consent') \in Nat /\ Len(consent') <= Bound BY <1>9, LimitsAssumption
  <1> QED BY <1>9, <1>10 DEF ChoicesInv, Choices!TypeOK
-----------------------------------------------------------------------------
(* Onboarding: a request that will advance the row has answered its step,  *)
(* and the row it read had passed only steps that were answered by then.   *)
StepsToAnswer == {"COUNTRY", "SPORTS", "COMPETITIONS", "CLUBS"}
Place(s) == Setup!SelectInSeq(Setup!STEP_ORDER, LAMBDA x : x = s)

PassedAnswered(x) == ~x.completed => Setup!Before(x.step) \subseteq given

SetupCalls == [op : {Absent, "delete", "create", "advance", "skip", "save", "complete", "resume"},
               step : StepsToAnswer \cup {Absent}, items : SUBSET {1, 2},
               row : Setup!Rows \cup {Absent}]

SetupCallFine(x) ==
    /\ x \in SetupCalls
    /\ x.op \in {"delete", "create"} => x.step \in StepsToAnswer /\ x.items \subseteq Setup!Items[x.step]
    /\ x.op = "skip" => x.step \in StepsToAnswer
    /\ x.op \in {"advance", "save"} => x.step \in given
    /\ x.op \in {"skip", "save"} => x.row \in Setup!Rows /\ PassedAnswered(x.row)

SetupInv ==
    /\ row \in Setup!Rows /\ PassedAnswered(row)
    /\ favourites = [s \in StepsToAnswer |-> favourites[s]]
    /\ \A s \in StepsToAnswer : favourites[s] \subseteq Setup!Items[s]
    /\ callsOfSetup = [r \in Clients |-> callsOfSetup[r]]
    /\ \A r \in Clients : SetupCallFine(callsOfSetup[r])
    /\ made \in 0..Bound /\ given \subseteq StepsToAnswer

LEMMA SetupPlaces ==
    /\ Setup!ToSet(Setup!STEP_ORDER) = StepsToAnswer /\ DOMAIN Setup!Items = StepsToAnswer
    /\ Setup!Step = StepsToAnswer \cup {"COMPLETED"}
    /\ Place("COUNTRY") = 1 /\ Place("SPORTS") = 2 /\ Place("COMPETITIONS") = 3 /\ Place("CLUBS") = 4
  <1>1. Setup!STEP_ORDER = <<"COUNTRY", "SPORTS", "COMPETITIONS", "CLUBS">> /\ Len(Setup!STEP_ORDER) = 4
        /\ DOMAIN Setup!STEP_ORDER = 1..4
    BY DEF Setup!STEP_ORDER
  <1>2. \A i \in 1..4 : {j \in 1..4 : Setup!STEP_ORDER[j] = Setup!STEP_ORDER[i]} = {i} BY <1>1
  <1>3. \A i \in Int : Setup!Min({i}) = i
    <2>1. SUFFICES ASSUME NEW i \in Int PROVE Setup!Min({i}) = i OBVIOUS
    <2>2. i \in {i} /\ \A y \in {i} : i =< y OBVIOUS
    <2>3. Setup!Min({i}) \in {i} BY <2>2, Zenon DEF Setup!Min
    <2> QED BY <2>3
  <1>4. \A i \in 1..4 : Place(Setup!STEP_ORDER[i]) = i
    BY <1>1, <1>2, <1>3 DEF Place, Setup!SelectInSeq
  <1>5. Setup!ToSet(Setup!STEP_ORDER) = StepsToAnswer BY <1>1 DEF Setup!ToSet, StepsToAnswer
  <1>6. DOMAIN Setup!Items = StepsToAnswer BY DEF Setup!Items, StepsToAnswer
  <1> QED BY <1>1, <1>4, <1>5, <1>6 DEF Setup!Step

LEMMA SetupPassing ==
    /\ Setup!Before("COUNTRY") = {}
    /\ \A s \in StepsToAnswer : /\ Setup!NextStep(s) \in Setup!Step
                                /\ Setup!Before(Setup!NextStep(s)) \subseteq Setup!Before(s) \cup {s}
  <1>1. Setup!STEP_ORDER = <<"COUNTRY", "SPORTS", "COMPETITIONS", "CLUBS">> /\ Len(Setup!STEP_ORDER) = 4
    BY DEF Setup!STEP_ORDER
  <1>2. \A s \in StepsToAnswer : Place(s) \in 1..4 BY SetupPlaces DEF StepsToAnswer
  <1>3. \A s : Setup!Before(s) = {t \in StepsToAnswer : s = "COMPLETED" \/ Place(t) < Place(s)}
    BY SetupPlaces DEF Setup!Before, Place
  <1>4. \A s \in StepsToAnswer :
            Setup!NextStep(s) = IF Place(s) < 4 THEN Setup!STEP_ORDER[Place(s) + 1] ELSE "COMPLETED"
    BY <1>1 DEF Setup!NextStep, Place
  <1>5. /\ Setup!NextStep("COUNTRY") = "SPORTS" /\ Setup!NextStep("SPORTS") = "COMPETITIONS"
        /\ Setup!NextStep("COMPETITIONS") = "CLUBS" /\ Setup!NextStep("CLUBS") = "COMPLETED"
    BY <1>1, <1>4, SetupPlaces DEF StepsToAnswer
  <1>6. Setup!Before("COUNTRY") = {} BY <1>2, <1>3, SetupPlaces DEF StepsToAnswer
  <1>7. ASSUME NEW s \in StepsToAnswer
        PROVE  Setup!Before(Setup!NextStep(s)) \subseteq Setup!Before(s) \cup {s}
    BY <1>3, <1>5, SetupPlaces DEF StepsToAnswer
  <1> QED BY <1>5, <1>6, <1>7, SetupPlaces DEF StepsToAnswer

LEMMA SetupInit == Setup!Init => SetupInv
  <1> SUFFICES ASSUME Setup!Init PROVE SetupInv OBVIOUS
  <1>1. row = [step |-> "COUNTRY", completed |-> FALSE, skipped |-> {}] /\ row \in Setup!Rows
    BY SetupPlaces DEF Setup!Init, Setup!Rows, StepsToAnswer
  <1>2. PassedAnswered(row) BY <1>1, SetupPassing DEF PassedAnswered
  <1>3. favourites = [s \in StepsToAnswer |-> {}] /\ made = 0 /\ given = {}
    BY SetupPlaces DEF Setup!Init
  <1>4. callsOfSetup = [r \in Clients |-> Setup!Idle] BY DEF Setup!Init
  <1>5. SetupCallFine(Setup!Idle) BY AbsentAssumption DEF SetupCallFine, SetupCalls, Setup!Idle
  <1> QED BY <1>1, <1>2, <1>3, <1>4, <1>5, LimitsAssumption DEF SetupInv

(* What a step of the setup shows for one request shows it for all.        *)
LEMMA SetupMoves ==
    ASSUME SetupInv, NEW r \in Clients, NEW x,
           callsOfSetup' = [callsOfSetup EXCEPT ![r] = x],
           given \subseteq given', SetupCallFine(x)'
    PROVE  /\ callsOfSetup' = [q \in Clients |-> callsOfSetup'[q]]
           /\ \A q \in Clients : SetupCallFine(callsOfSetup[q])'
  <1>1. callsOfSetup' = [q \in Clients |-> IF q = r THEN x ELSE callsOfSetup[q]] BY DEF SetupInv
  <1>2. ASSUME NEW q \in Clients, q # r PROVE SetupCallFine(callsOfSetup[q])'
    BY <1>1, <1>2 DEF SetupInv, SetupCallFine, PassedAnswered
  <1>3. SetupCallFine(callsOfSetup[r])' BY <1>1
  <1> QED BY <1>1, <1>2, <1>3

LEMMA SetupNext == SetupInv /\ Setup!Next => SetupInv'
  <1> SUFFICES ASSUME SetupInv, Setup!Next PROVE SetupInv' OBVIOUS
  <1> DEFINE RowFine == row' \in Setup!Rows /\ PassedAnswered(row)'
             Kept == /\ favourites' = [s \in StepsToAnswer |-> favourites'[s]]
                     /\ \A s \in StepsToAnswer : favourites'[s] \subseteq Setup!Items[s]
             CallsFine == /\ callsOfSetup' = [q \in Clients |-> callsOfSetup'[q]]
                          /\ \A q \in Clients : SetupCallFine(callsOfSetup[q])'
             Counted == made' \in 0..Bound /\ given' \subseteq StepsToAnswer
             Fine == RowFine /\ Kept /\ CallsFine /\ Counted
  <1>0. /\ row \in Setup!Rows /\ PassedAnswered(row)
        /\ favourites = [s \in StepsToAnswer |-> favourites[s]]
        /\ \A s \in StepsToAnswer : favourites[s] \subseteq Setup!Items[s]
        /\ callsOfSetup = [r \in Clients |-> callsOfSetup[r]]
        /\ \A r \in Clients : SetupCallFine(callsOfSetup[r])
        /\ made \in 0..Bound /\ given \subseteq StepsToAnswer
    BY DEF SetupInv
  <1>1. made < Bound => made + 1 \in 0..Bound BY <1>0, LimitsAssumption
  <1>2. row' = row /\ given \subseteq given' => RowFine BY <1>0 DEF PassedAnswered
  <1>3. favourites' = favourites => Kept BY <1>0
  <1>4. UNCHANGED <<callsOfSetup, given>> => CallsFine BY <1>0 DEF SetupCallFine, PassedAnswered
  <1>5. Setup!Idle = [op |-> Absent, step |-> Absent, items |-> {}, row |-> Absent]
        /\ SetupCallFine(Setup!Idle)
    BY AbsentAssumption DEF SetupCallFine, SetupCalls, Setup!Idle
  <1>6. Setup!Idle \in SetupCalls BY <1>5 DEF SetupCallFine
  <1>7. \A s \in StepsToAnswer : Setup!Items[s] \subseteq {1, 2} BY DEF Setup!Items, StepsToAnswer
  <1> HIDE DEF CallsFine
  <1>10. ASSUME NEW r \in Clients, NEW s \in StepsToAnswer, NEW xs \in SUBSET Setup!Items[s],
                Setup!Submit(r, s, xs)
         PROVE  Fine
    <2> DEFINE x == [Setup!Idle EXCEPT !.op = "delete", !.step = s, !.items = xs]
    <2>1. callsOfSetup' = [callsOfSetup EXCEPT ![r] = x]
          /\ made < Bound /\ made' = made + 1 /\ UNCHANGED <<row, favourites, given>>
      BY <1>10 DEF Setup!Submit
    <2>2. SetupCallFine(x)'
      <3>1. x \in SetupCalls /\ x.op = "delete" /\ x.step = s /\ x.items = xs
        BY <1>5, <1>6, <1>7 DEF SetupCalls
      <3> HIDE DEF x
      <3> QED BY <3>1 DEF SetupCallFine
    <2> HIDE DEF x
    <2>3. CallsFine BY <2>1, <2>2, SetupMoves DEF CallsFine
    <2> QED BY <1>0, <1>1, <1>2, <1>3, <2>1, <2>3
  <1>11. ASSUME NEW r \in Clients, Setup!DeleteOld(r) PROVE Fine
    <2> DEFINE x == [callsOfSetup[r] EXCEPT !.op = "create"]
    <2>1. /\ callsOfSetup' = [callsOfSetup EXCEPT ![r] = x]
          /\ callsOfSetup[r].op = "delete"
          /\ favourites' = [favourites EXCEPT ![callsOfSetup[r].step] = {}]
          /\ UNCHANGED <<row, made, given>>
      BY <1>11 DEF Setup!DeleteOld, Setup!Running, Setup!To
    <2>2. callsOfSetup[r] \in SetupCalls /\ callsOfSetup[r].step \in StepsToAnswer
          /\ callsOfSetup[r].items \subseteq Setup!Items[callsOfSetup[r].step]
      BY <1>0, <2>1 DEF SetupCallFine
    <2>3. PICK y : y = x OBVIOUS
    <2>6. SetupCallFine(y)' BY <2>2, <2>3 DEF SetupCalls, SetupCallFine
    <2>7. callsOfSetup' = [callsOfSetup EXCEPT ![r] = y] BY <2>1, <2>3
    <2>4. CallsFine BY <2>1, <2>6, <2>7, SetupMoves DEF CallsFine
    <2>5. Kept BY <1>0, <2>1, <2>2
    <2> QED BY <1>0, <1>2, <2>1, <2>4, <2>5
  <1>12. ASSUME NEW r \in Clients, Setup!CreateNew(r) PROVE Fine
    <2>1. callsOfSetup[r].op = "create" /\ UNCHANGED <<row, made>>
      BY <1>12 DEF Setup!CreateNew, Setup!Running
    <2>2. callsOfSetup[r] \in SetupCalls /\ callsOfSetup[r].step \in StepsToAnswer
          /\ callsOfSetup[r].items \subseteq Setup!Items[callsOfSetup[r].step]
      BY <1>0, <2>1 DEF SetupCallFine
    <2>3. CASE callsOfSetup' = [callsOfSetup EXCEPT ![r] = Setup!Idle] /\ UNCHANGED <<favourites, given>>
      <3>1. SetupCallFine(Setup!Idle)' BY <1>5, <2>3 DEF SetupCallFine, PassedAnswered
      <3>2. CallsFine BY <2>3, <3>1, SetupMoves DEF CallsFine
      <3> QED BY <1>0, <1>2, <1>3, <2>1, <2>3, <3>2
    <2>4. CASE /\ callsOfSetup' = [callsOfSetup EXCEPT ![r].op = "advance"]
               /\ favourites' = [favourites EXCEPT ![callsOfSetup[r].step] = @ \cup callsOfSetup[r].items]
               /\ given' = given \cup {callsOfSetup[r].step}
      <3> DEFINE x == [callsOfSetup[r] EXCEPT !.op = "advance"]
      <3>1. callsOfSetup' = [callsOfSetup EXCEPT ![r] = x] BY <2>4
      <3>2. PICK y : y = x OBVIOUS
      <3>5. SetupCallFine(y)' BY <2>2, <2>4, <3>2 DEF SetupCalls, SetupCallFine
      <3>6. callsOfSetup' = [callsOfSetup EXCEPT ![r] = y] BY <3>1, <3>2
      <3>3. CallsFine BY <2>4, <3>5, <3>6, SetupMoves DEF CallsFine
      <3>4. Kept BY <1>0, <2>2, <2>4
      <3> QED BY <1>0, <1>2, <2>1, <2>2, <2>4, <3>3, <3>4
    <2> QED BY <1>12, <2>3, <2>4 DEF Setup!CreateNew, Setup!End, Setup!To
  <1>13. ASSUME NEW r \in Clients, NEW s \in StepsToAnswer, Setup!Skip(r, s) PROVE Fine
    <2> DEFINE x == [Setup!Idle EXCEPT !.op = "skip", !.step = s, !.row = row]
    <2>1. callsOfSetup' = [callsOfSetup EXCEPT ![r] = x]
          /\ made < Bound /\ made' = made + 1 /\ UNCHANGED <<row, favourites, given>>
      BY <1>13 DEF Setup!Skip
    <2>2. PICK y : y = x OBVIOUS
    <2>3. y \in SetupCalls /\ y.op = "skip" /\ y.step = s /\ y.row = row
      BY <1>0, <1>5, <1>6, <2>2 DEF SetupCalls
    <2>4. callsOfSetup' = [callsOfSetup EXCEPT ![r] = y] BY <2>1, <2>2
    <2> HIDE DEF x
    <2>5. SetupCallFine(y)' BY <1>0, <2>1, <2>3 DEF SetupCallFine, PassedAnswered
    <2>6. CallsFine BY <2>1, <2>4, <2>5, SetupMoves DEF CallsFine
    <2> QED BY <1>0, <1>1, <1>2, <1>3, <2>1, <2>6
  <1>14. ASSUME NEW r \in Clients, Setup!SaveSkip(r) PROVE Fine
    <2> DEFINE s == callsOfSetup[r].step
               old == callsOfSetup[r].row
               x == [callsOfSetup[r] EXCEPT !.op = "save"]
    <2>1. /\ callsOfSetup[r].op = "skip" /\ given' = given \cup {s}
          /\ callsOfSetup' = [callsOfSetup EXCEPT ![r] = x]
          /\ \/ row' = row
             \/ row' = [row EXCEPT !.skipped = old.skipped \cup {s}]
          /\ UNCHANGED <<favourites, made>>
      BY <1>14 DEF Setup!SaveSkip, Setup!Running, Setup!To
    <2>2. callsOfSetup[r] \in SetupCalls /\ s \in StepsToAnswer /\ old \in Setup!Rows /\ PassedAnswered(old)
      BY <1>0, <2>1 DEF SetupCallFine
    <2>3. RowFine
      <3>1. CASE row' = row BY <1>2, <2>1, <3>1
      <3>2. CASE row' = [row EXCEPT !.skipped = old.skipped \cup {s}]
        BY <1>0, <2>1, <2>2, <3>2, SetupPlaces DEF Setup!Rows, PassedAnswered
      <3> QED BY <2>1, <3>1, <3>2
    <2>7. PICK y : y = x OBVIOUS
    <2>4. SetupCallFine(y)' BY <2>1, <2>2, <2>7 DEF SetupCalls, SetupCallFine, PassedAnswered
    <2>8. callsOfSetup' = [callsOfSetup EXCEPT ![r] = y] BY <2>1, <2>7
    <2>5. CallsFine BY <2>1, <2>4, <2>8, SetupMoves DEF CallsFine
    <2>6. Counted BY <1>0, <2>1, <2>2
    <2> QED BY <1>3, <2>1, <2>3, <2>5, <2>6
  <1>15. ASSUME NEW r \in Clients, Setup!ReadRow(r) PROVE Fine
    <2>1. /\ callsOfSetup[r].op = "advance"
          /\ callsOfSetup' = [callsOfSetup EXCEPT ![r].op = "save", ![r].row = row]
          /\ UNCHANGED <<row, favourites, made, given>>
      BY <1>15 DEF Setup!ReadRow, Setup!Running
    <2>2. callsOfSetup[r] \in SetupCalls /\ callsOfSetup[r].step \in given
      BY <1>0, <2>1 DEF SetupCallFine
    <2>3. PICK y : y = [callsOfSetup[r] EXCEPT !.op = "save", !.row = row] OBVIOUS
    <2>4. y \in SetupCalls /\ y.op = "save" /\ y.step = callsOfSetup[r].step /\ y.row = row
      BY <1>0, <2>2, <2>3 DEF SetupCalls
    <2>5. callsOfSetup' = [callsOfSetup EXCEPT ![r] = y] BY <2>1, <2>3
    <2>6. SetupCallFine(y)' BY <1>0, <2>1, <2>2, <2>4 DEF SetupCallFine, PassedAnswered
    <2>7. CallsFine BY <2>1, <2>5, <2>6, SetupMoves DEF CallsFine
    <2> QED BY <1>0, <1>2, <1>3, <2>1, <2>7
  <1>16. ASSUME NEW r \in Clients,
                \/ Setup!AdvanceStep(r) \/ Setup!SaveCompleted(r) \/ Setup!SaveResumed(r)
         PROVE  Fine
    <2>1. /\ callsOfSetup' = [callsOfSetup EXCEPT ![r] = Setup!Idle]
          /\ UNCHANGED <<favourites, made, given>>
      BY <1>16 DEF Setup!AdvanceStep, Setup!SaveCompleted, Setup!SaveResumed, Setup!End
    <2>2. CallsFine BY <1>5, <2>1, SetupMoves DEF SetupCallFine, PassedAnswered, CallsFine
    <2>3. ASSUME Setup!AdvanceStep(r) PROVE RowFine
      <3> DEFINE s == callsOfSetup[r].step
                 old == callsOfSetup[r].row
      <3>1. CASE row' = row BY <1>2, <2>1, <3>1
      <3>2. CASE row' # row
        <4>1. /\ callsOfSetup[r].op = "save" /\ ~old.completed /\ old.step = s
              /\ row' = [row EXCEPT !.step = Setup!NextStep(old.step)]
          BY <2>3, <3>2 DEF Setup!AdvanceStep, Setup!Running, Setup!Advances
        <4>2. s \in given /\ PassedAnswered(old) /\ s \in StepsToAnswer
          BY <1>0, <4>1 DEF SetupCallFine
        <4>3. PICK n : n = Setup!NextStep(s) OBVIOUS
        <4>4. n \in Setup!Step /\ Setup!Before(n) \subseteq given
          BY <4>1, <4>2, <4>3, SetupPassing DEF PassedAnswered
        <4>5. row' \in Setup!Rows /\ row'.step = n BY <1>0, <4>1, <4>3, <4>4 DEF Setup!Rows
        <4> QED BY <2>1, <4>4, <4>5 DEF PassedAnswered
      <3> QED BY <3>1, <3>2
    <2>4. ASSUME Setup!SaveCompleted(r) PROVE RowFine
      BY <1>0, <2>4, SetupPlaces DEF Setup!SaveCompleted, Setup!Rows, PassedAnswered
    <2>5. ASSUME Setup!SaveResumed(r) PROVE RowFine
      BY <1>0, <2>5, SetupPlaces, SetupPassing DEF Setup!SaveResumed, Setup!Rows, StepsToAnswer,
         PassedAnswered
    <2> QED BY <1>0, <1>3, <1>16, <2>1, <2>2, <2>3, <2>4, <2>5
  <1>17. ASSUME NEW r \in Clients, Setup!Finish(r) \/ Setup!Resume(r) PROVE Fine
    <2>1. PICK op \in {Absent, "complete", "resume"} :
              callsOfSetup' = [callsOfSetup EXCEPT ![r].op = op]
      BY <1>17 DEF Setup!Finish, Setup!Resume
    <2>2. made < Bound /\ made' = made + 1 /\ UNCHANGED <<row, favourites, given>>
      BY <1>17 DEF Setup!Finish, Setup!Resume
    <2>3. PICK y : y = [callsOfSetup[r] EXCEPT !.op = op] OBVIOUS
    <2>4. y \in SetupCalls /\ y.op = op BY <1>0, <2>3 DEF SetupCallFine, SetupCalls
    <2>5. SetupCallFine(y)' BY <2>1, <2>4, AbsentAssumption DEF SetupCallFine
    <2>6. callsOfSetup' = [callsOfSetup EXCEPT ![r] = y] BY <2>1, <2>3
    <2>7. CallsFine BY <2>2, <2>5, <2>6, SetupMoves DEF CallsFine
    <2> QED BY <1>0, <1>1, <1>2, <1>3, <2>2, <2>7
  <1>18. ASSUME NEW ss \in SUBSET {1, 2}, NEW ks \in SUBSET {1}, Setup!FromProfile(ss, ks) PROVE Fine
    <2>1. made < Bound /\ made' = made + 1 /\ UNCHANGED <<row, callsOfSetup, given>>
      BY <1>18 DEF Setup!FromProfile
    <2>2. PICK as, bs : /\ as \in {favourites["SPORTS"], ss} /\ bs \in {favourites["COMPETITIONS"], ks}
                        /\ favourites' = [favourites EXCEPT !["SPORTS"] = as, !["COMPETITIONS"] = bs]
      BY <1>18 DEF Setup!FromProfile
    <2>3. Setup!Items["SPORTS"] = {1, 2} /\ Setup!Items["COMPETITIONS"] = {1} BY DEF Setup!Items
    <2>4. as \subseteq Setup!Items["SPORTS"] /\ bs \subseteq Setup!Items["COMPETITIONS"]
      BY <1>0, <2>2, <2>3 DEF StepsToAnswer
    <2>5. Kept BY <1>0, <2>2, <2>4 DEF StepsToAnswer
    <2> QED BY <1>0, <1>1, <1>2, <1>4, <2>1, <2>5
  <1>19. Fine BY <1>10, <1>11, <1>12, <1>13, <1>14, <1>15, <1>16, <1>17, <1>18, SetupPlaces
       DEF Setup!Next, Setup!Select, Setup!Skipping, Setup!Work, Setup!Ending, Setup!Profile
  <1> QED BY <1>19 DEF CallsFine, SetupInv

LEMMA SetupStutter == SetupInv /\ UNCHANGED setupVars => SetupInv'
  BY DEF SetupInv, setupVars, SetupCallFine, PassedAnswered

LEMMA SetupInvSays == SetupInv => Setup!TypeOK /\ Setup!PassedStepsWereAnswered
  <1> SUFFICES ASSUME SetupInv PROVE Setup!TypeOK /\ Setup!PassedStepsWereAnswered OBVIOUS
  <1>1. \A r \in Clients : callsOfSetup[r].row \in Setup!Rows \cup {Absent}
    BY DEF SetupInv, SetupCallFine, SetupCalls
  <1> QED BY <1>1, SetupPlaces DEF SetupInv, Setup!TypeOK, Setup!PassedStepsWereAnswered, PassedAnswered
-----------------------------------------------------------------------------
(* The picture of a profile and the logo of a club: while no request       *)
(* failed and no page was saved beside another request, a name that is not *)
(* in the storage is about to be overwritten by the request that deleted   *)
(* its file, and nobody but its owner knows a file that is not named yet.  *)
Image(Pages, InTransaction) == INSTANCE ImageFiles WITH
        row <- rowOfAvatar, calls <- callsOfAvatar, Requests <- Clients,
        MaxFiles <- Bound, MaxFailures <- 1, None <- Absent

FileNames == (1..Bound) \cup {Absent}
ImageCalls == [op : {Absent, "upload", "remove", "page"},
               step : {Absent, "unlink", "store", "save", "commit", "page"},
               old : FileNames, new : FileNames]
Busy == {r \in Clients : callsOfAvatar[r].op # Absent}
Replaces(r) == r \in Busy /\ callsOfAvatar[r].op # "page"
Uploading == {r \in Busy : callsOfAvatar[r].op = "upload" /\ callsOfAvatar[r].new = Absent}
Used(name) == name # Absent => name <= files

ImageCallFine(x) ==
    /\ x \in ImageCalls
    /\ Used(x.old) /\ Used(x.new)
    /\ x.step = "unlink" => x.op \in {"upload", "remove"} /\ x.new = Absent
    /\ x.step = "store" => x.op = "upload" /\ x.new = Absent
    /\ x.step = "save" => x.op \in {"upload", "remove"}
    /\ x.step = "page" => x.op = "page" /\ x.new = Absent
    /\ x.op = "page" => x.step \in {"page", "commit"}

ImageTyped ==
    /\ rowOfAvatar \in FileNames /\ Used(rowOfAvatar)
    /\ stored \subseteq 1..Bound /\ writer \in Clients \cup {Absent}
    /\ callsOfAvatar = [r \in Clients |-> callsOfAvatar[r]]
    /\ \A r \in Clients : ImageCallFine(callsOfAvatar[r])
    /\ files \in 0..Bound /\ failures \in 0..1 /\ pages \in BOOLEAN

(* A save of the profile page runs alone.                                  *)
PageAlone == \A r \in Busy : callsOfAvatar[r].op = "page" =>
    /\ Busy = {r} /\ callsOfAvatar[r].old = rowOfAvatar
    /\ callsOfAvatar[r].step = "commit" => callsOfAvatar[r].new = rowOfAvatar
NewIsOwn == \A r \in Clients : Replaces(r) /\ callsOfAvatar[r].new # Absent =>
    /\ callsOfAvatar[r].new \in stored /\ callsOfAvatar[r].new # rowOfAvatar
    /\ \A q \in Clients : q \in Busy => callsOfAvatar[q].old # callsOfAvatar[r].new
    /\ \A q \in Clients : Replaces(q) /\ q # r => callsOfAvatar[q].new # callsOfAvatar[r].new
Overwrites(r) == Replaces(r) /\ callsOfAvatar[r].old = rowOfAvatar
                 /\ callsOfAvatar[r].step \in {"store", "save", "commit"}
NamedOrReplaced == rowOfAvatar \in stored \cup {Absent} \/ \E r \in Clients : Overwrites(r)

ImageInv ==
    /\ ImageTyped
    /\ files + Cardinality(Uploading) <= Bound
    /\ failures = 0 /\ ~pages => PageAlone /\ NewIsOwn /\ NamedOrReplaced

LEMMA UploadingFinite == IsFiniteSet(Uploading) /\ Cardinality(Uploading) \in Nat
  BY ClientsAssumption, FS_Subset, FS_CardinalityType DEF Uploading, Busy

LEMMA ImageInit ==
    ASSUME NEW P \in SUBSET Clients, NEW t \in BOOLEAN, Image(P, t)!Init
    PROVE  ImageInv
  <1>1. /\ rowOfAvatar = Absent /\ stored = {} /\ writer = Absent
        /\ callsOfAvatar = [r \in Clients |-> [op |-> Absent, step |-> Absent, old |-> Absent, new |-> Absent]]
        /\ files = 0 /\ failures = 0 /\ pages = FALSE
    BY DEF Image!Init, Image!Idle
  <1>2. Busy = {} /\ Uploading = {} BY <1>1 DEF Busy, Uploading
  <1>3. Cardinality(Uploading) = 0 BY <1>2, FS_EmptySet
  <1>5. ASSUME NEW x, x = [op |-> Absent, step |-> Absent, old |-> Absent, new |-> Absent]
        PROVE  ImageCallFine(x)
    BY <1>5, AbsentAssumption DEF ImageCalls, FileNames, ImageCallFine, Used
  <1>6. \A r \in Clients : ImageCallFine(callsOfAvatar[r]) BY <1>1, <1>5
  <1>4. ImageTyped
    <2>1. 0 \in 0..Bound /\ 0 \in 0..1 BY LimitsAssumption
    <2>2. callsOfAvatar = [r \in Clients |-> callsOfAvatar[r]] BY <1>1
    <2>3. Used(rowOfAvatar) BY <1>1 DEF Used
    <2> QED BY <1>1, <1>6, <2>1, <2>2, <2>3 DEF ImageTyped, FileNames
  <1> QED BY <1>1, <1>2, <1>3, <1>4, LimitsAssumption
       DEF ImageInv, PageAlone, NewIsOwn, NamedOrReplaced, Replaces

(* One request changes its own record, and leaves what others know alone.  *)
Changes(r, x) == r \in Clients /\ callsOfAvatar' = [callsOfAvatar EXCEPT ![r] = x]

LEMMA ImageMoves ==
    ASSUME ImageInv, NEW r, NEW x, Changes(r, x), files <= files', files' \in Nat, ImageCallFine(x)'
    PROVE  /\ callsOfAvatar' = [q \in Clients |-> callsOfAvatar'[q]]
           /\ \A q \in Clients : ImageCallFine(callsOfAvatar[q])'
           /\ callsOfAvatar'[r] = x
           /\ \A q \in Clients : q # r => callsOfAvatar'[q] = callsOfAvatar[q]
           /\ \A q \in Clients : q # r => (q \in Busy' <=> q \in Busy) /\ (Replaces(q)' <=> Replaces(q))
           /\ r \in Busy' <=> x.op # Absent
           /\ Replaces(r)' <=> x.op \notin {Absent, "page"}
  <1>1. callsOfAvatar' = [q \in Clients |-> IF q = r THEN x ELSE callsOfAvatar[q]] /\ r \in Clients
    BY DEF ImageInv, ImageTyped, Changes
  <1>2. ASSUME NEW q \in Clients, q # r PROVE ImageCallFine(callsOfAvatar[q])'
    <2>1. callsOfAvatar'[q] = callsOfAvatar[q] /\ files \in Nat
      BY <1>1, <1>2 DEF ImageInv, ImageTyped
    <2>2. ImageCallFine(callsOfAvatar[q]) BY DEF ImageInv, ImageTyped
    <2>3. callsOfAvatar[q].old \in FileNames /\ callsOfAvatar[q].new \in FileNames
      BY <2>2 DEF ImageCallFine, ImageCalls
    <2>4. \A n \in FileNames : Used(n) => Used(n)'
      BY <2>1, AbsentAssumption, LimitsAssumption DEF Used, FileNames
    <2> QED BY <2>1, <2>2, <2>3, <2>4 DEF ImageCallFine, Used
  <1>3. ImageCallFine(callsOfAvatar[r])' BY <1>1
  <1>4. \A q \in Clients : q # r => callsOfAvatar'[q] = callsOfAvatar[q] BY <1>1
  <1>5. callsOfAvatar'[r] = x BY <1>1
  <1> QED BY <1>1, <1>2, <1>3, <1>4, <1>5 DEF Busy, Replaces

(* What every step of a request but the first one must show.               *)
LEMMA ImageBegins ==
    ASSUME NEW P \in SUBSET Clients, NEW t \in BOOLEAN, ImageInv, NEW r \in Clients, NEW op, NEW step,
           Image(P, t)!Begin(r, op, step),
           <<op, step>> \in {<<"upload", "unlink">>, <<"remove", "unlink">>, <<"page", "page">>},
           op = "upload" => files + Cardinality(Uploading) < Bound
    PROVE  ImageInv'
  <1> DEFINE n == [op |-> op, step |-> step, old |-> rowOfAvatar, new |-> Absent]
  <1>0. ImageTyped BY DEF ImageInv
  <1>1. PICK x : x = n OBVIOUS
  <1>2. /\ r \notin Busy /\ Changes(r, x)
        /\ UNCHANGED <<rowOfAvatar, stored, writer, files, failures>>
        /\ pages' \in BOOLEAN
        /\ ~pages' => ~pages /\ (Busy = {} \/ (op # "page" /\ \A q \in Busy : callsOfAvatar[q].op # "page"))
    BY <1>0, <1>1 DEF Image!Begin, Image!Running, Busy, Changes, ImageTyped
  <1>3. x.op = op /\ x.step = step /\ x.old = rowOfAvatar /\ x.new = Absent /\ op \in {"upload", "remove", "page"}
        /\ (op = "page" <=> step = "page") /\ op # Absent
    BY <1>1, AbsentAssumption
  <1>4. x \in ImageCalls BY <1>0, <1>1 DEF ImageCalls, ImageTyped, FileNames
  <1>5. ImageCallFine(x)'
    BY <1>0, <1>2, <1>3, <1>4, AbsentAssumption DEF ImageCallFine, Used, ImageTyped
  <1>6. files' = files /\ files \in Nat BY <1>0, <1>2 DEF ImageTyped
  <1>7. /\ callsOfAvatar' = [q \in Clients |-> callsOfAvatar'[q]]
        /\ \A q \in Clients : ImageCallFine(callsOfAvatar[q])'
        /\ callsOfAvatar'[r] = x
        /\ \A q \in Clients : q # r => callsOfAvatar'[q] = callsOfAvatar[q]
        /\ \A q \in Clients : q # r => (q \in Busy' <=> q \in Busy) /\ (Replaces(q)' <=> Replaces(q))
        /\ r \in Busy' /\ (Replaces(r)' <=> op # "page")
    BY <1>2, <1>3, <1>5, <1>6, ImageMoves, AbsentAssumption
  <1>8. ImageTyped' BY <1>0, <1>2, <1>7 DEF ImageTyped, Used
  <1>9. files' + Cardinality(Uploading') <= Bound
    <2>1. CASE op = "upload"
      <3>1. Uploading' = Uploading \cup {r} /\ r \notin Uploading
        BY <1>2, <1>3, <1>7, <2>1 DEF Uploading, Busy
      <3>2. Cardinality(Uploading \cup {r}) = Cardinality(Uploading) + 1
        BY <3>1, UploadingFinite, FS_AddElement
      <3> QED BY <1>6, <2>1, <3>1, <3>2, UploadingFinite, LimitsAssumption
    <2>2. CASE op # "upload" BY <1>2, <1>3, <1>6, <1>7, <2>2 DEF Uploading, Busy, ImageInv
    <2> QED BY <2>1, <2>2
  <1>10. ASSUME failures' = 0, ~pages' PROVE PageAlone' /\ NewIsOwn' /\ NamedOrReplaced'
    <2>1. /\ PageAlone /\ NewIsOwn /\ NamedOrReplaced
          /\ Busy = {} \/ (op # "page" /\ \A q \in Busy : callsOfAvatar[q].op # "page")
      BY <1>2, <1>10 DEF ImageInv
    <2>2. \A q \in Busy' : q \in Clients /\ (q # r => q \in Busy) BY <1>7 DEF Busy
    <2>3. PageAlone'
      <3>1. CASE Busy = {} BY <1>2, <1>3, <1>7, <2>2, <3>1 DEF PageAlone
      <3>2. CASE op # "page" /\ \A q \in Busy : callsOfAvatar[q].op # "page"
        BY <1>3, <1>7, <2>2, <3>2 DEF PageAlone
      <3> QED BY <2>1, <3>1, <3>2
    <2>4. NewIsOwn' BY <1>2, <1>3, <1>7, <2>1 DEF NewIsOwn
    <2>5. NamedOrReplaced'
      <3>1. ASSUME NEW q \in Clients, Overwrites(q) PROVE Overwrites(q)'
        BY <1>2, <1>7, <3>1 DEF Overwrites, Replaces
      <3> QED BY <1>2, <2>1, <3>1 DEF NamedOrReplaced
    <2> QED BY <2>3, <2>4, <2>5
  <1> QED BY <1>8, <1>9, <1>10 DEF ImageInv

(* The row is saved by a request that replaces the picture, or by a save   *)
(* of the page: the row names what the request has stored.                 *)
LEMMA ImageEnds ==
    ASSUME ImageInv, NEW r \in Clients, r \in Busy, callsOfAvatar[r].step \in {"save", "commit"},
           callsOfAvatar[r].step = "save" => callsOfAvatar[r].op # "page",
           Changes(r, [op |-> Absent, step |-> Absent, old |-> Absent, new |-> Absent]),
           rowOfAvatar' = callsOfAvatar[r].new, UNCHANGED <<stored, files, failures, pages>>,
           writer' \in Clients \cup {Absent}
    PROVE  ImageInv'
  <1>0. ImageTyped /\ ImageCallFine(callsOfAvatar[r]) BY DEF ImageInv, ImageTyped
  <1>1. PICK x : x = [op |-> Absent, step |-> Absent, old |-> Absent, new |-> Absent] OBVIOUS
  <1>2. Changes(r, x) /\ x.op = Absent /\ x.new = Absent BY <1>1
  <1>3. ImageCallFine(x)' BY <1>1, AbsentAssumption DEF ImageCalls, FileNames, ImageCallFine, Used
  <1>4. files' = files /\ files \in Nat BY <1>0 DEF ImageTyped
  <1>7. /\ callsOfAvatar' = [q \in Clients |-> callsOfAvatar'[q]]
        /\ \A q \in Clients : ImageCallFine(callsOfAvatar[q])'
        /\ callsOfAvatar'[r] = x
        /\ \A q \in Clients : q # r => callsOfAvatar'[q] = callsOfAvatar[q]
        /\ \A q \in Clients : q # r => (q \in Busy' <=> q \in Busy) /\ (Replaces(q)' <=> Replaces(q))
        /\ r \notin Busy' /\ ~Replaces(r)'
    BY <1>2, <1>3, <1>4, ImageMoves, AbsentAssumption
  <1>8. ImageTyped' BY <1>0, <1>7 DEF ImageCallFine, ImageCalls, ImageTyped, Used
  <1>9. files' + Cardinality(Uploading') <= Bound
    <2>1. Uploading' \in SUBSET Uploading BY <1>7 DEF Uploading, Busy
    <2>2. Cardinality(Uploading') <= Cardinality(Uploading) /\ Cardinality(Uploading') \in Nat
      BY <2>1, UploadingFinite, FS_Subset, FS_CardinalityType
    <2> QED BY <1>4, <2>2, UploadingFinite, LimitsAssumption DEF ImageInv
  <1>10. ASSUME failures' = 0, ~pages' PROVE PageAlone' /\ NewIsOwn' /\ NamedOrReplaced'
    <2>1. PageAlone /\ NewIsOwn /\ NamedOrReplaced BY <1>10 DEF ImageInv
    <2>2. \A q \in Busy' : q \in Clients /\ q # r /\ q \in Busy BY <1>7 DEF Busy
    <2>3. PageAlone' BY <1>7, <2>1, <2>2 DEF PageAlone
    <2>4. CASE callsOfAvatar[r].op = "page"
      BY <2>1, <2>2, <2>3, <2>4 DEF PageAlone, Replaces, Overwrites, NewIsOwn, NamedOrReplaced
    <2>5. CASE callsOfAvatar[r].op # "page"
      <3>1. Replaces(r) BY <2>5 DEF Replaces
      <3>2. callsOfAvatar[r].new \in stored \cup {Absent} BY <2>1, <3>1 DEF NewIsOwn
      <3>3. NewIsOwn' BY <1>7, <2>1, <3>1 DEF NewIsOwn
      <3> QED BY <2>3, <3>2, <3>3 DEF NamedOrReplaced
    <2> QED BY <2>4, <2>5
  <1> QED BY <1>8, <1>9, <1>10 DEF ImageInv

(* A step of a request that keeps the row, and what it has read.           *)
LEMMA ImageWorks ==
    ASSUME ImageInv, NEW r \in Clients, r \in Busy, NEW x, Changes(r, x),
           x.op = callsOfAvatar[r].op, x.old = callsOfAvatar[r].old,
           ImageCallFine(x)', UNCHANGED <<rowOfAvatar, failures, pages>>,
           writer' \in Clients \cup {Absent},
           \/ x.new = callsOfAvatar[r].new /\ UNCHANGED <<stored, files>>
           \/ /\ x.new = callsOfAvatar[r].new /\ files' = files
              /\ stored' = stored \ {x.old} /\ x.op # "page"
           \/ /\ x.op = "upload" /\ callsOfAvatar[r].new = Absent /\ files < Bound
              /\ x.new = files + 1 /\ files' = files + 1 /\ stored' = stored \cup {files + 1}
           \/ x.op = "page" /\ x.new = x.old /\ UNCHANGED <<stored, files>>,
           callsOfAvatar[r].step \in {"store", "save", "commit"} \/ x.old \notin stored' =>
               x.op = "page" \/ x.step \in {"store", "save", "commit"},
           x.op = "page" /\ x.step = "commit" => x.new = x.old
    PROVE  ImageInv'
  <1>0. ImageTyped /\ ImageCallFine(callsOfAvatar[r]) /\ files \in Nat BY DEF ImageInv, ImageTyped
  <1>1. files <= files' /\ files' \in Nat /\ files' \in 0..Bound
    BY <1>0, LimitsAssumption DEF ImageTyped
  <1>2. x.op # Absent BY DEF Busy
  <1>7. /\ callsOfAvatar' = [q \in Clients |-> callsOfAvatar'[q]]
        /\ \A q \in Clients : ImageCallFine(callsOfAvatar[q])'
        /\ callsOfAvatar'[r] = x
        /\ \A q \in Clients : q # r => callsOfAvatar'[q] = callsOfAvatar[q]
        /\ \A q \in Clients : (q \in Busy' <=> q \in Busy) /\ (Replaces(q)' <=> Replaces(q))
    BY <1>1, <1>2, ImageMoves DEF Replaces
  <1>8. ImageTyped'
    <2>1. stored' \subseteq 1..Bound BY <1>0, LimitsAssumption DEF ImageTyped
    <2>2. Used(rowOfAvatar)' BY <1>0, <1>1, LimitsAssumption DEF ImageTyped, FileNames, Used
    <2> QED BY <1>0, <1>1, <1>7, <2>1, <2>2 DEF ImageTyped
  <1>9. files' + Cardinality(Uploading') <= Bound
    <2>1. Uploading' \in SUBSET Uploading
      <3>1. \A q \in Clients : q # r => (q \in Uploading' <=> q \in Uploading) BY <1>7 DEF Uploading
      <3>2. r \in Uploading' => r \in Uploading
        <4>1. ASSUME r \in Uploading' PROVE r \in Uploading BY <1>7, <4>1 DEF Uploading
        <4> QED BY <4>1
      <3>3. \A q \in Uploading' : q \in Clients BY DEF Uploading, Busy
      <3> QED BY <3>1, <3>2, <3>3
    <2>2. Cardinality(Uploading') <= Cardinality(Uploading) /\ Cardinality(Uploading') \in Nat
      BY <2>1, UploadingFinite, FS_Subset, FS_CardinalityType
    <2>3. CASE files' = files BY <2>2, <2>3, <1>0, UploadingFinite, LimitsAssumption DEF ImageInv
    <2>4. CASE files' # files
      <3>1. /\ r \in Uploading /\ x.new = files + 1 /\ files' = files + 1 /\ x.new \in 1..Bound
        BY <1>0, <2>4, LimitsAssumption DEF Uploading
      <3>2. r \notin Uploading' BY <1>7, <3>1, AbsentAssumption DEF Uploading
      <3>3. Uploading' \in SUBSET (Uploading \ {r}) BY <2>1, <3>2
      <3>4. /\ IsFiniteSet(Uploading \ {r})
            /\ Cardinality(Uploading \ {r}) = Cardinality(Uploading) - 1
        BY <3>1, UploadingFinite, FS_RemoveElement
      <3>5. Cardinality(Uploading') <= Cardinality(Uploading) - 1 BY <3>3, <3>4, FS_Subset
      <3> QED BY <1>0, <2>2, <3>1, <3>5, UploadingFinite, LimitsAssumption DEF ImageInv
    <2> QED BY <2>3, <2>4
  <1>10. ASSUME failures' = 0, ~pages' PROVE PageAlone' /\ NewIsOwn' /\ NamedOrReplaced'
    <2>1. PageAlone /\ NewIsOwn /\ NamedOrReplaced BY <1>10 DEF ImageInv
    <2>2. Busy' = Busy BY <1>7 DEF Busy
    <2>3. \A q \in Clients : callsOfAvatar'[q].op = callsOfAvatar[q].op
                             /\ callsOfAvatar'[q].old = callsOfAvatar[q].old
      BY <1>7
    <2>4. PageAlone' BY <1>7, <2>1, <2>2, <2>3 DEF PageAlone, Busy
    <2>5. \A q \in Clients : Replaces(q) => callsOfAvatar[q].new \notin {x.old} \/ callsOfAvatar[q].new = Absent
      BY <2>1 DEF NewIsOwn
    <2>6. NewIsOwn'
      <3>1. SUFFICES ASSUME NEW q \in Clients, Replaces(q), callsOfAvatar'[q].new # Absent
                     PROVE  /\ callsOfAvatar'[q].new \in stored' /\ callsOfAvatar'[q].new # rowOfAvatar
                            /\ \A p \in Clients : p \in Busy => callsOfAvatar[p].old # callsOfAvatar'[q].new
                            /\ \A p \in Clients : Replaces(p) /\ p # q =>
                                  callsOfAvatar'[p].new # callsOfAvatar'[q].new
        BY <1>7, <2>2, <2>3 DEF NewIsOwn
      <3>2. x.op # "page" \/ Busy = {r} BY <2>1 DEF PageAlone
      <3>3. CASE callsOfAvatar'[r].new = callsOfAvatar[r].new BY <1>7, <2>1, <3>1, <3>3 DEF NewIsOwn
      <3>4. CASE x.op = "upload" /\ callsOfAvatar[r].new = Absent /\ x.new = files + 1 /\ files < Bound
                 /\ stored' = stored \cup {files + 1}
        <4>5. files + 1 \in 1..Bound BY <1>0, <3>4, LimitsAssumption
        <4>1. \A n \in FileNames : Used(n) => n # files + 1
          BY <1>0, <4>5, AbsentAssumption DEF Used, FileNames
        <4>2. /\ rowOfAvatar # files + 1
              /\ \A p \in Clients : callsOfAvatar[p].old # files + 1 /\ callsOfAvatar[p].new # files + 1
          BY <1>0, <4>1 DEF ImageTyped, ImageCallFine, ImageCalls
        <4>3. CASE q = r BY <1>7, <3>4, <4>2, <4>3
        <4>4. CASE q # r
          <5>1. /\ callsOfAvatar[q].new \in stored /\ callsOfAvatar[q].new # rowOfAvatar
                /\ \A p \in Clients : p \in Busy => callsOfAvatar[p].old # callsOfAvatar[q].new
                /\ \A p \in Clients : Replaces(p) /\ p # q => callsOfAvatar[p].new # callsOfAvatar[q].new
                /\ callsOfAvatar'[q].new = callsOfAvatar[q].new
            BY <1>7, <2>1, <3>1, <4>4 DEF NewIsOwn
          <5> QED BY <1>7, <3>4, <4>2, <5>1
        <4> QED BY <4>3, <4>4
      <3>5. CASE x.op = "page" BY <3>1, <3>2, <3>5 DEF Replaces
      <3> QED BY <1>7, <3>3, <3>4, <3>5
    <2>7. NamedOrReplaced'
      <3>1. ASSUME NEW q \in Clients, Overwrites(q) PROVE Overwrites(q)'
        <4>1. CASE q # r BY <1>7, <3>1, <4>1 DEF Overwrites
        <4>2. CASE q = r BY <1>7, <2>3, <3>1, <4>2 DEF Overwrites, Replaces
        <4> QED BY <4>1, <4>2
      <3>2. CASE rowOfAvatar \in stored \cup {Absent} /\ rowOfAvatar \notin stored' \cup {Absent}
        BY <1>7, <3>2 DEF Replaces, Overwrites, NamedOrReplaced
      <3>3. CASE rowOfAvatar \in stored' \cup {Absent} BY <3>3 DEF NamedOrReplaced
      <3> QED BY <2>1, <3>1, <3>2, <3>3 DEF NamedOrReplaced
    <2> QED BY <2>4, <2>6, <2>7
  <1> QED BY <1>8, <1>9, <1>10 DEF ImageInv

LEMMA ImageCardinality ==
    /\ \A P, t, S : Image(P, t)!Cardinality(S) = Cardinality(S)
    /\ \A S : Avatar!Cardinality(S) = Cardinality(S) /\ Logo!Cardinality(S) = Cardinality(S)
  BY DEF Image!Cardinality, Avatar!Cardinality, Logo!Cardinality, Cardinality,
         Image!IsFiniteSet, Avatar!IsFiniteSet, Logo!IsFiniteSet, IsFiniteSet

LEMMA ImageNext ==
    ASSUME NEW P \in SUBSET Clients, NEW t \in BOOLEAN, ImageInv, Image(P, t)!Next
    PROVE  ImageInv'
  <1>0. /\ ImageTyped /\ \A r \in Clients : ImageCallFine(callsOfAvatar[r])
        /\ files \in Nat
    BY DEF ImageInv, ImageTyped
  <1>1. Image(P, t)!Running = Busy BY DEF Image!Running, Busy
  <1>2. Image(P, t)!Idle = [op |-> Absent, step |-> Absent, old |-> Absent, new |-> Absent]
    BY DEF Image!Idle
  <1>3. ASSUME NEW r \in Clients, Image(P, t)!Upload(r) PROVE ImageInv'
    <2>1. Image(P, t)!Begin(r, "upload", "unlink") BY <1>3 DEF Image!Upload
    <2>2. files + Cardinality(Uploading) < Bound
      BY <1>1, <1>3, ImageCardinality DEF Uploading, Image!Upload
    <2> QED BY <2>1, <2>2, ImageBegins
  <1>4. ASSUME NEW r \in Clients, Image(P, t)!Remove(r) \/ Image(P, t)!EditProfile(r) PROVE ImageInv'
    <2>1. CASE Image(P, t)!Remove(r) BY <2>1, ImageBegins DEF Image!Remove
    <2>2. CASE Image(P, t)!EditProfile(r) BY <2>2, ImageBegins DEF Image!EditProfile
    <2> QED BY <1>4, <2>1, <2>2
  <1>5. ASSUME NEW r \in Clients, Image(P, t)!DeleteFile(r) PROVE ImageInv'
    <2>1. /\ r \in Busy /\ callsOfAvatar[r].step = "unlink"
          /\ stored' = stored \ {callsOfAvatar[r].old}
          /\ callsOfAvatar' = [callsOfAvatar EXCEPT ![r].step =
                                  IF callsOfAvatar[r].op = "upload" THEN "store" ELSE "save"]
          /\ UNCHANGED <<rowOfAvatar, writer, files, failures, pages>>
      BY <1>1, <1>5 DEF Image!DeleteFile, Image!At
    <2>2. ImageCallFine(callsOfAvatar[r]) /\ callsOfAvatar[r] \in ImageCalls
          /\ callsOfAvatar[r].op \in {"upload", "remove"} /\ callsOfAvatar[r].new = Absent
      BY <1>0, <2>1 DEF ImageCallFine
    <2>3. PICK x : x = [callsOfAvatar[r] EXCEPT !.step = IF callsOfAvatar[r].op = "upload" THEN "store" ELSE "save"]
      OBVIOUS
    <2>4. Changes(r, x) BY <2>1, <2>3 DEF Changes
    <2>5. /\ x \in ImageCalls /\ x.op = callsOfAvatar[r].op /\ x.old = callsOfAvatar[r].old
          /\ x.new = callsOfAvatar[r].new /\ x.step = IF x.op = "upload" THEN "store" ELSE "save"
      BY <2>2, <2>3 DEF ImageCalls
    <2>6. ImageCallFine(x)' BY <2>1, <2>2, <2>5 DEF ImageCallFine, Used
    <2>7. writer' \in Clients \cup {Absent} BY <1>0, <2>1 DEF ImageTyped
    <2> QED BY <2>1, <2>2, <2>4, <2>5, <2>6, <2>7, ImageWorks
  <1>6. ASSUME NEW r \in Clients, Image(P, t)!SaveFile(r) PROVE ImageInv'
    <2>1. /\ r \in Busy /\ callsOfAvatar[r].step = "store"
          /\ files' = files + 1 /\ stored' = stored \cup {files + 1}
          /\ callsOfAvatar' = [callsOfAvatar EXCEPT ![r].step = "save", ![r].new = files + 1]
          /\ UNCHANGED <<rowOfAvatar, writer, failures, pages>>
      BY <1>1, <1>6 DEF Image!SaveFile, Image!At, Image!NewName
    <2>2. ImageCallFine(callsOfAvatar[r]) /\ callsOfAvatar[r] \in ImageCalls
          /\ callsOfAvatar[r].op = "upload" /\ callsOfAvatar[r].new = Absent
      BY <1>0, <2>1 DEF ImageCallFine
    <2>3. files < Bound
      <3>1. r \in Uploading BY <2>1, <2>2 DEF Uploading
      <3>2. Cardinality(Uploading) # 0 BY <3>1, UploadingFinite, FS_EmptySet
      <3> QED BY <1>0, <3>2, UploadingFinite, LimitsAssumption DEF ImageInv
    <2>4. PICK x : x = [callsOfAvatar[r] EXCEPT !.step = "save", !.new = files + 1] OBVIOUS
    <2>5. Changes(r, x) BY <2>1, <2>4 DEF Changes
    <2>6. files + 1 \in 1..Bound BY <1>0, <2>3, LimitsAssumption
    <2>7. /\ x \in ImageCalls /\ x.op = callsOfAvatar[r].op /\ x.old = callsOfAvatar[r].old
          /\ x.new = files + 1 /\ x.step = "save"
      BY <2>2, <2>4, <2>6 DEF ImageCalls, FileNames
    <2>8. ImageCallFine(x)'
      <3>1. Used(x.old)'
        BY <1>0, <2>1, <2>2, <2>7, LimitsAssumption DEF ImageCallFine, ImageCalls, Used, FileNames
      <3>2. Used(x.new)' BY <1>0, <2>1, <2>7 DEF Used
      <3> QED BY <2>2, <2>7, <3>1, <3>2 DEF ImageCallFine
    <2>9. writer' \in Clients \cup {Absent} BY <1>0, <2>1 DEF ImageTyped
    <2> QED BY <2>1, <2>2, <2>3, <2>5, <2>7, <2>8, <2>9, ImageWorks
  <1>7. ASSUME NEW r \in Clients, Image(P, t)!SaveRow(r) PROVE ImageInv'
    <2>1. /\ r \in Busy /\ callsOfAvatar[r].step = "save"
          /\ UNCHANGED <<stored, files, failures, pages>>
      BY <1>1, <1>7 DEF Image!SaveRow, Image!At
    <2>2. ImageCallFine(callsOfAvatar[r]) /\ callsOfAvatar[r] \in ImageCalls
          /\ callsOfAvatar[r].op \in {"upload", "remove"}
      BY <1>0, <2>1 DEF ImageCallFine
    <2>3. CASE writer' = r /\ callsOfAvatar' = [callsOfAvatar EXCEPT ![r].step = "commit"]
               /\ UNCHANGED rowOfAvatar
      BY <2>1, <2>2, <2>3, ImageWorks DEF Changes, ImageCalls, ImageCallFine, Used
    <2>4. CASE rowOfAvatar' = callsOfAvatar[r].new /\ UNCHANGED writer
               /\ callsOfAvatar' = [callsOfAvatar EXCEPT ![r] = Image(P, t)!Idle]
      <3>1. Changes(r, [op |-> Absent, step |-> Absent, old |-> Absent, new |-> Absent])
        BY <1>2, <2>4 DEF Changes
      <3>2. writer' \in Clients \cup {Absent} BY <1>0, <2>4 DEF ImageTyped
      <3> QED BY <2>1, <2>2, <2>4, <3>1, <3>2, ImageEnds
    <2> QED BY <1>7, <2>3, <2>4 DEF Image!SaveRow, Image!End
  <1>8. ASSUME NEW r \in Clients, Image(P, t)!Commit(r) PROVE ImageInv'
    BY <1>1, <1>2, <1>8, ImageEnds DEF Image!Commit, Image!At, Image!End, Changes
  <1>9. ASSUME NEW r \in Clients, Image(P, t)!SaveProfile(r) PROVE ImageInv'
    <2>1. /\ r \in Busy /\ callsOfAvatar[r].step = "page" /\ writer' = r
          /\ callsOfAvatar' = [callsOfAvatar EXCEPT ![r].step = "commit", ![r].new = callsOfAvatar[r].old]
          /\ UNCHANGED <<rowOfAvatar, stored, files, failures, pages>>
      BY <1>1, <1>9 DEF Image!SaveProfile, Image!At
    <2>2. ImageCallFine(callsOfAvatar[r]) /\ callsOfAvatar[r] \in ImageCalls
          /\ callsOfAvatar[r].op = "page" /\ Used(callsOfAvatar[r].old)
      BY <1>0, <2>1 DEF ImageCallFine
    <2>3. PICK x : x = [callsOfAvatar[r] EXCEPT !.step = "commit", !.new = callsOfAvatar[r].old]
      OBVIOUS
    <2>4. Changes(r, x) BY <2>1, <2>3 DEF Changes
    <2>5. /\ x \in ImageCalls /\ x.op = "page" /\ x.old = callsOfAvatar[r].old
          /\ x.new = x.old /\ x.step = "commit"
      BY <2>2, <2>3 DEF ImageCalls
    <2>6. ImageCallFine(x)' BY <2>1, <2>2, <2>5 DEF ImageCallFine, Used
    <2> QED BY <2>1, <2>2, <2>4, <2>5, <2>6, ImageWorks
  <1>10. ASSUME NEW r \in Clients, Image(P, t)!Fail(r) PROVE ImageInv'
    <2>1. /\ r \in Busy /\ failures < 1 /\ failures' = failures + 1
          /\ callsOfAvatar' = [callsOfAvatar EXCEPT ![r] = Image(P, t)!Idle]
          /\ writer' \in {writer, Absent} /\ UNCHANGED <<rowOfAvatar, stored, files, pages>>
      BY <1>1, <1>10 DEF Image!Fail, Image!End
    <2>2. PICK x : x = [op |-> Absent, step |-> Absent, old |-> Absent, new |-> Absent] OBVIOUS
    <2>3. Changes(r, x) /\ x.op = Absent BY <1>2, <2>1, <2>2 DEF Changes
    <2>4. ImageCallFine(x)' BY <2>2, AbsentAssumption DEF ImageCalls, FileNames, ImageCallFine, Used
    <2>a. files <= files' /\ files' \in Nat BY <1>0, <2>1
    <2>5. /\ callsOfAvatar' = [q \in Clients |-> callsOfAvatar'[q]]
          /\ \A q \in Clients : ImageCallFine(callsOfAvatar[q])'
          /\ callsOfAvatar'[r] = x
          /\ \A q \in Clients : q # r => callsOfAvatar'[q] = callsOfAvatar[q]
          /\ \A q \in Clients : q # r => (q \in Busy' <=> q \in Busy) /\ (Replaces(q)' <=> Replaces(q))
          /\ r \notin Busy'
      BY <2>a, <2>3, <2>4, ImageMoves
    <2>6. ImageTyped' /\ failures' # 0 BY <1>0, <2>1, <2>5 DEF ImageTyped, Used
    <2>7. Uploading' \in SUBSET Uploading BY <2>5 DEF Uploading, Busy
    <2>8. Cardinality(Uploading') <= Cardinality(Uploading) /\ Cardinality(Uploading') \in Nat
      BY <2>7, UploadingFinite, FS_Subset, FS_CardinalityType
    <2>9. files' + Cardinality(Uploading') <= Bound
      BY <1>0, <2>1, <2>8, UploadingFinite, LimitsAssumption DEF ImageInv
    <2> QED BY <2>6, <2>9 DEF ImageInv
  <1> QED BY <1>3, <1>4, <1>5, <1>6, <1>7, <1>8, <1>9, <1>10
        DEF Image!Next, Image!Beginning, Image!Work, Image!Failing

LEMMA ImageStutter == ImageInv /\ UNCHANGED avatarVars => ImageInv'
  BY DEF ImageInv, avatarVars, ImageTyped, ImageCallFine, Used, Uploading, Busy, PageAlone, NewIsOwn,
         NamedOrReplaced, Overwrites, Replaces

LEMMA AvatarIsImage ==
    /\ Avatar!Init => Image(Clients, TRUE)!Init
    /\ Avatar!Next => Image(Clients, TRUE)!Next
  <1>1. Avatar!Idle = Image(Clients, TRUE)!Idle /\ Avatar!Running = Image(Clients, TRUE)!Running
    BY DEF Avatar!Idle, Image!Idle, Avatar!Running, Image!Running
  <1>2. \A r \in Clients : Avatar!Upload(r) => Image(Clients, TRUE)!Upload(r)
    BY <1>1, ImageCardinality
    DEF Avatar!Upload, Image!Upload, Avatar!Begin, Image!Begin
  <1>3. \A r \in Clients : Avatar!Remove(r) => Image(Clients, TRUE)!Remove(r) BY <1>1
    DEF Avatar!Remove, Image!Remove, Avatar!Begin, Image!Begin
  <1>4. \A r \in Clients : Avatar!EditProfile(r) => Image(Clients, TRUE)!EditProfile(r) BY <1>1
    DEF Avatar!EditProfile, Image!EditProfile, Avatar!Begin, Image!Begin
  <1>5. \A r \in Clients : Avatar!DeleteFile(r) => Image(Clients, TRUE)!DeleteFile(r) BY <1>1
    DEF Avatar!DeleteFile, Image!DeleteFile, Avatar!At, Image!At
  <1>6. \A r \in Clients : Avatar!SaveFile(r) => Image(Clients, TRUE)!SaveFile(r) BY <1>1
    DEF Avatar!SaveFile, Image!SaveFile, Avatar!At, Image!At, Avatar!NewName, Image!NewName
  <1>7. \A r \in Clients : Avatar!SaveRow(r) => Image(Clients, TRUE)!SaveRow(r) BY <1>1
    DEF Avatar!SaveRow, Image!SaveRow, Avatar!At, Image!At, Avatar!End, Image!End
  <1>8. \A r \in Clients : Avatar!Commit(r) => Image(Clients, TRUE)!Commit(r) BY <1>1
    DEF Avatar!Commit, Image!Commit, Avatar!At, Image!At, Avatar!End, Image!End
  <1>9. \A r \in Clients : Avatar!SaveProfile(r) => Image(Clients, TRUE)!SaveProfile(r) BY <1>1
    DEF Avatar!SaveProfile, Image!SaveProfile, Avatar!At, Image!At
  <1>10. \A r \in Clients : Avatar!Fail(r) => Image(Clients, TRUE)!Fail(r) BY <1>1
    DEF Avatar!Fail, Image!Fail, Avatar!End, Image!End
  <1>11. Avatar!Next => Image(Clients, TRUE)!Next
    BY <1>2, <1>3, <1>4, <1>5, <1>6, <1>7, <1>8, <1>9, <1>10
    DEF Avatar!Next, Image!Next, Avatar!Beginning, Image!Beginning, Avatar!Work, Image!Work, Avatar!Failing, Image!Failing
  <1>12. Avatar!Init => Image(Clients, TRUE)!Init BY <1>1 DEF Avatar!Init, Image!Init
  <1> QED BY <1>11, <1>12

LEMMA LogoIsImage ==
    /\ Logo!Init => Image({}, FALSE)!Init
    /\ Logo!Next => Image({}, FALSE)!Next
  <1>1. Logo!Idle = Image({}, FALSE)!Idle /\ Logo!Running = Image({}, FALSE)!Running
    BY DEF Logo!Idle, Image!Idle, Logo!Running, Image!Running
  <1>2. \A r \in Clients : Logo!Upload(r) => Image({}, FALSE)!Upload(r) BY <1>1, ImageCardinality
    DEF Logo!Upload, Image!Upload, Logo!Begin, Image!Begin
  <1>3. \A r \in Clients : Logo!Remove(r) => Image({}, FALSE)!Remove(r) BY <1>1
    DEF Logo!Remove, Image!Remove, Logo!Begin, Image!Begin
  <1>4. \A r \in Clients : Logo!EditProfile(r) => Image({}, FALSE)!EditProfile(r) BY <1>1
    DEF Logo!EditProfile, Image!EditProfile, Logo!Begin, Image!Begin
  <1>5. \A r \in Clients : Logo!DeleteFile(r) => Image({}, FALSE)!DeleteFile(r) BY <1>1
    DEF Logo!DeleteFile, Image!DeleteFile, Logo!At, Image!At
  <1>6. \A r \in Clients : Logo!SaveFile(r) => Image({}, FALSE)!SaveFile(r) BY <1>1
    DEF Logo!SaveFile, Image!SaveFile, Logo!At, Image!At, Logo!NewName, Image!NewName
  <1>7. \A r \in Clients : Logo!SaveRow(r) => Image({}, FALSE)!SaveRow(r) BY <1>1
    DEF Logo!SaveRow, Image!SaveRow, Logo!At, Image!At, Logo!End, Image!End
  <1>8. \A r \in Clients : Logo!Commit(r) => Image({}, FALSE)!Commit(r) BY <1>1
    DEF Logo!Commit, Image!Commit, Logo!At, Image!At, Logo!End, Image!End
  <1>9. \A r \in Clients : Logo!SaveProfile(r) => Image({}, FALSE)!SaveProfile(r) BY <1>1
    DEF Logo!SaveProfile, Image!SaveProfile, Logo!At, Image!At
  <1>10. \A r \in Clients : Logo!Fail(r) => Image({}, FALSE)!Fail(r) BY <1>1
    DEF Logo!Fail, Image!Fail, Logo!End, Image!End
  <1>11. Logo!Next => Image({}, FALSE)!Next BY <1>2, <1>3, <1>4, <1>5, <1>6, <1>7, <1>8, <1>9, <1>10
    DEF Logo!Next, Image!Next, Logo!Beginning, Image!Beginning, Logo!Work, Image!Work, Logo!Failing, Image!Failing
  <1>12. Logo!Init => Image({}, FALSE)!Init BY <1>1 DEF Logo!Init, Image!Init
  <1> QED BY <1>11, <1>12

LEMMA ImageInvSays ==
    ImageInv => /\ Avatar!TypeOK /\ Avatar!PictureExists
                /\ Logo!TypeOK /\ Logo!PictureExists
  <1> SUFFICES ASSUME ImageInv
               PROVE  Avatar!TypeOK /\ Avatar!PictureExists /\ Logo!TypeOK /\ Logo!PictureExists
    OBVIOUS
  <1>1. \A r \in Clients : callsOfAvatar[r].old \in FileNames /\ callsOfAvatar[r].new \in FileNames
    BY DEF ImageInv, ImageTyped, ImageCallFine, ImageCalls
  <1>2. Avatar!TypeOK /\ Logo!TypeOK
    BY <1>1 DEF ImageInv, ImageTyped, Avatar!TypeOK, Logo!TypeOK, Avatar!Names, Logo!Names, FileNames
  <1>3. Busy = {} /\ failures = 0 /\ ~pages => rowOfAvatar \in stored \cup {Absent}
    BY DEF ImageInv, NamedOrReplaced, Overwrites, Replaces
  <1>4. Avatar!PictureExists /\ Logo!PictureExists
    BY <1>3 DEF Avatar!PictureExists, Logo!PictureExists, Avatar!Quiet, Logo!Quiet, Avatar!Running,
                Logo!Running, Busy
  <1> QED BY <1>2, <1>4
-----------------------------------------------------------------------------
(* The seeding of roles.  A permission that Super Admin lacks is still to  *)
(* be linked by the run that read it; a run that nothing overlapped leaves *)
(* behind it, role by role, the links of the table.                        *)
SeedRoles == {"Super Admin", "Club Admin"}
SeedPermissions == Permitted \cup {"migrated"}
SeedIsActive(c) == runs[c].pc \notin {"idle", "done"}

(* The links of the role to permissions of the table are those of the table.*)
Agrees(r) == \A p \in Permitted : <<r, p>> \in linksOfSeeding <=> p \in Links[r]

SeedRunFine(x) ==
    /\ x \in Seeding!Run
    /\ x.pc \in {"idle", "done"} => x.todo = {}
    /\ x.pc = "permissions" => x.todo \subseteq Permitted
    /\ x.pc \in {"roles", "prune"} => x.todo \subseteq SeedRoles
    /\ x.pc = "link" => x.todo \subseteq SeedRoles \cup Links[x.role]
    /\ x.pc = "super" => x.todo \subseteq SeedPermissions

SeedProgress(x) ==
    /\ x.pc = "prune" => \A r \in SeedRoles \ x.todo : Agrees(r)
    /\ x.pc = "link" =>
           /\ x.role \notin x.todo
           /\ \A r \in SeedRoles \ (x.todo \cup {x.role}) : Agrees(r)
           /\ \A p \in Permitted :
                  /\ <<x.role, p>> \in linksOfSeeding => p \in Links[x.role]
                  /\ p \in Links[x.role] \ x.todo => <<x.role, p>> \in linksOfSeeding
    /\ x.pc = "super" => \A r \in SeedRoles : Agrees(r)

SeedTyped ==
    /\ permissions \subseteq SeedPermissions /\ roles \subseteq SeedRoles
    /\ linksOfSeeding \subseteq SeedRoles \X SeedPermissions
    /\ runs = [c \in Clients |-> runs[c]]
    /\ \A c \in Clients : SeedRunFine(runs[c])
    /\ password \in [SeedRoles -> {"none", "initial", "own"}]
    /\ edits \in 0..(Bound - 1) /\ complete \in BOOLEAN /\ exact \in BOOLEAN

SeedComplete == complete => \A p \in permissions :
    \/ <<"Super Admin", p>> \in linksOfSeeding
    \/ \E c \in Clients : runs[c].pc = "super" /\ p \in runs[c].todo

SeedExact == exact =>
    /\ \A c, d \in Clients : SeedIsActive(c) /\ SeedIsActive(d) => c = d
    /\ \A c \in Clients : SeedProgress(runs[c])
    /\ (\A c \in Clients : ~ SeedIsActive(c)) => \A r \in SeedRoles : Agrees(r)

SeedInv == SeedTyped /\ SeedComplete /\ SeedExact

LEMMA SeedTable ==
    /\ Links["Super Admin"] = Permitted /\ Links["Club Admin"] \subseteq Permitted
    /\ SeedRoles \cap SeedPermissions = {}
    /\ Seeding!Roles = SeedRoles /\ Seeding!Permissions = SeedPermissions
    /\ Seeding!Run = [pc : {"idle", "permissions", "roles", "prune", "link", "super", "done"},
                      todo : SUBSET (SeedRoles \cup SeedPermissions), role : SeedRoles]
  <1>1. Links["Super Admin"] = Permitted BY DEF Links
  <1>2. Links["Club Admin"] = {CHOOSE p \in Permitted : TRUE} BY DEF Links
  <1>3. (CHOOSE p \in Permitted : TRUE) \in Permitted BY PermittedAssumption
  <1>4. Seeding!Roles = SeedRoles /\ Seeding!Permissions = SeedPermissions
    BY DEF Seeding!Roles, Seeding!Permissions, Seeding!Accounts, Seeding!SuperAdmin, Seeding!ClubAdmin,
           SeedRoles, SeedPermissions
  <1>5. SeedRoles \cap SeedPermissions = {} BY PermittedAssumption DEF SeedRoles, SeedPermissions
  <1> QED BY <1>1, <1>2, <1>3, <1>4, <1>5 DEF Seeding!Run

LEMMA SeedingInit == Seeding!Init => SeedInv
  <1> SUFFICES ASSUME Seeding!Init PROVE SeedInv OBVIOUS
  <1>1. /\ permissions = {} /\ roles = {} /\ linksOfSeeding = {} /\ edits = 0
        /\ complete = FALSE /\ exact = FALSE
        /\ runs = [c \in Clients |-> [pc |-> "idle", todo |-> {}, role |-> "Super Admin"]]
        /\ password = [a \in SeedRoles |-> "none"]
    BY DEF Seeding!Init, Seeding!Idle, Seeding!Accounts, Seeding!SuperAdmin, Seeding!ClubAdmin, SeedRoles
  <1>2. SeedRunFine([pc |-> "idle", todo |-> {}, role |-> "Super Admin"])
    BY SeedTable DEF SeedRunFine, SeedRoles
  <1>3. \A c \in Clients : SeedRunFine(runs[c]) BY <1>1, <1>2
  <1>4. 0 \in 0..(Bound - 1) BY LimitsAssumption
  <1> QED BY <1>1, <1>3, <1>4, LimitsAssumption DEF SeedInv, SeedTyped, SeedComplete, SeedExact

LEMMA SeedingStutter == SeedInv /\ UNCHANGED seedingVars => SeedInv'
  <1> SUFFICES ASSUME SeedInv, UNCHANGED seedingVars PROVE SeedInv' OBVIOUS
  <1>1. /\ permissions' = permissions /\ roles' = roles /\ linksOfSeeding' = linksOfSeeding
        /\ runs' = runs /\ password' = password /\ edits' = edits /\ complete' = complete
        /\ exact' = exact
    BY DEF seedingVars
  <1>2. \A c \in Clients : SeedRunFine(runs[c])' <=> SeedRunFine(runs[c])
    BY <1>1 DEF SeedRunFine, Seeding!Run
  <1>3. SeedTyped' BY <1>1, <1>2 DEF SeedInv, SeedTyped
  <1>4. SeedComplete' BY <1>1 DEF SeedInv, SeedComplete
  <1>5. \A c \in Clients : (SeedProgress(runs[c])' <=> SeedProgress(runs[c]))
                         /\ (SeedIsActive(c)' <=> SeedIsActive(c))
    BY <1>1 DEF SeedProgress, Agrees, SeedIsActive
  <1>6. \A r \in SeedRoles : Agrees(r)' <=> Agrees(r) BY <1>1 DEF Agrees
  <1>7. SeedExact' BY <1>1, <1>5, <1>6 DEF SeedInv, SeedExact
  <1> QED BY <1>3, <1>4, <1>7 DEF SeedInv

(* A step of a run: nothing was written by anybody else.                   *)
RunMoves(c, x) == runs' = [runs EXCEPT ![c] = x]

LEMMA SeedRunMoves ==
    ASSUME SeedInv, NEW c \in Clients, NEW x, SeedRunFine(x), RunMoves(c, x)
    PROVE  /\ runs' = [d \in Clients |-> runs'[d]] /\ runs'[c] = x
           /\ \A d \in Clients : d # c => runs'[d] = runs[d]
           /\ \A d \in Clients : SeedRunFine(runs[d])'
           /\ \A d \in Clients : d # c => (SeedIsActive(d)' <=> SeedIsActive(d))
           /\ SeedIsActive(c)' <=> x.pc \notin {"idle", "done"}
  <1>1. runs' = [d \in Clients |-> IF d = c THEN x ELSE runs[d]] BY DEF SeedInv, SeedTyped, RunMoves
  <1>2. \A d \in Clients : SeedRunFine(runs[d]) BY DEF SeedInv, SeedTyped
  <1>3. \A d \in Clients : SeedRunFine(runs'[d]) BY <1>1, <1>2
  <1>4. \A d \in Clients : SeedRunFine(runs[d])' BY <1>3 DEF SeedRunFine, Seeding!Run
  <1> QED BY <1>1, <1>4 DEF SeedIsActive

LEMMA SeedSteps ==
    ASSUME SeedInv, NEW c \in Clients, NEW x, SeedRunFine(x), RunMoves(c, x), SeedIsActive(c), exact' = exact,
           exact => SeedProgress(x)',
           exact /\ x.pc \in {"idle", "done"} => \A r \in SeedRoles : Agrees(r)'
    PROVE  SeedExact'
  <1> SUFFICES ASSUME exact
               PROVE  /\ \A d, e \in Clients : SeedIsActive(d)' /\ SeedIsActive(e)' => d = e
                      /\ \A d \in Clients : SeedProgress(runs[d])'
                      /\ (\A d \in Clients : ~ SeedIsActive(d)') => \A r \in SeedRoles : Agrees(r)'
    BY DEF SeedExact
  <1>1. /\ runs'[c] = x /\ \A d \in Clients : d # c => (SeedIsActive(d)' <=> SeedIsActive(d))
        /\ SeedIsActive(c)' <=> x.pc \notin {"idle", "done"}
    BY SeedRunMoves
  <1>2. \A d \in Clients : d # c => ~ SeedIsActive(d) /\ ~ SeedIsActive(d)'
    BY <1>1 DEF SeedInv, SeedExact
  <1>3. \A d, e \in Clients : SeedIsActive(d)' /\ SeedIsActive(e)' => d = e BY <1>2
  <1>4. ASSUME NEW d \in Clients PROVE SeedProgress(runs[d])'
    <2>1. CASE d = c BY <1>1, <2>1 DEF SeedProgress, Agrees
    <2>2. CASE d # c BY <1>2, <2>2 DEF SeedIsActive, SeedProgress
    <2> QED BY <2>1, <2>2
  <1>5. (\A d \in Clients : ~ SeedIsActive(d)') => \A r \in SeedRoles : Agrees(r)' BY <1>1
  <1> QED BY <1>3, <1>4, <1>5

LEMMA SeedWrites ==
    ASSUME SeedInv, NEW c \in Clients, NEW x, SeedRunFine(x), RunMoves(c, x),
           permissions' \subseteq SeedPermissions, roles' \subseteq SeedRoles,
           linksOfSeeding' \subseteq SeedRoles \X SeedPermissions,
           UNCHANGED <<password, edits>>, complete' \in BOOLEAN, exact' \in BOOLEAN
    PROVE  SeedTyped'
  BY SeedRunMoves DEF SeedInv, SeedTyped

LEMMA SeedBegins ==
    ASSUME SeedInv, NEW c \in Clients, Seeding!Begin(c)
    PROVE  SeedInv'
  <1>0. SeedTyped /\ SeedRunFine(runs[c]) /\ runs[c] \in Seeding!Run
    BY DEF SeedInv, SeedTyped, SeedRunFine
  <1>1. PICK x : x = [runs[c] EXCEPT !.pc = "permissions", !.todo = Permitted] OBVIOUS
  <1>2. /\ RunMoves(c, x) /\ runs[c].pc \in {"idle", "done"} /\ exact' = Seeding!Alone(c)
        /\ UNCHANGED <<permissions, roles, linksOfSeeding, password, edits, complete>>
    BY <1>1 DEF Seeding!Begin, Seeding!Goto, RunMoves
  <1>3. x.pc = "permissions" /\ x.todo = Permitted /\ x \in Seeding!Run
    BY <1>0, <1>1, SeedTable DEF SeedPermissions
  <1>4. SeedRunFine(x) BY <1>3 DEF SeedRunFine
  <1>5. /\ runs'[c] = x /\ \A d \in Clients : d # c => runs'[d] = runs[d]
        /\ \A d \in Clients : d # c => (SeedIsActive(d)' <=> SeedIsActive(d))
        /\ SeedIsActive(c)'
    BY <1>2, <1>3, <1>4, SeedRunMoves
  <1>6. exact' = (\A d \in Clients \ {c} : ~ SeedIsActive(d))
    BY <1>2 DEF Seeding!Alone, Seeding!Active, SeedIsActive
  <1>7. SeedTyped' BY <1>0, <1>2, <1>4, <1>6, SeedWrites DEF SeedTyped
  <1>8. SeedComplete' BY <1>2, <1>5 DEF SeedInv, SeedComplete
  <1>9. SeedExact' BY <1>3, <1>5, <1>6 DEF SeedExact, SeedIsActive, SeedProgress
  <1> QED BY <1>7, <1>8, <1>9 DEF SeedInv

LEMMA SeedAddsPermission ==
    ASSUME SeedInv, NEW c \in Clients, NEW p \in SeedPermissions, Seeding!SeedPermission(c, p)
    PROVE  SeedInv'
  <1>0. SeedTyped /\ SeedRunFine(runs[c]) /\ runs[c] \in Seeding!Run
    BY DEF SeedInv, SeedTyped, SeedRunFine
  <1>1. PICK x : x = [runs[c] EXCEPT !.todo = runs[c].todo \ {p}] OBVIOUS
  <1>2. /\ RunMoves(c, x) /\ runs[c].pc = "permissions" /\ p \in runs[c].todo
        /\ permissions' = permissions \cup {p} /\ complete' = (complete /\ p \in permissions)
        /\ UNCHANGED <<roles, linksOfSeeding, password, edits, exact>>
    BY <1>1 DEF Seeding!SeedPermission, Seeding!Took, RunMoves
  <1>3. x.pc = "permissions" /\ x.todo = runs[c].todo \ {p} /\ x \in Seeding!Run
    BY <1>0, <1>1, <1>2, SeedTable
  <1>4. SeedRunFine(x) /\ SeedIsActive(c) BY <1>0, <1>2, <1>3 DEF SeedRunFine, SeedIsActive
  <1>5. runs'[c] = x /\ \A d \in Clients : d # c => runs'[d] = runs[d] BY <1>2, <1>4, SeedRunMoves
  <1>6. SeedTyped' BY <1>0, <1>2, <1>4, SeedWrites DEF SeedTyped
  <1>7. SeedComplete' BY <1>2, <1>5 DEF SeedInv, SeedComplete
  <1>8. SeedProgress(x)' /\ x.pc \notin {"idle", "done"} BY <1>3 DEF SeedProgress
  <1>9. SeedExact' BY <1>2, <1>4, <1>8, SeedSteps
  <1> QED BY <1>6, <1>7, <1>9 DEF SeedInv

LEMMA SeedAddsRole ==
    ASSUME SeedInv, NEW c \in Clients, NEW r \in SeedRoles, Seeding!SeedRole(c, r)
    PROVE  SeedInv'
  <1>0. SeedTyped /\ SeedRunFine(runs[c]) /\ runs[c] \in Seeding!Run
    BY DEF SeedInv, SeedTyped, SeedRunFine
  <1>1. PICK x : x = [runs[c] EXCEPT !.todo = runs[c].todo \ {r}] OBVIOUS
  <1>2. /\ RunMoves(c, x) /\ runs[c].pc = "roles" /\ roles' = roles \cup {r}
        /\ UNCHANGED <<permissions, linksOfSeeding, password, edits, complete, exact>>
    BY <1>1 DEF Seeding!SeedRole, Seeding!Took, RunMoves
  <1>3. x.pc = "roles" /\ x.todo = runs[c].todo \ {r} /\ x \in Seeding!Run
    BY <1>0, <1>1, <1>2, SeedTable
  <1>4. SeedRunFine(x) /\ SeedIsActive(c) BY <1>0, <1>2, <1>3 DEF SeedRunFine, SeedIsActive
  <1>5. runs'[c] = x /\ \A d \in Clients : d # c => runs'[d] = runs[d] BY <1>2, <1>4, SeedRunMoves
  <1>6. SeedTyped' BY <1>0, <1>2, <1>4, SeedWrites DEF SeedTyped
  <1>7. SeedComplete' BY <1>2, <1>5 DEF SeedInv, SeedComplete
  <1>8. SeedProgress(x)' /\ x.pc \notin {"idle", "done"} BY <1>3 DEF SeedProgress
  <1>9. SeedExact' BY <1>2, <1>4, <1>8, SeedSteps
  <1> QED BY <1>6, <1>7, <1>9 DEF SeedInv

(* What a role is left with is what the table gives it and what the table  *)
(* does not speak of; nothing that Super Admin has is surplus.             *)
LEMMA SeedPrunes ==
    ASSUME SeedInv, NEW c \in Clients, NEW r \in SeedRoles, Seeding!Prune(c, r)
    PROVE  SeedInv'
  <1>0. SeedTyped /\ SeedRunFine(runs[c]) /\ runs[c] \in Seeding!Run
    BY DEF SeedInv, SeedTyped, SeedRunFine
  <1>1. PICK x : x = [pc |-> "link", role |-> r, todo |-> Links[r] \cup (runs[c].todo \ {r})]
    OBVIOUS
  <1>2. /\ RunMoves(c, x) /\ runs[c].pc = "prune" /\ r \in runs[c].todo
        /\ linksOfSeeding' = linksOfSeeding \ Seeding!Surplus(r)
        /\ UNCHANGED <<permissions, roles, password, edits, complete, exact>>
    BY <1>1 DEF Seeding!Prune, RunMoves
  <1>3. \A q \in SeedRoles : Links[q] \subseteq Permitted BY SeedTable DEF SeedRoles
  <1>4. x.pc = "link" /\ x.role = r /\ x.todo = Links[r] \cup (runs[c].todo \ {r}) BY <1>1
  <1>5. runs[c].todo \subseteq SeedRoles BY <1>0, <1>2 DEF SeedRunFine
  <1>6. x \in Seeding!Run BY <1>1, <1>3, <1>5, SeedTable DEF SeedPermissions
  <1>7. SeedRunFine(x) /\ SeedIsActive(c) BY <1>2, <1>4, <1>5, <1>6 DEF SeedRunFine, SeedIsActive
  <1>8. runs'[c] = x /\ \A d \in Clients : d # c => runs'[d] = runs[d] BY <1>2, <1>7, SeedRunMoves
  <1>9. \A q \in SeedRoles, p \in SeedPermissions :
            <<q, p>> \in linksOfSeeding' <=>
                <<q, p>> \in linksOfSeeding /\ ~ (q = r /\ p \in Permitted /\ p \notin Links[r])
    BY <1>2 DEF Seeding!Surplus
  <1>10. SeedTyped' BY <1>0, <1>2, <1>7, SeedWrites DEF SeedTyped
  <1>11. SeedComplete'
    BY <1>0, <1>2, <1>8, <1>9, SeedTable DEF SeedRoles, SeedInv, SeedComplete, SeedTyped
  <1>12. ASSUME exact PROVE SeedProgress(x)'
    <2>1. SeedProgress(runs[c]) BY <1>12 DEF SeedInv, SeedExact
    <2>2. \A q \in SeedRoles \ runs[c].todo : Agrees(q) BY <1>2, <2>1 DEF SeedProgress
    <2>3. x.role \notin x.todo BY <1>3, <1>4, SeedTable DEF SeedPermissions
    <2>4. ASSUME NEW q \in SeedRoles \ (x.todo \cup {x.role}) PROVE Agrees(q)'
      BY <1>4, <1>9, <2>2, <2>4 DEF Agrees, SeedPermissions
    <2>5. ASSUME NEW p \in Permitted
          PROVE  /\ <<x.role, p>> \in linksOfSeeding' => p \in Links[x.role]
                 /\ p \notin Links[x.role] \ x.todo
      BY <1>4, <1>9, <2>5 DEF SeedPermissions
    <2> QED BY <1>4, <2>3, <2>4, <2>5 DEF SeedProgress
  <1>13. SeedExact' BY <1>2, <1>4, <1>7, <1>12, SeedSteps
  <1> QED BY <1>10, <1>11, <1>13 DEF SeedInv

LEMMA SeedLinks ==
    ASSUME SeedInv, NEW c \in Clients, NEW p \in SeedPermissions, Seeding!Link(c, p)
    PROVE  SeedInv'
  <1>0. SeedTyped /\ SeedRunFine(runs[c]) /\ runs[c] \in Seeding!Run
    BY DEF SeedInv, SeedTyped, SeedRunFine
  <1>1. PICK x : x = [runs[c] EXCEPT !.todo = runs[c].todo \ {p}] OBVIOUS
  <1>2. /\ RunMoves(c, x) /\ runs[c].pc = "link" /\ p \in runs[c].todo
        /\ linksOfSeeding' = linksOfSeeding \cup {<<runs[c].role, p>>}
        /\ UNCHANGED <<permissions, roles, password, edits, complete, exact>>
    BY <1>1 DEF Seeding!Link, Seeding!Took, RunMoves
  <1>3. /\ x.pc = "link" /\ x.todo = runs[c].todo \ {p} /\ x.role = runs[c].role
        /\ x.role \in SeedRoles /\ x \in Seeding!Run
    BY <1>0, <1>1, <1>2, SeedTable
  <1>4. SeedRunFine(x) /\ SeedIsActive(c) BY <1>0, <1>2, <1>3 DEF SeedRunFine, SeedIsActive
  <1>5. runs'[c] = x /\ \A d \in Clients : d # c => runs'[d] = runs[d] BY <1>2, <1>4, SeedRunMoves
  <1>6. \A q \in SeedRoles, o \in SeedPermissions :
            <<q, o>> \in linksOfSeeding' <=> <<q, o>> \in linksOfSeeding \/ (q = x.role /\ o = p)
    BY <1>2, <1>3
  <1>7. SeedTyped' BY <1>0, <1>2, <1>3, <1>4, SeedWrites DEF SeedTyped
  <1>8. SeedComplete' BY <1>2, <1>5 DEF SeedInv, SeedComplete
  <1>9. ASSUME exact PROVE SeedProgress(x)'
    <2>1. SeedProgress(runs[c]) BY <1>9 DEF SeedInv, SeedExact
    <2>2. /\ x.role \notin runs[c].todo
          /\ \A r \in SeedRoles \ (runs[c].todo \cup {x.role}) : Agrees(r)
          /\ \A o \in Permitted :
                 /\ <<x.role, o>> \in linksOfSeeding => o \in Links[x.role]
                 /\ o \in Links[x.role] \ runs[c].todo => <<x.role, o>> \in linksOfSeeding
      BY <1>2, <1>3, <2>1 DEF SeedProgress
    <2>3. p \in Links[x.role] BY <1>0, <1>2, <1>3, SeedTable DEF SeedRunFine
    <2>4. ASSUME NEW q \in SeedRoles \ (x.todo \cup {x.role}) PROVE Agrees(q)'
      <3>1. q \notin runs[c].todo BY <1>3, <2>4, SeedTable
      <3> QED BY <1>6, <2>2, <2>4, <3>1 DEF Agrees, SeedPermissions
    <2>5. ASSUME NEW o \in Permitted
          PROVE  /\ <<x.role, o>> \in linksOfSeeding' => o \in Links[x.role]
                 /\ o \in Links[x.role] \ x.todo => <<x.role, o>> \in linksOfSeeding'
      BY <1>3, <1>6, <2>2, <2>3, <2>5 DEF SeedPermissions
    <2> QED BY <1>3, <2>2, <2>4, <2>5 DEF SeedProgress
  <1>10. SeedExact' BY <1>2, <1>3, <1>4, <1>9, SeedSteps
  <1> QED BY <1>7, <1>8, <1>10 DEF SeedInv

LEMMA SeedReads ==
    ASSUME SeedInv, NEW c \in Clients, Seeding!ReadPermissions(c)
    PROVE  SeedInv'
  <1>0. SeedTyped /\ SeedRunFine(runs[c]) /\ runs[c] \in Seeding!Run
    BY DEF SeedInv, SeedTyped, SeedRunFine
  <1>1. PICK x : x = [runs[c] EXCEPT !.pc = "super", !.todo = permissions] OBVIOUS
  <1>2. /\ RunMoves(c, x) /\ runs[c].pc = "prune" /\ runs[c].todo = {} /\ complete' = TRUE
        /\ UNCHANGED <<permissions, roles, linksOfSeeding, password, edits, exact>>
    BY <1>1 DEF Seeding!ReadPermissions, Seeding!Goto, Seeding!ForSuperAdmin, RunMoves
  <1>3. x.pc = "super" /\ x.todo = permissions /\ x \in Seeding!Run
    BY <1>0, <1>1, SeedTable DEF SeedTyped
  <1>4. SeedRunFine(x) /\ SeedIsActive(c)
    BY <1>0, <1>2, <1>3 DEF SeedRunFine, SeedIsActive, SeedTyped
  <1>5. runs'[c] = x BY <1>2, <1>4, SeedRunMoves
  <1>6. SeedTyped' BY <1>0, <1>2, <1>4, SeedWrites DEF SeedTyped
  <1>7. SeedComplete' BY <1>2, <1>3, <1>5 DEF SeedComplete
  <1>8. ASSUME exact PROVE SeedProgress(x)'
    BY <1>2, <1>3, <1>8 DEF SeedInv, SeedExact, SeedProgress, Agrees
  <1>9. SeedExact' BY <1>2, <1>3, <1>4, <1>8, SeedSteps
  <1> QED BY <1>6, <1>7, <1>9 DEF SeedInv

LEMMA SeedLinksSuperAdmin ==
    ASSUME SeedInv, NEW c \in Clients, NEW p \in SeedPermissions, Seeding!LinkSuperAdmin(c, p)
    PROVE  SeedInv'
  <1>0. SeedTyped /\ SeedRunFine(runs[c]) /\ runs[c] \in Seeding!Run
    BY DEF SeedInv, SeedTyped, SeedRunFine
  <1>1. PICK x : x = [runs[c] EXCEPT !.todo = runs[c].todo \ {p}] OBVIOUS
  <1>2. /\ RunMoves(c, x) /\ runs[c].pc = "super" /\ p \in runs[c].todo
        /\ linksOfSeeding' = linksOfSeeding \cup {<<"Super Admin", p>>}
        /\ UNCHANGED <<permissions, roles, password, edits, complete, exact>>
    BY <1>1 DEF Seeding!LinkSuperAdmin, Seeding!Took, Seeding!SuperAdmin, RunMoves
  <1>3. x.pc = "super" /\ x.todo = runs[c].todo \ {p} /\ x \in Seeding!Run
    BY <1>0, <1>1, <1>2, SeedTable
  <1>4. SeedRunFine(x) /\ SeedIsActive(c) BY <1>0, <1>2, <1>3 DEF SeedRunFine, SeedIsActive
  <1>5. runs'[c] = x /\ \A d \in Clients : d # c => runs'[d] = runs[d] BY <1>2, <1>4, SeedRunMoves
  <1>6. \A q \in SeedRoles, o \in SeedPermissions :
            <<q, o>> \in linksOfSeeding' <=> <<q, o>> \in linksOfSeeding \/ (q = "Super Admin" /\ o = p)
    BY <1>2
  <1>7. SeedTyped'
    <2>1. linksOfSeeding' \subseteq SeedRoles \X SeedPermissions
      <3>1. <<"Super Admin", p>> \in SeedRoles \X SeedPermissions BY DEF SeedRoles
      <3>2. linksOfSeeding \subseteq SeedRoles \X SeedPermissions BY <1>0 DEF SeedTyped
      <3> QED BY <1>2, <3>1, <3>2
    <2> QED BY <1>0, <1>2, <1>4, <2>1, SeedWrites DEF SeedTyped
  <1>8. SeedComplete' BY <1>2, <1>3, <1>5 DEF SeedInv, SeedComplete
  <1>9. ASSUME exact PROVE SeedProgress(x)'
    <2>1. SeedProgress(runs[c]) BY <1>9 DEF SeedInv, SeedExact
    <2>2. \A r \in SeedRoles : Agrees(r) BY <1>2, <2>1 DEF SeedProgress
    <2>3. \A r \in SeedRoles : Agrees(r)'
      BY <1>6, <2>2, SeedTable DEF Agrees, SeedPermissions, SeedRoles
    <2> QED BY <1>3, <2>3 DEF SeedProgress
  <1>10. SeedExact' BY <1>2, <1>3, <1>4, <1>9, SeedSteps
  <1> QED BY <1>7, <1>8, <1>10 DEF SeedInv

LEMMA SeedNextLoop ==
    ASSUME SeedInv, NEW c \in Clients, Seeding!NextLoop(c)
    PROVE  SeedInv'
  <1>0. SeedTyped /\ SeedRunFine(runs[c]) /\ runs[c] \in Seeding!Run
    BY DEF SeedInv, SeedTyped, SeedRunFine
  <1>1. PICK pc, todo :
          /\ runs' = Seeding!Goto(c, pc, todo)
          /\ \/ runs[c].pc = "permissions" /\ pc = "roles" /\ todo = SeedRoles
             \/ runs[c].pc = "roles" /\ runs[c].todo = {} /\ pc = "prune" /\ todo = SeedRoles
             \/ /\ runs[c].pc = "link" /\ runs[c].todo \cap SeedPermissions = {}
                /\ pc = "prune" /\ todo = runs[c].todo
             \/ runs[c].pc = "super" /\ runs[c].todo = {} /\ pc = "done" /\ todo = {}
    BY SeedTable DEF Seeding!NextLoop
  <1>2. PICK x : x = [runs[c] EXCEPT !.pc = pc, !.todo = todo] OBVIOUS
  <1>3. /\ RunMoves(c, x)
        /\ UNCHANGED <<permissions, roles, linksOfSeeding, password, edits, complete, exact>>
    BY <1>1, <1>2 DEF Seeding!NextLoop, Seeding!Goto, RunMoves
  <1>4. \A r \in SeedRoles : Links[r] \subseteq SeedPermissions
    BY SeedTable DEF SeedRoles, SeedPermissions
  <1>5. runs[c].pc = "link" /\ runs[c].todo \cap SeedPermissions = {} => runs[c].todo \subseteq SeedRoles
    BY <1>0, <1>4, SeedTable DEF SeedRunFine
  <1>6. pc \in {"roles", "prune", "done"} /\ todo \subseteq SeedRoles /\ (pc = "done" => todo = {})
    BY <1>1, <1>5
  <1>7. x.pc = pc /\ x.todo = todo /\ x \in Seeding!Run BY <1>0, <1>2, <1>6, SeedTable
  <1>8. SeedRunFine(x) /\ SeedIsActive(c) BY <1>1, <1>6, <1>7 DEF SeedRunFine, SeedIsActive
  <1>9. runs'[c] = x /\ \A d \in Clients : d # c => runs'[d] = runs[d] BY <1>3, <1>8, SeedRunMoves
  <1>10. SeedTyped' BY <1>0, <1>3, <1>8, SeedWrites DEF SeedTyped
  <1>11. SeedComplete' BY <1>1, <1>3, <1>9 DEF SeedInv, SeedComplete
  <1>12. ASSUME exact
         PROVE  SeedProgress(x)' /\ (x.pc \in {"idle", "done"} => \A r \in SeedRoles : Agrees(r)')
    <2>1. SeedProgress(runs[c]) BY <1>12 DEF SeedInv, SeedExact
    <2>2. \A r \in SeedRoles : Agrees(r)' <=> Agrees(r) BY <1>3 DEF Agrees
    <2>3. CASE pc = "roles" BY <1>7, <2>3 DEF SeedProgress
    <2>4. CASE runs[c].pc = "roles" /\ pc = "prune" /\ todo = SeedRoles
      BY <1>7, <2>4 DEF SeedProgress
    <2>5. CASE runs[c].pc = "link" /\ runs[c].todo \cap SeedPermissions = {} /\ pc = "prune" /\ todo = runs[c].todo
      <3>1. runs[c].role \in SeedRoles /\ Links[runs[c].role] \subseteq Permitted
        BY <1>0, SeedTable DEF SeedRoles
      <3>2. \A p \in Permitted : p \notin runs[c].todo BY <2>5 DEF SeedPermissions
      <3>3. Agrees(runs[c].role) BY <2>1, <2>5, <3>1, <3>2 DEF SeedProgress, Agrees
      <3>4. \A r \in SeedRoles \ todo : Agrees(r) BY <2>1, <2>5, <3>3 DEF SeedProgress
      <3> QED BY <1>7, <2>2, <2>5, <3>4 DEF SeedProgress
    <2>6. CASE runs[c].pc = "super" /\ pc = "done" BY <1>7, <2>1, <2>2, <2>6 DEF SeedProgress
    <2> QED BY <1>1, <2>3, <2>4, <2>5, <2>6
  <1>13. SeedExact' BY <1>3, <1>8, <1>12, SeedSteps
  <1> QED BY <1>10, <1>11, <1>13 DEF SeedInv

(* What is written from outside the run makes the run inexact.             *)
LEMMA SeedOutside ==
    ASSUME SeedInv, Seeding!Bootstrap \/ (\E r \in SeedRoles, p \in SeedPermissions : Seeding!Edit(r, p))
    PROVE  SeedInv'
  <1>0. SeedTyped BY DEF SeedInv
  <1>1. /\ permissions' = permissions /\ runs' = runs /\ exact' = FALSE
        /\ edits < Bound - 1 /\ edits' = edits + 1
    BY DEF Seeding!Bootstrap, Seeding!Edit
  <1>2. \A c \in Clients : SeedRunFine(runs[c])'
    BY <1>0, <1>1 DEF SeedTyped, SeedRunFine, Seeding!Run
  <1>3. edits' \in 0..(Bound - 1) BY <1>0, <1>1, LimitsAssumption DEF SeedTyped
  <1>4. /\ roles' \subseteq SeedRoles /\ linksOfSeeding' \subseteq SeedRoles \X SeedPermissions
        /\ password' \in [SeedRoles -> {"none", "initial", "own"}] /\ complete' \in BOOLEAN
    <2>1. CASE Seeding!Bootstrap
      <3>1. /\ roles' = roles \cup SeedRoles /\ complete' = TRUE
            /\ linksOfSeeding' = (linksOfSeeding \cup ({"Super Admin"} \X permissions)) \cup
                   (linksOfSeeding \cup ({"Club Admin"} \X (permissions \cap (Permitted \cup {"migrated"}))))
            /\ password' = [a \in SeedRoles |-> Seeding!PasswordFor(a)]
        BY <2>1 DEF Seeding!Bootstrap, Seeding!SyncRolePermissions, Seeding!Accounts, Seeding!SuperAdmin,
                    Seeding!ClubAdmin, SeedRoles
      <3>2. \A a \in SeedRoles : Seeding!PasswordFor(a) \in {"none", "initial", "own"}
        BY <1>0 DEF SeedTyped, Seeding!PasswordFor
      <3>3. linksOfSeeding' \subseteq SeedRoles \X SeedPermissions
        BY <1>0, <3>1 DEF SeedTyped, SeedRoles
      <3> QED BY <1>0, <3>1, <3>2, <3>3 DEF SeedTyped
    <2>2. ASSUME NEW r \in SeedRoles, NEW p \in SeedPermissions, Seeding!Edit(r, p)
          PROVE  /\ roles' \subseteq SeedRoles /\ linksOfSeeding' \subseteq SeedRoles \X SeedPermissions
                 /\ password' \in [SeedRoles -> {"none", "initial", "own"}] /\ complete' \in BOOLEAN
      BY <1>0, <2>2 DEF Seeding!Edit, SeedTyped
    <2> QED BY <2>1, <2>2
  <1>5. SeedComplete'
    <2> SUFFICES ASSUME complete', NEW p \in permissions
                 PROVE  \/ <<"Super Admin", p>> \in linksOfSeeding'
                        \/ \E c \in Clients : runs[c].pc = "super" /\ p \in runs[c].todo
      BY <1>1 DEF SeedComplete
    <2>1. CASE Seeding!Bootstrap
      BY <2>1 DEF Seeding!Bootstrap, Seeding!SyncRolePermissions, Seeding!SuperAdmin
    <2>2. ASSUME NEW r \in SeedRoles, NEW o \in SeedPermissions, Seeding!Edit(r, o)
          PROVE  \/ <<"Super Admin", p>> \in linksOfSeeding'
                 \/ \E c \in Clients : runs[c].pc = "super" /\ p \in runs[c].todo
      BY <2>2 DEF Seeding!Edit, Seeding!SuperAdmin, SeedInv, SeedComplete
    <2> QED BY <2>1, <2>2
  <1> QED BY <1>0, <1>1, <1>2, <1>3, <1>4, <1>5 DEF SeedInv, SeedTyped, SeedExact

LEMMA SeedMigrates ==
    ASSUME SeedInv, Seeding!Migrate("migrated") \/ (\E a \in SeedRoles : Seeding!ChangePassword(a))
    PROVE  SeedInv'
  <1>0. SeedTyped BY DEF SeedInv
  <1>1. UNCHANGED <<roles, linksOfSeeding, runs, exact>> /\ permissions \subseteq permissions'
    BY DEF Seeding!Migrate, Seeding!ChangePassword
  <1>2. \A c \in Clients : SeedRunFine(runs[c])'
    BY <1>0, <1>1 DEF SeedTyped, SeedRunFine, Seeding!Run
  <1>3. permissions' \subseteq SeedPermissions /\ complete' \in BOOLEAN /\ edits' \in 0..(Bound - 1)
    <2>1. edits \in 0..(Bound - 1) /\ permissions \subseteq SeedPermissions /\ complete \in BOOLEAN
      BY <1>0 DEF SeedTyped
    <2>2. CASE Seeding!Migrate("migrated")
      <3>1. /\ permissions' = permissions \cup {"migrated"} /\ complete' = FALSE
            /\ edits < Bound - 1 /\ edits' = edits + 1
        BY <2>2 DEF Seeding!Migrate
      <3>2. edits' \in 0..(Bound - 1) BY <2>1, <3>1, LimitsAssumption
      <3>3. permissions' \subseteq SeedPermissions /\ complete' \in BOOLEAN
        BY <2>1, <3>1 DEF SeedPermissions
      <3> QED BY <3>2, <3>3
    <2>3. ASSUME NEW a \in SeedRoles, Seeding!ChangePassword(a)
          PROVE  permissions' = permissions /\ complete' = complete /\ edits' = edits
      BY <2>3 DEF Seeding!ChangePassword
    <2> QED BY <2>1, <2>2, <2>3
  <1>4. password' \in [SeedRoles -> {"none", "initial", "own"}]
    BY <1>0 DEF Seeding!Migrate, Seeding!ChangePassword, SeedTyped
  <1>5. SeedTyped' BY <1>0, <1>1, <1>2, <1>3, <1>4 DEF SeedTyped
  <1>6. SeedComplete' BY DEF SeedInv, SeedComplete, Seeding!Migrate, Seeding!ChangePassword
  <1>7. \A r \in SeedRoles : Agrees(r)' <=> Agrees(r) BY <1>1 DEF Agrees
  <1>8. \A c \in Clients : (SeedIsActive(c)' <=> SeedIsActive(c)) /\ (SeedProgress(runs[c])' <=> SeedProgress(runs[c]))
    BY <1>1 DEF SeedIsActive, SeedProgress, Agrees
  <1>9. SeedExact' BY <1>1, <1>7, <1>8 DEF SeedInv, SeedExact
  <1> QED BY <1>5, <1>6, <1>9 DEF SeedInv

LEMMA SeedCrashes ==
    ASSUME SeedInv, NEW c \in Clients, Seeding!Crash(c)
    PROVE  SeedInv'
  <1>0. SeedTyped BY DEF SeedInv
  <1>1. PICK x : x = [pc |-> "idle", todo |-> {}, role |-> "Super Admin"] OBVIOUS
  <1>2. /\ RunMoves(c, x) /\ edits < Bound - 1 /\ edits' = edits + 1 /\ exact' = FALSE /\ complete' = FALSE
        /\ UNCHANGED <<permissions, roles, linksOfSeeding, password>>
    BY <1>1 DEF Seeding!Crash, Seeding!Idle, Seeding!SuperAdmin, RunMoves
  <1>3. SeedRunFine(x) BY <1>1, SeedTable DEF SeedRunFine, SeedRoles
  <1>4. runs' = [d \in Clients |-> runs'[d]] /\ \A d \in Clients : SeedRunFine(runs[d])'
    BY <1>2, <1>3, SeedRunMoves
  <1>5. edits' \in 0..(Bound - 1) BY <1>0, <1>2, LimitsAssumption DEF SeedTyped
  <1> QED BY <1>0, <1>2, <1>4, <1>5 DEF SeedInv, SeedTyped, SeedComplete, SeedExact

LEMMA SeedingNext == SeedInv /\ Seeding!Next => SeedInv'
  <1> SUFFICES ASSUME SeedInv, Seeding!Next PROVE SeedInv' OBVIOUS
  <1>1. ASSUME NEW c \in Clients, Seeding!Begin(c) \/ Seeding!Crash(c) PROVE SeedInv'
    BY <1>1, SeedBegins, SeedCrashes
  <1>2. ASSUME NEW c \in Clients, Seeding!NextLoop(c) \/ Seeding!ReadPermissions(c) PROVE SeedInv'
    BY <1>2, SeedNextLoop, SeedReads
  <1>3. ASSUME NEW c \in Clients, NEW p \in SeedPermissions,
               Seeding!SeedPermission(c, p) \/ Seeding!Link(c, p) \/ Seeding!LinkSuperAdmin(c, p)
        PROVE  SeedInv'
    BY <1>3, SeedAddsPermission, SeedLinks, SeedLinksSuperAdmin
  <1>4. ASSUME NEW c \in Clients, NEW r \in SeedRoles, Seeding!SeedRole(c, r) \/ Seeding!Prune(c, r)
        PROVE  SeedInv'
    BY <1>4, SeedAddsRole, SeedPrunes
  <1>5. ASSUME NEW a \in SeedRoles, Seeding!ChangePassword(a) PROVE SeedInv' BY <1>5, SeedMigrates
  <1>6. ASSUME NEW r \in SeedRoles, NEW p \in SeedPermissions, Seeding!Edit(r, p) PROVE SeedInv'
    BY <1>6, SeedOutside
  <1>7. CASE Seeding!Migrate("migrated") BY <1>7, SeedMigrates
  <1>8. CASE Seeding!Bootstrap BY <1>8, SeedOutside
  <1>9. Seeding!Accounts = SeedRoles
    BY DEF Seeding!Accounts, Seeding!SuperAdmin, Seeding!ClubAdmin, SeedRoles
  <1> QED BY <1>1, <1>2, <1>3, <1>4, <1>5, <1>6, <1>7, <1>8, <1>9, SeedTable DEF Seeding!Next, Seeding!Seed

LEMMA SeedInvSays == SeedInv => Seeding!TypeOK /\ Seeding!SeededRolesAgree
  <1> SUFFICES ASSUME SeedInv PROVE Seeding!TypeOK /\ Seeding!SeededRolesAgree OBVIOUS
  <1>1. Seeding!Accounts = SeedRoles
    BY DEF Seeding!Accounts, Seeding!SuperAdmin, Seeding!ClubAdmin, SeedRoles
  <1>2. runs \in [Clients -> Seeding!Run] BY DEF SeedInv, SeedTyped, SeedRunFine
  <1>3. Seeding!TypeOK BY <1>1, <1>2, SeedTable DEF SeedInv, SeedTyped, Seeding!TypeOK
  <1>4. ASSUME \A c \in Clients : ~ Seeding!Active(c)
        PROVE  /\ complete => \A p \in permissions : <<"Super Admin", p>> \in linksOfSeeding
               /\ exact => \A r \in SeedRoles : {p \in Permitted : <<r, p>> \in linksOfSeeding} = Links[r]
    <2>1. \A c \in Clients : ~ SeedIsActive(c) /\ runs[c].pc # "super"
      BY <1>4 DEF Seeding!Active, SeedIsActive
    <2>2. complete => \A p \in permissions : <<"Super Admin", p>> \in linksOfSeeding
      BY <2>1 DEF SeedInv, SeedComplete
    <2>3. \A r \in SeedRoles : Links[r] \subseteq Permitted BY SeedTable DEF SeedRoles
    <2>4. exact => \A r \in SeedRoles : Agrees(r) BY <2>1 DEF SeedInv, SeedExact
    <2> QED BY <2>2, <2>3, <2>4 DEF Agrees
  <1>5. Seeding!SeededRolesAgree BY <1>4, SeedTable DEF Seeding!SeededRolesAgree, Seeding!SuperAdmin
  <1> QED BY <1>3, <1>5

(* No command puts back a password that its owner has changed.             *)
LEMMA SeedKeepsPasswords == SeedInv /\ Seeding!Next => Seeding!KeepsPasswords
  <1> SUFFICES ASSUME SeedInv, Seeding!Next, NEW a \in SeedRoles, password[a] = "own"
               PROVE  password'[a] = "own"
    BY DEF Seeding!KeepsPasswords, Seeding!Accounts, Seeding!SuperAdmin, Seeding!ClubAdmin, SeedRoles
  <1>1. password = [r \in SeedRoles |-> password[r]] BY DEF SeedInv, SeedTyped
  <1>2. \/ password' = password
        \/ password' = [r \in SeedRoles |-> Seeding!PasswordFor(r)]
        \/ \E r \in SeedRoles : password[r] = "initial" /\ password' = [password EXCEPT ![r] = "own"]
    BY DEF Seeding!Next, Seeding!Seed, Seeding!Begin, Seeding!Crash, Seeding!NextLoop, Seeding!ReadPermissions,
           Seeding!SeedPermission, Seeding!Link, Seeding!LinkSuperAdmin, Seeding!SeedRole, Seeding!Prune,
           Seeding!ChangePassword, Seeding!Edit, Seeding!Migrate, Seeding!Bootstrap, Seeding!Accounts,
           Seeding!SuperAdmin, Seeding!ClubAdmin, SeedRoles
  <1> QED BY <1>1, <1>2 DEF Seeding!PasswordFor
-----------------------------------------------------------------------------
(* Administrators.  While no two requests passed the test of the last Super*)
(* Admin together and no role expired, one request at a time is under way, *)
(* and the removal it is about to make leaves another Super Admin.         *)
AccountUsers == Founders \cup Others
AdminIdle == [step |-> "idle", user |-> Absent]

AdminTyped ==
    /\ Admins!TypeOK
    /\ \A c \in Clients :
           /\ requestsOfAdmins[c] # AdminIdle => requestsOfAdmins[c].user \in AccountUsers
           /\ requestsOfAdmins[c].step = "idle" => requestsOfAdmins[c] = AdminIdle

OneAtATime == ~ overlapped =>
    \A c, d \in Clients : requestsOfAdmins[c] # AdminIdle /\ requestsOfAdmins[d] # AdminIdle => c = d

OneRemains ==
    /\ ~ lapsed => \A u \in AccountUsers : super[u] # "expired"
    /\ ~ overlapped /\ ~ lapsed =>
           /\ \E v \in AccountUsers : super[v] = "active"
           /\ \A c \in Clients : requestsOfAdmins[c].step = "remove" =>
                  \E v \in AccountUsers : super[v] = "active" /\ v # requestsOfAdmins[c].user

Delegated ==
    /\ \A u \in AccountUsers : clubRole[u] # "none" => statusOfUser[u] # "absent"
    /\ \A u \in AccountUsers : creator[u] # Absent =>
           creator[u] \in AccountUsers /\ statusOfUser[creator[u]] # "absent"
           /\ members[u] \subseteq members[creator[u]]

AdminInv == AdminTyped /\ OneAtATime /\ OneRemains /\ Delegated

LEMMA AdminsInit == Admins!Init => AdminInv
  <1> SUFFICES ASSUME Admins!Init PROVE AdminInv OBVIOUS
  <1>1. /\ super = [u \in AccountUsers |-> IF u \in Founders THEN "active" ELSE "none"]
        /\ enabled = [u \in AccountUsers |-> TRUE] /\ creator = [u \in AccountUsers |-> Absent]
        /\ requestsOfAdmins = [c \in Clients |-> AdminIdle]
        /\ overlapped = FALSE /\ lapsed = FALSE /\ changes = 0
    BY DEF Admins!Init, Admins!Idle, AdminIdle, AccountUsers
  <1>2. PICK club \in SUBSET (AccountUsers \ Founders) :
          /\ clubRole = [u \in AccountUsers |-> IF u \in club THEN "Club Admin" ELSE "none"]
          /\ statusOfUser = [u \in AccountUsers |-> IF u \in Founders \cup club THEN "ACTIVE" ELSE "absent"]
          /\ members \in [AccountUsers -> SUBSET Workspaces]
    BY DEF Admins!Init, AccountUsers
  <1>3. 0 \in 0..Bound BY LimitsAssumption
  <1>4. /\ super \in [AccountUsers -> Admins!RoleStates] /\ clubRole \in [AccountUsers -> Admins!ClubRoles]
        /\ enabled \in [AccountUsers -> BOOLEAN] /\ statusOfUser \in [AccountUsers -> Admins!AccountStatuses]
        /\ creator \in [AccountUsers -> AccountUsers \cup {Absent}]
    BY <1>1, <1>2 DEF Admins!RoleStates, Admins!ClubRoles, Admins!AccountStatuses
  <1>5. requestsOfAdmins \in [Clients -> [step : Admins!Steps, user : AccountUsers \cup {Absent}]]
    BY <1>1 DEF Admins!Steps, AdminIdle
  <1>6. Admins!TypeOK BY <1>1, <1>2, <1>3, <1>4, <1>5 DEF Admins!TypeOK, AccountUsers
  <1>7. AdminTyped /\ OneAtATime BY <1>1, <1>6 DEF AdminTyped, OneAtATime
  <1>8. OneRemains BY <1>1, AccountsAssumption DEF AccountUsers, AdminIdle, OneRemains
  <1>9. Delegated BY <1>1, <1>2 DEF Delegated
  <1> QED BY <1>7, <1>8, <1>9 DEF AdminInv

LEMMA AdminsStutter == AdminInv /\ UNCHANGED adminsVars => AdminInv'
  BY DEF AdminInv, adminsVars, AdminTyped, OneAtATime, OneRemains, Delegated, Admins!TypeOK

LEMMA AdminCardinality == \A S : Admins!Cardinality(S) = Cardinality(S)
  BY DEF Admins!Cardinality, Admins!IsFiniteSet, Cardinality, IsFiniteSet

LEMMA AnotherRemains ==
    ASSUME Admins!Cardinality(Admins!SuperAdmins) > 1, NEW u
    PROVE  \E v \in AccountUsers : super[v] = "active" /\ v # u
  <1>1. Admins!SuperAdmins \subseteq AccountUsers BY DEF Admins!SuperAdmins, AccountUsers
  <1>2. Cardinality(Admins!SuperAdmins) > 1 /\ IsFiniteSet(Admins!SuperAdmins)
    BY <1>1, AdminCardinality, AccountsAssumption, FS_Subset DEF AccountUsers
  <1>3. ~ (Admins!SuperAdmins \subseteq {u})
    <2> SUFFICES ASSUME Admins!SuperAdmins \subseteq {u} PROVE FALSE OBVIOUS
    <2>1. Cardinality(Admins!SuperAdmins) <= Cardinality({u}) /\ Cardinality({u}) = 1
      BY FS_Subset, FS_Singleton
    <2>2. Cardinality(Admins!SuperAdmins) \in Nat BY <1>2, FS_CardinalityType
    <2> QED BY <1>2, <2>1, <2>2
  <1> QED BY <1>1, <1>3 DEF Admins!SuperAdmins

(* A request that passed the test of the last Super Admin.                 *)
LEMMA AdminBegins ==
    ASSUME AdminInv, NEW c \in Clients, NEW u \in AccountUsers,
           Admins!ReadForRemove(c, u) \/ Admins!ReadForDisable(c, u)
    PROVE  AdminInv'
  <1>1. PICK step \in {"remove", "disable"} :
          /\ Admins!Begin(c, step, u) /\ changes < Bound
          /\ step = "remove" => super[u] # "none" /\ Admins!NotLast(u)
    BY DEF Admins!ReadForRemove, Admins!ReadForDisable, Admins!Serves
  <1>2. PICK x : x = [step |-> step, user |-> u] OBVIOUS
  <1>3. /\ requestsOfAdmins' = [requestsOfAdmins EXCEPT ![c] = x] /\ changes' = changes + 1
        /\ overlapped' = (overlapped \/ \E d \in Clients : requestsOfAdmins[d] # AdminIdle)
        /\ UNCHANGED <<super, clubRole, enabled, statusOfUser, members, creator, lapsed>>
    BY <1>1, <1>2 DEF Admins!Begin, Admins!Idle, AdminIdle
  <1>4. x # AdminIdle /\ x.user = u /\ x.step = step /\ step # "idle" BY <1>1, <1>2 DEF AdminIdle
  <1>5. requestsOfAdmins' = [d \in Clients |-> IF d = c THEN x ELSE requestsOfAdmins[d]]
    BY <1>3 DEF AdminInv, AdminTyped, Admins!TypeOK
  <1>6. AdminTyped'
    <2>1. changes' \in 0..Bound
      BY <1>1, <1>3, LimitsAssumption DEF AdminInv, AdminTyped, Admins!TypeOK
    <2>2. x \in [step : Admins!Steps, user : AccountUsers \cup {Absent}] BY <1>2 DEF Admins!Steps
    <2>3. requestsOfAdmins' \in [Clients -> [step : Admins!Steps, user : AccountUsers \cup {Absent}]]
      BY <1>5, <2>2 DEF AdminInv, AdminTyped, Admins!TypeOK, AccountUsers
    <2>4. overlapped' \in BOOLEAN BY <1>3 DEF AdminInv, AdminTyped, Admins!TypeOK
    <2>5. Admins!TypeOK'
      BY <1>3, <2>1, <2>3, <2>4 DEF AdminInv, AdminTyped, Admins!TypeOK, AccountUsers
    <2> QED BY <1>4, <1>5, <2>5 DEF AdminInv, AdminTyped
  <1>7. overlapped \in BOOLEAN BY DEF AdminInv, AdminTyped, Admins!TypeOK
  <1>8. ~ overlapped' => ~ overlapped /\ \A d \in Clients : requestsOfAdmins[d] = AdminIdle
    BY <1>3, <1>7
  <1>9. OneAtATime' BY <1>5, <1>8 DEF OneAtATime
  <1>10. OneRemains'
    <2> SUFFICES ASSUME ~ overlapped', ~ lapsed', NEW d \in Clients, requestsOfAdmins'[d].step = "remove"
                 PROVE  \E v \in AccountUsers : super[v] = "active" /\ v # requestsOfAdmins'[d].user
      BY <1>3, <1>8 DEF AdminInv, OneRemains
    <2>1. d = c BY <1>5, <1>8 DEF AdminIdle
    <2>2. step = "remove" /\ requestsOfAdmins'[d].user = u BY <1>4, <1>5, <2>1
    <2>3. super[u] \in {"none", "active", "expired"} /\ super[u] # "expired"
      BY <1>3 DEF AdminInv, AdminTyped, Admins!TypeOK, Admins!RoleStates, OneRemains, AccountUsers
    <2>4. Admins!Cardinality(Admins!SuperAdmins) > 1
      BY <1>1, <2>2, <2>3 DEF Admins!NotLast, Admins!IsSuperAdmin
    <2> QED BY <2>2, <2>4, AnotherRemains
  <1>11. Delegated' BY <1>3 DEF AdminInv, Delegated
  <1> QED BY <1>6, <1>9, <1>10, <1>11 DEF AdminInv

LEMMA AdminEnds ==
    ASSUME AdminInv, NEW c \in Clients, Admins!RemoveRole(c) \/ Admins!Disable(c)
    PROVE  AdminInv'
  <1>1. PICK u : u = requestsOfAdmins[c].user OBVIOUS
  <1>2. /\ requestsOfAdmins' = [requestsOfAdmins EXCEPT ![c] = AdminIdle]
        /\ requestsOfAdmins[c].step # "idle"
        /\ UNCHANGED <<clubRole, statusOfUser, members, creator, overlapped, lapsed, changes>>
        /\ \/ super' = [super EXCEPT ![u] = "none"] /\ requestsOfAdmins[c].step = "remove" /\ enabled' = enabled
           \/ super' = super /\ enabled' = [enabled EXCEPT ![u] = FALSE]
    BY <1>1 DEF Admins!RemoveRole, Admins!Disable, Admins!Idle, AdminIdle
  <1>3. requestsOfAdmins[c] # AdminIdle /\ u \in AccountUsers
    BY <1>1, <1>2 DEF AdminInv, AdminTyped, AdminIdle
  <1>4. requestsOfAdmins' = [d \in Clients |-> IF d = c THEN AdminIdle ELSE requestsOfAdmins[d]]
    BY <1>2 DEF AdminInv, AdminTyped, Admins!TypeOK
  <1>5. \A v \in AccountUsers : super'[v] = super[v] \/ super'[v] = "none"
    BY <1>2, <1>3 DEF AdminInv, AdminTyped, Admins!TypeOK, AccountUsers
  <1>6. AdminTyped'
    <2>1. AdminIdle \in [step : Admins!Steps, user : AccountUsers \cup {Absent}]
      BY DEF Admins!Steps, AdminIdle
    <2>2. requestsOfAdmins' \in [Clients -> [step : Admins!Steps, user : AccountUsers \cup {Absent}]]
      BY <1>4, <2>1 DEF AdminInv, AdminTyped, Admins!TypeOK, AccountUsers
    <2>3. super' \in [AccountUsers -> Admins!RoleStates] /\ enabled' \in [AccountUsers -> BOOLEAN]
      BY <1>2 DEF AdminInv, AdminTyped, Admins!TypeOK, Admins!RoleStates, AccountUsers
    <2>4. Admins!TypeOK' BY <1>2, <2>2, <2>3 DEF AdminInv, AdminTyped, Admins!TypeOK, AccountUsers
    <2> QED BY <1>4, <2>4 DEF AdminInv, AdminTyped
  <1>7. OneAtATime' BY <1>2, <1>4 DEF AdminInv, OneAtATime
  <1>8. OneRemains'
    <2>1. ~ lapsed' => \A v \in AccountUsers : super'[v] # "expired"
      BY <1>2, <1>5 DEF AdminInv, OneRemains
    <2>2. ASSUME ~ overlapped', ~ lapsed'
          PROVE  /\ \E v \in AccountUsers : super'[v] = "active"
                 /\ \A d \in Clients : requestsOfAdmins'[d] = AdminIdle
      <3>1. \A d \in Clients : d # c => requestsOfAdmins[d] = AdminIdle
        BY <1>2, <1>3, <2>2 DEF AdminInv, OneAtATime
      <3>2. \A d \in Clients : requestsOfAdmins'[d] = AdminIdle BY <1>4, <3>1
      <3>3. PICK v \in AccountUsers : super[v] = "active" /\ (requestsOfAdmins[c].step = "remove" => v # u)
        BY <1>1, <1>2, <2>2 DEF AdminInv, OneRemains
      <3>4. super'[v] = "active" BY <1>2, <3>3 DEF AdminInv, AdminTyped, Admins!TypeOK, AccountUsers
      <3> QED BY <3>2, <3>4
    <2>3. AdminIdle.step # "remove" BY DEF AdminIdle
    <2> QED BY <2>1, <2>2, <2>3 DEF OneRemains
  <1>9. Delegated' BY <1>2 DEF AdminInv, Delegated
  <1> QED BY <1>6, <1>7, <1>8, <1>9 DEF AdminInv

LEMMA AdminChangesUser ==
    ASSUME AdminInv, NEW u \in AccountUsers,
           Admins!Enable(u) \/ Admins!AssignRole(u) \/ Admins!RoleExpires(u)
    PROVE  AdminInv'
  <1>1. /\ changes < Bound /\ changes' = changes + 1
        /\ UNCHANGED <<clubRole, statusOfUser, members, creator, requestsOfAdmins, overlapped>>
    BY DEF Admins!Enable, Admins!AssignRole, Admins!RoleExpires, Admins!Serves
  <1>2. changes' \in 0..Bound BY <1>1, LimitsAssumption DEF AdminInv, AdminTyped, Admins!TypeOK
  <1>3. /\ super \in [AccountUsers -> {"none", "active", "expired"}]
        /\ enabled \in [AccountUsers -> BOOLEAN] /\ lapsed \in BOOLEAN
    BY DEF AdminInv, AdminTyped, Admins!TypeOK, Admins!RoleStates, AccountUsers
  <1>4. /\ super' \in [AccountUsers -> {"none", "active", "expired"}]
        /\ enabled' \in [AccountUsers -> BOOLEAN] /\ lapsed' \in BOOLEAN
        /\ ~ lapsed' => ~ lapsed /\ \A v \in AccountUsers :
               (super[v] = "active" => super'[v] = "active") /\ (super'[v] = "expired" => super[v] = "expired")
    <2>1. CASE Admins!Enable(u) BY <1>3, <2>1 DEF Admins!Enable
    <2>2. CASE Admins!AssignRole(u) BY <1>3, <2>2 DEF Admins!AssignRole, Admins!Assigned
    <2>3. CASE Admins!RoleExpires(u) BY <1>3, <2>3 DEF Admins!RoleExpires
    <2> QED BY <2>1, <2>2, <2>3
  <1>5. AdminTyped'
    BY <1>1, <1>2, <1>4 DEF AdminInv, AdminTyped, Admins!TypeOK, Admins!RoleStates, AccountUsers
  <1>6. OneAtATime' /\ Delegated' BY <1>1 DEF AdminInv, OneAtATime, Delegated
  <1>7. OneRemains' BY <1>1, <1>4 DEF AdminInv, OneRemains
  <1> QED BY <1>5, <1>6, <1>7 DEF AdminInv

LEMMA AdminCreatesUser ==
    ASSUME AdminInv, NEW actor \in AccountUsers, NEW u \in AccountUsers,
           NEW role \in Admins!ClubRoles \ {"none"}, NEW workspaces \in SUBSET Workspaces,
           Admins!CreateUser(actor, u, role, workspaces)
    PROVE  AdminInv'
  <1>1. /\ changes < Bound /\ changes' = changes + 1 /\ statusOfUser[u] = "absent"
        /\ statusOfUser' = [statusOfUser EXCEPT ![u] = "PENDING_INVITATION"]
        /\ clubRole' = [clubRole EXCEPT ![u] = role]
        /\ members' = [members EXCEPT ![u] = workspaces]
        /\ creator' = [creator EXCEPT ![u] = IF super[actor] = "active" THEN Absent ELSE actor]
        /\ UNCHANGED <<super, enabled, requestsOfAdmins, overlapped, lapsed>>
    BY DEF Admins!CreateUser, Admins!Admits, Admins!IsSuperAdmin
  <1>2. /\ super[actor] = "active" \/ clubRole[actor] # "none"
        /\ super[actor] # "active" => workspaces \subseteq members[actor]
    BY DEF Admins!CreateUser, Admins!Admits, Admins!IsSuperAdmin, Admins!CanAssignTo, Admins!Manageable
  <1>3. /\ statusOfUser \in [AccountUsers -> Admins!AccountStatuses]
        /\ clubRole \in [AccountUsers -> Admins!ClubRoles]
        /\ members \in [AccountUsers -> SUBSET Workspaces]
        /\ creator \in [AccountUsers -> AccountUsers \cup {Absent}] /\ changes \in 0..Bound
    BY DEF AdminInv, AdminTyped, Admins!TypeOK, AccountUsers
  <1>4. changes' \in 0..Bound BY <1>1, <1>3, LimitsAssumption
  <1>5. AdminTyped'
    BY <1>1, <1>3, <1>4 DEF Admins!AccountStatuses, AdminInv, AdminTyped, Admins!TypeOK,
       AccountUsers
  <1>6. OneAtATime' /\ OneRemains' BY <1>1 DEF AdminInv, OneAtATime, OneRemains
  <1>7. Delegated'
    <2>1. \A v \in AccountUsers : statusOfUser[v] # "absent" => statusOfUser'[v] # "absent" /\ v # u
                                  /\ members'[v] = members[v]
      BY <1>1, <1>3
    <2>2. statusOfUser'[u] # "absent" /\ members'[u] = workspaces BY <1>1, <1>3
    <2>3. ASSUME NEW v \in AccountUsers, clubRole'[v] # "none" PROVE statusOfUser'[v] # "absent"
      BY <1>1, <1>3, <2>1, <2>2, <2>3 DEF AdminInv, Delegated
    <2>4. ASSUME NEW v \in AccountUsers, creator'[v] # Absent
          PROVE  /\ creator'[v] \in AccountUsers /\ statusOfUser'[creator'[v]] # "absent"
                 /\ members'[v] \subseteq members'[creator'[v]]
      <3>1. CASE v = u
        <4>1. super[actor] # "active" /\ creator'[v] = actor BY <1>1, <1>3, <2>4, <3>1
        <4>2. statusOfUser[actor] # "absent" BY <1>2, <4>1 DEF AdminInv, Delegated
        <4> QED BY <1>2, <2>1, <2>2, <3>1, <4>1, <4>2
      <3>2. CASE v # u BY <1>1, <1>3, <2>1, <2>4, <3>2 DEF AdminInv, Delegated
      <3> QED BY <3>1, <3>2
    <2> QED BY <2>3, <2>4 DEF Delegated
  <1> QED BY <1>5, <1>6, <1>7 DEF AdminInv

LEMMA AdminChangesStatus ==
    ASSUME AdminInv, NEW actor \in AccountUsers, NEW u \in AccountUsers,
           NEW new \in {"ACTIVE", "SUSPENDED", "DEACTIVATED"}, Admins!ChangeAccountStatus(actor, u, new)
    PROVE  AdminInv'
  <1>1. /\ changes < Bound /\ changes' = changes + 1
        /\ statusOfUser' = [statusOfUser EXCEPT ![u] = new]
        /\ UNCHANGED <<super, clubRole, enabled, members, creator, requestsOfAdmins, overlapped, lapsed>>
    BY DEF Admins!ChangeAccountStatus, Admins!Admits
  <1>2. statusOfUser \in [AccountUsers -> Admins!AccountStatuses] /\ changes \in 0..Bound
    BY DEF AdminInv, AdminTyped, Admins!TypeOK, AccountUsers
  <1>3. changes' \in 0..Bound /\ statusOfUser' \in [AccountUsers -> Admins!AccountStatuses]
    BY <1>1, <1>2, LimitsAssumption DEF Admins!AccountStatuses
  <1>4. AdminTyped' BY <1>1, <1>3 DEF AdminInv, AdminTyped, Admins!TypeOK, AccountUsers
  <1>5. OneAtATime' /\ OneRemains' BY <1>1 DEF AdminInv, OneAtATime, OneRemains
  <1>6. \A v \in AccountUsers : statusOfUser[v] # "absent" => statusOfUser'[v] # "absent"
    BY <1>1, <1>2
  <1>7. Delegated' BY <1>1, <1>6 DEF AdminInv, Delegated
  <1> QED BY <1>4, <1>5, <1>7 DEF AdminInv

LEMMA AdminsNext == AdminInv /\ Admins!Next => AdminInv'
  BY AdminBegins, AdminEnds, AdminChangesUser, AdminCreatesUser, AdminChangesStatus DEF Admins!Next,
     AccountUsers

LEMMA AdminInvSays ==
    AdminInv => Admins!TypeOK /\ Admins!SuperAdminRoleKept /\ Admins!DelegationInScope
  BY DEF AdminInv, AdminTyped, OneRemains, Delegated, Admins!SuperAdminRoleKept, Admins!SuperAdmins,
         Admins!DelegationInScope, AccountUsers, Admins!TypeOK
-----------------------------------------------------------------------------
(* Tables whose rows are added at the end and changed in place.            *)
LEMMA RowChanged ==
    ASSUME NEW S, NEW rows \in Seq(S), NEW i \in DOMAIN rows, NEW v \in S
    PROVE  /\ [rows EXCEPT ![i] = v] \in Seq(S)
           /\ Len([rows EXCEPT ![i] = v]) = Len(rows)
           /\ DOMAIN [rows EXCEPT ![i] = v] = DOMAIN rows
           /\ \A j \in DOMAIN rows : [rows EXCEPT ![i] = v][j] = IF j = i THEN v ELSE rows[j]
  BY LenProperties, ExceptSeq

LEMMA RowAdded ==
    ASSUME NEW S, NEW rows \in Seq(S), NEW v \in S
    PROVE  /\ Append(rows, v) \in Seq(S) /\ Len(Append(rows, v)) = Len(rows) + 1
           /\ Len(rows) \in Nat /\ DOMAIN rows = 1..Len(rows)
           /\ DOMAIN Append(rows, v) = 1..(Len(rows) + 1)
           /\ \A i \in DOMAIN rows : Append(rows, v)[i] = rows[i]
           /\ Append(rows, v)[Len(rows) + 1] = v
  BY AppendProperties, LenProperties

LEMMA RowsRewritten ==
    ASSUME NEW S, NEW T, NEW rows \in Seq(S), NEW new, new = [i \in DOMAIN rows |-> new[i]],
           \A i \in DOMAIN rows : new[i] \in T
    PROVE  new \in Seq(T) /\ Len(new) = Len(rows) /\ DOMAIN new = DOMAIN rows
  BY LenProperties, IsASeq

-----------------------------------------------------------------------------
(* Invitations.  A request that grants roles has accepted its invitation   *)
(* and granted every role that is not still to do; of the links only the   *)
(* last can be unused, and there is none before there is an account.       *)
InviteCallFine(x) ==
    /\ x \in [step : Invites!Steps, row : Nat, todo : SUBSET Invited, seen : Invites!AccountStatuses]
    /\ x.step \in {"revoke", "accept", "grant"} => x.row \in DOMAIN invitations
    /\ x.step = "write" => x.row \in DOMAIN links
    /\ x.step = "grant" =>
           /\ x.row \in agreed /\ x.todo \subseteq invitations[x.row].roles
           /\ invitations[x.row].roles \ x.todo \subseteq granted
    /\ x.seen # "none" => account # "none"

InviteRows ==
    /\ account \in Invites!AccountStatuses
    /\ invitations \in Seq(Invites!AdminInvitations) /\ Len(invitations) <= Bound - 1
    /\ links \in Seq(Invites!SetupTokens) /\ Len(links) <= Bound
    /\ granted \subseteq Invited
    /\ callsOfInvites = [c \in Clients |-> callsOfInvites[c]]
    /\ agreed \subseteq DOMAIN invitations /\ broken \subseteq agreed

RolesGranted ==
    /\ \A role \in granted : \E i \in agreed : role \in invitations[i].roles
    /\ \A i \in agreed : invitations[i].status # "PENDING"
    /\ \A i \in agreed \ broken : invitations[i].roles \subseteq granted \/ Invites!Granting(i)

OnlyLastUnused ==
    /\ \A i \in DOMAIN links : links[i].used \/ i = Len(links)
    /\ account = "none" => links = << >>

InviteInv ==
    /\ InviteRows /\ (\A c \in Clients : InviteCallFine(callsOfInvites[c]))
    /\ RolesGranted /\ OnlyLastUnused

(* What a step never undoes.                                               *)
InviteLater ==
    /\ \A i \in DOMAIN invitations : i \in DOMAIN invitations' /\ invitations'[i].roles = invitations[i].roles
    /\ DOMAIN links \subseteq DOMAIN links'
    /\ granted \subseteq granted' /\ agreed \subseteq agreed'
    /\ account # "none" => account' # "none"
InviteMoves(c, x) == callsOfInvites' = [callsOfInvites EXCEPT ![c] = x]

LEMMA InvitesInit == Invites!Init => InviteInv
  <1> SUFFICES ASSUME Invites!Init PROVE InviteInv OBVIOUS
  <1>1. PICK x : x = [step |-> "idle", row |-> 0, todo |-> {}, seen |-> "none"] OBVIOUS
  <1>2. /\ account \in {"none", "ACTIVE"} /\ invitations = << >> /\ links = << >> /\ granted = {}
        /\ callsOfInvites = [c \in Clients |-> x] /\ agreed = {} /\ broken = {}
    BY <1>1 DEF Invites!Init, Invites!Idle
  <1>3. InviteCallFine(x) BY <1>1 DEF InviteCallFine, Invites!Steps, Invites!AccountStatuses
  <1>4. \A c \in Clients : InviteCallFine(callsOfInvites[c]) BY <1>2, <1>3
  <1>5. Len(invitations) <= Bound - 1 /\ Len(links) <= Bound BY <1>2, LimitsAssumption
  <1>6. InviteRows BY <1>2, <1>5 DEF InviteRows, Invites!AccountStatuses
  <1> QED BY <1>2, <1>4, <1>6 DEF InviteInv, RolesGranted, OnlyLastUnused

LEMMA InvitesStutter == InviteInv /\ UNCHANGED invitesVars => InviteInv'
  <1> SUFFICES ASSUME InviteInv, UNCHANGED invitesVars PROVE InviteInv' OBVIOUS
  <1>1. /\ account' = account /\ invitations' = invitations /\ links' = links /\ granted' = granted
        /\ callsOfInvites' = callsOfInvites /\ agreed' = agreed /\ broken' = broken
    BY DEF invitesVars
  <1>2. InviteRows' /\ OnlyLastUnused'
    BY <1>1 DEF InviteInv, InviteRows, OnlyLastUnused, Invites!AccountStatuses, Invites!AdminInvitations,
                Invites!SetupTokens
  <1>3. \A c \in Clients : InviteCallFine(callsOfInvites[c])' BY <1>1 DEF InviteInv, InviteCallFine
  <1>4. RolesGranted' BY <1>1 DEF InviteInv, RolesGranted, Invites!Granting, Invites!At
  <1> QED BY <1>2, <1>3, <1>4 DEF InviteInv

LEMMA InviteCallLater == \A x : InviteLater /\ InviteCallFine(x) => InviteCallFine(x)'
  BY DEF InviteLater, InviteCallFine

LEMMA InviteCallsMove ==
    ASSUME InviteInv, InviteLater, NEW c \in Clients, NEW x, InviteMoves(c, x), InviteCallFine(x)'
    PROVE  /\ callsOfInvites' = [d \in Clients |-> callsOfInvites'[d]] /\ callsOfInvites'[c] = x
           /\ \A d \in Clients : d # c => callsOfInvites'[d] = callsOfInvites[d]
           /\ \A d \in Clients : InviteCallFine(callsOfInvites[d])'
  <1>1. callsOfInvites' = [d \in Clients |-> IF d = c THEN x ELSE callsOfInvites[d]]
    BY DEF InviteInv, InviteRows, InviteMoves
  <1>2. ASSUME NEW d \in Clients PROVE InviteCallFine(callsOfInvites[d])'
    <2>1. CASE d = c BY <1>1, <2>1 DEF InviteCallFine
    <2>2. CASE d # c BY <1>1, <2>2, InviteCallLater DEF InviteInv, InviteCallFine
    <2> QED BY <2>1, <2>2
  <1> QED BY <1>1, <1>2

(* A request that grants nothing: what was granted stays granted.          *)
LEMMA InviteGrantsStay ==
    ASSUME InviteInv, InviteLater, NEW c \in Clients, NEW x, InviteMoves(c, x), InviteCallFine(x)',
           callsOfInvites[c].step # "grant", UNCHANGED <<granted, agreed, broken>>,
           \A i \in DOMAIN invitations : invitations'[i].status = "PENDING" => invitations[i].status = "PENDING"
    PROVE  RolesGranted'
  <1>1. \A d \in Clients : d # c => callsOfInvites'[d] = callsOfInvites[d] BY InviteCallsMove
  <1>2. agreed \subseteq DOMAIN invitations BY DEF InviteInv, InviteRows
  <1>3. \A i \in DOMAIN invitations : Invites!Granting(i) => Invites!Granting(i)'
    BY <1>1 DEF Invites!Granting, Invites!At
  <1> QED BY <1>2, <1>3 DEF InviteInv, RolesGranted, InviteLater

LEMMA InvitationRewritten ==
    ASSUME InviteInv, NEW i \in DOMAIN invitations, NEW s \in Invites!Statuses, s # "PENDING",
           invitations' = [invitations EXCEPT ![i].status = s]
    PROVE  /\ invitations' \in Seq(Invites!AdminInvitations) /\ Len(invitations') = Len(invitations)
           /\ DOMAIN invitations' = DOMAIN invitations
           /\ \A j \in DOMAIN invitations :
                  /\ invitations'[j].roles = invitations[j].roles
                  /\ invitations'[j].status = "PENDING" => invitations[j].status = "PENDING"
           /\ invitations'[i].status = s
  <1>1. PICK v : v = [invitations[i] EXCEPT !.status = s] OBVIOUS
  <1>2. invitations' = [invitations EXCEPT ![i] = v] /\ invitations \in Seq(Invites!AdminInvitations)
    BY <1>1 DEF InviteInv, InviteRows
  <1>3. invitations[i] \in Invites!AdminInvitations BY <1>2, ElementOfSeq, LenProperties
  <1>4. v \in Invites!AdminInvitations /\ v.roles = invitations[i].roles /\ v.status = s
    BY <1>1, <1>3 DEF Invites!AdminInvitations
  <1> QED BY <1>2, <1>4, RowChanged

(* A request that starts, reads, ends or stops and writes nothing.         *)
LEMMA InviteReads ==
    ASSUME InviteInv, NEW c \in Clients, NEW x, InviteMoves(c, x), InviteCallFine(x),
           callsOfInvites[c].step # "grant",
           UNCHANGED <<account, invitations, links, granted, agreed, broken>>
    PROVE  InviteInv'
  BY InviteCallLater, InviteGrantsStay, InviteCallsMove DEF InviteLater, InviteInv, InviteRows,
     OnlyLastUnused

LEMMA InviteIdleFine ==
    /\ InviteCallFine([step |-> "idle", row |-> 0, todo |-> {}, seen |-> "none"])
    /\ InviteCallFine([step |-> "idle", row |-> 0, todo |-> {}, seen |-> "none"])'
    /\ Invites!Idle = [step |-> "idle", row |-> 0, todo |-> {}, seen |-> "none"]
  BY DEF Invites!Steps, Invites!AccountStatuses, InviteCallFine, Invites!Idle

LEMMA InviteStarts ==
    ASSUME InviteInv, NEW c \in Clients,
           \/ Invites!ReadAccount(c)
           \/ \E i \in DOMAIN invitations : Invites!ReadForRevoke(c, i)
           \/ \E i \in DOMAIN links : Invites!ReadLink(c, i)
    PROVE  InviteInv'
  <1>0. /\ InviteCallFine(callsOfInvites[c]) /\ account \in Invites!AccountStatuses
        /\ callsOfInvites[c] \in [step : Invites!Steps, row : Nat, todo : SUBSET Invited, seen : Invites!AccountStatuses]
        /\ invitations \in Seq(Invites!AdminInvitations) /\ links \in Seq(Invites!SetupTokens)
    BY DEF InviteInv, InviteCallFine, InviteRows
  <1>1. DOMAIN invitations \subseteq Nat /\ DOMAIN links \subseteq Nat BY <1>0, LenProperties
  <1>2. CASE Invites!ReadAccount(c)
    <2>1. PICK x : x = [callsOfInvites[c] EXCEPT !.step = "invite", !.seen = account] OBVIOUS
    <2>2. /\ InviteMoves(c, x) /\ callsOfInvites[c].step = "idle"
          /\ UNCHANGED <<account, invitations, links, granted, agreed, broken>>
      BY <1>2, <2>1 DEF Invites!ReadAccount, Invites!At, InviteMoves
    <2>3. InviteCallFine(x) BY <1>0, <2>1 DEF InviteCallFine, Invites!Steps
    <2> QED BY <2>2, <2>3, InviteReads
  <1>3. ASSUME NEW i \in DOMAIN invitations, Invites!ReadForRevoke(c, i) PROVE InviteInv'
    BY <1>0, <1>1, <1>3, InviteReads DEF Invites!ReadForRevoke, Invites!At, InviteMoves,
       InviteCallFine, Invites!Steps
  <1>4. ASSUME NEW i \in DOMAIN links, Invites!ReadLink(c, i) PROVE InviteInv'
    <2>1. PICK x : x = [callsOfInvites[c] EXCEPT !.step = "write", !.row = i] OBVIOUS
    <2>2. /\ InviteMoves(c, x) /\ callsOfInvites[c].step = "idle"
          /\ UNCHANGED <<account, invitations, links, granted, agreed, broken>>
      BY <1>4, <2>1 DEF Invites!ReadLink, Invites!At, InviteMoves
    <2>3. InviteCallFine(x) BY <1>0, <1>1, <2>1 DEF InviteCallFine, Invites!Steps
    <2> QED BY <2>2, <2>3, InviteReads
  <1> QED BY <1>2, <1>3, <1>4

LEMMA InviteEnds ==
    ASSUME InviteInv, NEW c \in Clients,
           \/ Invites!AnswerStaff(c) \/ Invites!NothingPending(c)
           \/ Invites!Stop(c) /\ callsOfInvites[c].step # "grant"
    PROVE  InviteInv'
  <1>1. PICK x : x = [step |-> "idle", row |-> 0, todo |-> {}, seen |-> "none"] OBVIOUS
  <1>2. PICK y : y = [callsOfInvites[c] EXCEPT !.step = "admin"] OBVIOUS
  <1>3. /\ InviteMoves(c, x) \/ InviteMoves(c, y)
        /\ callsOfInvites[c].step # "grant"
        /\ UNCHANGED <<account, invitations, links, granted, agreed, broken>>
    BY <1>1, <1>2, InviteIdleFine DEF Invites!AnswerStaff, Invites!NothingPending, Invites!Stop, Invites!Finish,
                                      Invites!At, InviteMoves
  <1>4. InviteCallFine(x) BY <1>1, InviteIdleFine
  <1>5. InviteCallFine(y) BY <1>2 DEF InviteInv, InviteCallFine, Invites!Steps
  <1> QED BY <1>3, <1>4, <1>5, InviteReads

(* A row of the invitations gets another status, not PENDING.              *)
LEMMA InviteAnswers ==
    ASSUME InviteInv, NEW c \in Clients, NEW x, InviteMoves(c, x), InviteCallFine(x),
           callsOfInvites[c].step # "grant", NEW i \in DOMAIN invitations, NEW s \in Invites!Statuses,
           s # "PENDING", invitations' = [invitations EXCEPT ![i].status = s],
           UNCHANGED <<account, links, granted, agreed, broken>>
    PROVE  InviteInv'
  BY InvitationRewritten, InviteCallLater, InviteGrantsStay, InviteCallsMove DEF InviteLater,
     InviteInv, InviteRows, Invites!AdminInvitations, OnlyLastUnused

LEMMA InviteRevokes ==
    ASSUME InviteInv, NEW c \in Clients, Invites!Revoke(c)
    PROVE  InviteInv'
  <1>1. PICK x : x = [step |-> "idle", row |-> 0, todo |-> {}, seen |-> "none"] OBVIOUS
  <1>2. /\ InviteMoves(c, x) /\ callsOfInvites[c].step = "revoke"
        /\ invitations' = [invitations EXCEPT ![callsOfInvites[c].row].status = "REVOKED"]
        /\ UNCHANGED <<account, links, granted, agreed, broken>>
    BY <1>1, InviteIdleFine DEF Invites!Revoke, Invites!Finish, Invites!At, InviteMoves
  <1>3. callsOfInvites[c].row \in DOMAIN invitations BY <1>2 DEF InviteInv, InviteCallFine
  <1>4. InviteCallFine(x) /\ "REVOKED" \in Invites!Statuses
    BY <1>1, InviteIdleFine DEF Invites!Statuses
  <1> QED BY <1>2, <1>3, <1>4, InviteAnswers

LEMMA InviteReadsToAccept ==
    ASSUME InviteInv, NEW c \in Clients, NEW i \in DOMAIN invitations, Invites!ReadToAccept(c, i)
    PROVE  InviteInv'
  <1>1. PICK x : x = [step |-> "idle", row |-> 0, todo |-> {}, seen |-> "none"] OBVIOUS
  <1>2. PICK y : y = [callsOfInvites[c] EXCEPT !.step = "accept", !.row = i] OBVIOUS
  <1>3. /\ callsOfInvites[c].step # "grant"
        /\ UNCHANGED <<account, links, granted, agreed, broken>>
        /\ \/ InviteMoves(c, x) /\ invitations' = [invitations EXCEPT ![i].status = "EXPIRED"]
           \/ InviteMoves(c, y) /\ UNCHANGED invitations
    BY <1>1, <1>2, InviteIdleFine DEF Invites!ReadToAccept, Invites!Finish, Invites!At, InviteMoves
  <1>4. InviteCallFine(x) /\ "EXPIRED" \in Invites!Statuses
    BY <1>1, InviteIdleFine DEF Invites!Statuses
  <1>5. i \in Nat BY LenProperties DEF InviteInv, InviteRows
  <1>6. InviteCallFine(y) BY <1>2, <1>5 DEF InviteInv, InviteCallFine, Invites!Steps
  <1>7. CASE InviteMoves(c, x) /\ invitations' = [invitations EXCEPT ![i].status = "EXPIRED"]
    BY <1>3, <1>4, <1>7, InviteAnswers
  <1>8. CASE InviteMoves(c, y) /\ UNCHANGED invitations BY <1>3, <1>6, <1>8, InviteReads
  <1> QED BY <1>3, <1>7, <1>8

(* A new invitation is pending and nobody's yet.                           *)
LEMMA InvitationAdded ==
    ASSUME InviteInv, NEW roles2 \in SUBSET Invited, Len(invitations) < Bound - 1,
           invitations' = Invites!NewInvitation(roles2)
    PROVE  /\ invitations' \in Seq(Invites!AdminInvitations) /\ Len(invitations') <= Bound - 1
           /\ \A i \in DOMAIN invitations : i \in DOMAIN invitations' /\ invitations'[i] = invitations[i]
  BY RowAdded, LimitsAssumption DEF Invites!AdminInvitations, Invites!Statuses,
     Invites!NewInvitation, InviteInv, InviteRows

LEMMA InviteCreates ==
    ASSUME InviteInv, NEW c \in Clients, InviteMoves(c, Invites!Idle), callsOfInvites[c].step = "invite",
           invitations' \in Seq(Invites!AdminInvitations), Len(invitations') <= Bound - 1,
           \A i \in DOMAIN invitations : i \in DOMAIN invitations' /\ invitations'[i] = invitations[i],
           account' \in Invites!AccountStatuses, account # "none" => account' # "none",
           links' \in Seq(Invites!SetupTokens), Len(links') <= Bound, DOMAIN links \subseteq DOMAIN links',
           OnlyLastUnused', UNCHANGED <<granted, agreed, broken>>
    PROVE  InviteInv'
  <1>1. PICK x : x = [step |-> "idle", row |-> 0, todo |-> {}, seen |-> "none"] OBVIOUS
  <1>2. InviteMoves(c, x) BY <1>1, InviteIdleFine
  <1>3. InviteLater BY DEF InviteLater
  <1>4. InviteCallFine(x)' BY <1>1, InviteIdleFine
  <1>5. RolesGranted' BY <1>2, <1>3, <1>4, InviteGrantsStay
  <1>6. /\ callsOfInvites' = [d \in Clients |-> callsOfInvites'[d]]
        /\ \A d \in Clients : InviteCallFine(callsOfInvites[d])'
    BY <1>2, <1>3, <1>4, InviteCallsMove
  <1>7. InviteRows'
    BY <1>3, <1>6 DEF InviteInv, InviteRows, InviteLater, Invites!AdminInvitations, Invites!SetupTokens,
                      Invites!AccountStatuses
  <1> QED BY <1>5, <1>6, <1>7 DEF InviteInv

LEMMA InviteActives ==
    ASSUME InviteInv, NEW c \in Clients, NEW roles2 \in SUBSET Invited, Invites!InviteActive(c, roles2)
    PROVE  InviteInv'
  <1>1. /\ InviteMoves(c, Invites!Idle) /\ callsOfInvites[c].step = "invite"
        /\ Len(invitations) < Bound - 1 /\ invitations' = Invites!NewInvitation(roles2)
        /\ UNCHANGED <<account, links, granted, agreed, broken>>
    BY DEF Invites!InviteActive, Invites!At, Invites!Finish, InviteMoves
  <1>2. /\ invitations' \in Seq(Invites!AdminInvitations) /\ Len(invitations') <= Bound - 1
        /\ \A i \in DOMAIN invitations : i \in DOMAIN invitations' /\ invitations'[i] = invitations[i]
    BY <1>1, InvitationAdded
  <1>3. /\ account' \in Invites!AccountStatuses /\ links' \in Seq(Invites!SetupTokens) /\ Len(links') <= Bound
        /\ OnlyLastUnused' /\ DOMAIN links \subseteq DOMAIN links' /\ (account # "none" => account' # "none")
    BY <1>1 DEF InviteInv, InviteRows, OnlyLastUnused
  <1> QED BY <1>1, <1>2, <1>3, InviteCreates

(* The links before a new one are used up, or there are none.              *)
LEMMA LinkAdded ==
    ASSUME InviteInv, NEW c \in Clients, Invites!SendLink(c)
    PROVE  /\ account' \in Invites!AccountStatuses /\ (account # "none" => account' # "none")
           /\ links' \in Seq(Invites!SetupTokens) /\ Len(links') <= Bound
           /\ DOMAIN links \subseteq DOMAIN links' /\ OnlyLastUnused'
  <1>1. PICK v : v = [used |-> FALSE, late |-> FALSE] OBVIOUS
  <1>2. PICK old : old = IF callsOfInvites[c].seen = "none" THEN links ELSE Invites!RetiredLinks
    OBVIOUS
  <1>3. /\ Len(links) < Bound /\ links' = Append(old, v)
        /\ \/ callsOfInvites[c].seen = "none" /\ account = "none" /\ account' = "PENDING_INVITATION"
           \/ callsOfInvites[c].seen # "none" /\ UNCHANGED account
    BY <1>1, <1>2 DEF Invites!SendLink, Invites!NewLink
  <1>4. account' \in Invites!AccountStatuses /\ account' # "none"
    BY <1>3 DEF InviteInv, InviteRows, InviteCallFine, Invites!AccountStatuses
  <1>5. v \in Invites!SetupTokens /\ links \in Seq(Invites!SetupTokens)
    BY <1>1 DEF InviteInv, InviteRows, Invites!SetupTokens
  <1>6. /\ old \in Seq(Invites!SetupTokens) /\ Len(old) = Len(links) /\ DOMAIN old = DOMAIN links
        /\ \A i \in DOMAIN old : old[i].used
    <2>1. CASE callsOfInvites[c].seen = "none"
      BY <1>2, <1>3, <1>5, <2>1 DEF InviteInv, OnlyLastUnused
    <2>2. CASE callsOfInvites[c].seen # "none"
      <3>1. old = [i \in DOMAIN links |-> [links[i] EXCEPT !.used = TRUE]]
        BY <1>2, <2>2 DEF Invites!RetiredLinks
      <3>2. \A i \in DOMAIN links : links[i] \in Invites!SetupTokens
        BY <1>5, LenProperties, ElementOfSeq
      <3>3. \A i \in DOMAIN links : old[i] \in Invites!SetupTokens /\ old[i].used
        BY <3>1, <3>2 DEF Invites!SetupTokens
      <3>4. old = [i \in DOMAIN links |-> old[i]] BY <3>1
      <3>5. old \in Seq(Invites!SetupTokens) /\ Len(old) = Len(links) /\ DOMAIN old = DOMAIN links
        BY <1>5, <3>3, <3>4, RowsRewritten
      <3> QED BY <3>3, <3>5
    <2> QED BY <2>1, <2>2
  <1>7. /\ Append(old, v) \in Seq(Invites!SetupTokens) /\ Len(Append(old, v)) = Len(old) + 1
        /\ Len(old) \in Nat /\ DOMAIN old = 1..Len(old) /\ DOMAIN Append(old, v) = 1..(Len(old) + 1)
        /\ \A i \in DOMAIN old : Append(old, v)[i] = old[i]
    BY <1>5, <1>6, RowAdded
  <1>8. Len(links') <= Bound /\ Len(links') = Len(old) + 1 BY <1>3, <1>6, <1>7, LimitsAssumption
  <1>9. \A i \in DOMAIN links' : links'[i].used \/ i = Len(links') BY <1>3, <1>6, <1>7, <1>8
  <1>10. OnlyLastUnused' BY <1>4, <1>9 DEF OnlyLastUnused
  <1>11. DOMAIN links \subseteq DOMAIN links' BY <1>3, <1>6, <1>7
  <1> QED BY <1>3, <1>4, <1>7, <1>8, <1>10, <1>11

LEMMA InviteNews ==
    ASSUME InviteInv, NEW c \in Clients, NEW roles2 \in SUBSET Invited, Invites!InviteNew(c, roles2)
    PROVE  InviteInv'
  <1>1. /\ InviteMoves(c, Invites!Idle) /\ callsOfInvites[c].step = "invite" /\ Invites!SendLink(c)
        /\ \/ UNCHANGED invitations
           \/ Len(invitations) < Bound - 1 /\ invitations' = Invites!NewInvitation(roles2)
        /\ UNCHANGED <<granted, agreed, broken>>
    BY DEF Invites!InviteNew, Invites!At, Invites!Finish, InviteMoves
  <1>2. /\ invitations' \in Seq(Invites!AdminInvitations) /\ Len(invitations') <= Bound - 1
        /\ \A i \in DOMAIN invitations : i \in DOMAIN invitations' /\ invitations'[i] = invitations[i]
    BY <1>1, InvitationAdded DEF InviteInv, InviteRows
  <1>3. /\ account' \in Invites!AccountStatuses /\ (account # "none" => account' # "none")
        /\ links' \in Seq(Invites!SetupTokens) /\ Len(links') <= Bound
        /\ DOMAIN links \subseteq DOMAIN links' /\ OnlyLastUnused'
    BY <1>1, LinkAdded
  <1> QED BY <1>1, <1>2, <1>3, InviteCreates

LEMMA InviteAccepts ==
    ASSUME InviteInv, NEW c \in Clients, Invites!Accept(c)
    PROVE  InviteInv'
  <1>0. InviteCallFine(callsOfInvites[c]) BY DEF InviteInv
  <1>1. PICK i : i = callsOfInvites[c].row OBVIOUS
  <1>2. PICK x : x = [callsOfInvites[c] EXCEPT !.step = "grant", !.todo = invitations[i].roles]
    OBVIOUS
  <1>3. /\ InviteMoves(c, x) /\ callsOfInvites[c].step = "accept"
        /\ invitations' = [invitations EXCEPT ![i].status = "ACCEPTED"] /\ agreed' = agreed \cup {i}
        /\ UNCHANGED <<account, links, granted, broken>>
    BY <1>1, <1>2 DEF Invites!Accept, Invites!At, InviteMoves
  <1>4. i \in DOMAIN invitations /\ "ACCEPTED" \in Invites!Statuses
    BY <1>0, <1>1, <1>3 DEF InviteCallFine, Invites!Statuses
  <1>5. /\ invitations' \in Seq(Invites!AdminInvitations) /\ Len(invitations') = Len(invitations)
        /\ DOMAIN invitations' = DOMAIN invitations
        /\ \A j \in DOMAIN invitations :
               /\ invitations'[j].roles = invitations[j].roles
               /\ invitations'[j].status = "PENDING" => invitations[j].status = "PENDING"
        /\ invitations'[i].status = "ACCEPTED"
    BY <1>3, <1>4, InvitationRewritten
  <1>6. InviteLater BY <1>3, <1>5 DEF InviteLater
  <1>7. invitations[i].roles \subseteq Invited
    <2>1. invitations[i] \in Invites!AdminInvitations
      BY <1>4, ElementOfSeq, LenProperties DEF InviteInv, InviteRows
    <2> QED BY <2>1 DEF Invites!AdminInvitations
  <1>8. /\ x \in [step : Invites!Steps, row : Nat, todo : SUBSET Invited, seen : Invites!AccountStatuses]
        /\ x.step = "grant" /\ x.row = i /\ x.todo = invitations[i].roles /\ x.seen = callsOfInvites[c].seen
    BY <1>0, <1>1, <1>2, <1>7 DEF InviteCallFine, Invites!Steps
  <1>9. InviteCallFine(x)' BY <1>0, <1>3, <1>4, <1>5, <1>8 DEF InviteCallFine
  <1>10. /\ callsOfInvites' = [d \in Clients |-> callsOfInvites'[d]] /\ callsOfInvites'[c] = x
         /\ \A d \in Clients : d # c => callsOfInvites'[d] = callsOfInvites[d]
         /\ \A d \in Clients : InviteCallFine(callsOfInvites[d])'
    BY <1>3, <1>6, <1>9, InviteCallsMove
  <1>11. InviteRows' BY <1>3, <1>4, <1>5, <1>10 DEF InviteInv, InviteRows, Invites!AdminInvitations
  <1>12. RolesGranted'
    <2>1. agreed \subseteq DOMAIN invitations BY DEF InviteInv, InviteRows
    <2>2. \A role \in granted : \E j \in agreed' : role \in invitations'[j].roles
      BY <1>3, <1>5, <2>1 DEF InviteInv, RolesGranted
    <2>3. \A j \in agreed' : invitations'[j].status # "PENDING"
      BY <1>3, <1>5, <2>1 DEF InviteInv, RolesGranted
    <2>4. Invites!Granting(i)' BY <1>8, <1>10 DEF Invites!Granting, Invites!At
    <2>5. \A j \in DOMAIN invitations : Invites!Granting(j) => Invites!Granting(j)'
      BY <1>3, <1>10 DEF Invites!Granting, Invites!At
    <2>6. \A j \in agreed' \ broken' : invitations'[j].roles \subseteq granted \/ Invites!Granting(j)'
      BY <1>3, <1>5, <2>1, <2>4, <2>5 DEF InviteInv, RolesGranted
    <2> QED BY <1>3, <2>2, <2>3, <2>6 DEF RolesGranted
  <1>13. OnlyLastUnused' BY <1>3 DEF InviteInv, OnlyLastUnused
  <1> QED BY <1>10, <1>11, <1>12, <1>13 DEF InviteInv

LEMMA InviteGrantsRole ==
    ASSUME InviteInv, NEW c \in Clients, NEW role \in Invited, Invites!GrantRole(c, role)
    PROVE  InviteInv'
  <1>0. InviteCallFine(callsOfInvites[c]) BY DEF InviteInv
  <1>1. PICK i : i = callsOfInvites[c].row OBVIOUS
  <1>2. PICK x : x = [callsOfInvites[c] EXCEPT !.todo = callsOfInvites[c].todo \ {role}] OBVIOUS
  <1>3. /\ InviteMoves(c, x) /\ callsOfInvites[c].step = "grant" /\ role \in callsOfInvites[c].todo
        /\ granted' = granted \cup {role}
        /\ UNCHANGED <<account, invitations, links, agreed, broken>>
    BY <1>2 DEF Invites!GrantRole, Invites!Grant, Invites!At, InviteMoves
  <1>4. i \in agreed /\ callsOfInvites[c].todo \subseteq invitations[i].roles
        /\ invitations[i].roles \ callsOfInvites[c].todo \subseteq granted
    BY <1>0, <1>1, <1>3 DEF InviteCallFine
  <1>5. InviteLater BY <1>3 DEF InviteLater
  <1>6. /\ x \in [step : Invites!Steps, row : Nat, todo : SUBSET Invited, seen : Invites!AccountStatuses]
        /\ x.step = "grant" /\ x.row = i /\ x.todo = callsOfInvites[c].todo \ {role}
        /\ x.seen = callsOfInvites[c].seen
    BY <1>0, <1>1, <1>2, <1>3 DEF InviteCallFine, Invites!Steps
  <1>7. InviteCallFine(x)' BY <1>0, <1>1, <1>3, <1>4, <1>6 DEF InviteCallFine
  <1>8. /\ callsOfInvites' = [d \in Clients |-> callsOfInvites'[d]] /\ callsOfInvites'[c] = x
        /\ \A d \in Clients : d # c => callsOfInvites'[d] = callsOfInvites[d]
        /\ \A d \in Clients : InviteCallFine(callsOfInvites[d])'
    BY <1>3, <1>5, <1>7, InviteCallsMove
  <1>9. InviteRows' BY <1>3, <1>8 DEF InviteInv, InviteRows
  <1>10. \A j : Invites!Granting(j) => Invites!Granting(j)'
    BY <1>1, <1>6, <1>8 DEF Invites!Granting, Invites!At
  <1>11. RolesGranted' BY <1>3, <1>4, <1>10 DEF InviteInv, RolesGranted
  <1>12. OnlyLastUnused' BY <1>3 DEF InviteInv, OnlyLastUnused
  <1> QED BY <1>8, <1>9, <1>11, <1>12 DEF InviteInv

(* A grant that is done has given every role; one that stops is broken.    *)
LEMMA InviteGrantEnds ==
    ASSUME InviteInv, NEW c \in Clients,
           \/ Invites!GrantDone(c)
           \/ Invites!Stop(c) /\ callsOfInvites[c].step = "grant"
    PROVE  InviteInv'
  <1>0. InviteCallFine(callsOfInvites[c]) BY DEF InviteInv
  <1>1. PICK i : i = callsOfInvites[c].row OBVIOUS
  <1>2. PICK x : x = [step |-> "idle", row |-> 0, todo |-> {}, seen |-> "none"] OBVIOUS
  <1>3. /\ InviteMoves(c, x) /\ callsOfInvites[c].step = "grant"
        /\ UNCHANGED <<account, invitations, links, granted, agreed>>
        /\ \/ callsOfInvites[c].todo = {} /\ UNCHANGED broken
           \/ broken' = broken \cup {i}
    BY <1>1, <1>2, InviteIdleFine DEF Invites!GrantDone, Invites!Stop, Invites!Finish, Invites!At, InviteMoves
  <1>4. i \in agreed /\ invitations[i].roles \ callsOfInvites[c].todo \subseteq granted
    BY <1>0, <1>1, <1>3 DEF InviteCallFine
  <1>5. InviteLater BY <1>3 DEF InviteLater
  <1>6. InviteCallFine(x)' BY <1>2, InviteIdleFine
  <1>7. /\ callsOfInvites' = [d \in Clients |-> callsOfInvites'[d]]
        /\ \A d \in Clients : d # c => callsOfInvites'[d] = callsOfInvites[d]
        /\ \A d \in Clients : InviteCallFine(callsOfInvites[d])'
    BY <1>3, <1>5, <1>6, InviteCallsMove
  <1>8. InviteRows' BY <1>3, <1>4, <1>7 DEF InviteInv, InviteRows
  <1>9. \A j : j # i /\ Invites!Granting(j) => Invites!Granting(j)'
    BY <1>1, <1>7 DEF Invites!Granting, Invites!At
  <1>10. RolesGranted' BY <1>3, <1>4, <1>9 DEF InviteInv, RolesGranted
  <1>11. OnlyLastUnused' BY <1>3 DEF InviteInv, OnlyLastUnused
  <1> QED BY <1>7, <1>8, <1>10, <1>11 DEF InviteInv

LEMMA LinkRewritten ==
    ASSUME InviteInv, NEW i \in DOMAIN links, NEW v \in Invites!SetupTokens, v.used \/ v.used = links[i].used,
           links' = [links EXCEPT ![i] = v], account # "none" => account' # "none"
    PROVE  /\ links' \in Seq(Invites!SetupTokens) /\ Len(links') <= Bound /\ DOMAIN links' = DOMAIN links
           /\ OnlyLastUnused'
  BY RowChanged DEF InviteInv, InviteRows, OnlyLastUnused

LEMMA InviteCompletes ==
    ASSUME InviteInv, NEW c \in Clients, Invites!CompleteSetup(c)
    PROVE  InviteInv'
  <1>0. InviteCallFine(callsOfInvites[c]) BY DEF InviteInv
  <1>1. PICK i : i = callsOfInvites[c].row OBVIOUS
  <1>2. PICK x : x = [Invites!Idle EXCEPT !.step = "staff"] OBVIOUS
  <1>3. PICK v : v = [links[i] EXCEPT !.used = TRUE] OBVIOUS
  <1>4. /\ InviteMoves(c, x) /\ callsOfInvites[c].step = "write" /\ account' = "ACTIVE"
        /\ links' = [links EXCEPT ![i] = v]
        /\ UNCHANGED <<invitations, granted, agreed, broken>>
    BY <1>1, <1>2, <1>3 DEF Invites!CompleteSetup, InviteMoves, Invites!At
  <1>5. i \in DOMAIN links BY <1>0, <1>1, <1>4 DEF InviteCallFine
  <1>6. links[i] \in Invites!SetupTokens
    BY <1>5, ElementOfSeq, LenProperties DEF InviteInv, InviteRows
  <1>7. v \in Invites!SetupTokens /\ v.used BY <1>3, <1>6 DEF Invites!SetupTokens
  <1>8. /\ links' \in Seq(Invites!SetupTokens) /\ Len(links') <= Bound /\ DOMAIN links' = DOMAIN links
        /\ OnlyLastUnused'
    BY <1>4, <1>5, <1>7, LinkRewritten
  <1>9. InviteLater BY <1>4, <1>8 DEF InviteLater
  <1>10. InviteCallFine(x)'
    BY <1>2 DEF Invites!Steps, Invites!AccountStatuses, Invites!Idle, InviteCallFine
  <1>11. RolesGranted' BY <1>4, <1>9, <1>10, InviteGrantsStay
  <1>12. /\ callsOfInvites' = [d \in Clients |-> callsOfInvites'[d]]
         /\ \A d \in Clients : InviteCallFine(callsOfInvites[d])'
    BY <1>4, <1>9, <1>10, InviteCallsMove
  <1>13. InviteRows'
    BY <1>4, <1>8, <1>12 DEF InviteInv, InviteRows, Invites!AccountStatuses, Invites!SetupTokens
  <1> QED BY <1>8, <1>11, <1>12, <1>13 DEF InviteInv

(* Steps of no request: the account or the age of a row changes.           *)
LEMMA InviteElsewhere ==
    ASSUME InviteInv,
           \/ \E s \in Invites!AccountStatuses : Invites!ChangeStatus(s)
           \/ \E i \in DOMAIN invitations : Invites!InvitationLate(i)
           \/ \E i \in DOMAIN links : Invites!LinkLate(i)
    PROVE  InviteInv'
  <1>1. UNCHANGED <<granted, callsOfInvites, agreed, broken>>
    BY DEF Invites!ChangeStatus, Invites!InvitationLate, Invites!LinkLate
  <1>2. account' \in Invites!AccountStatuses /\ (account # "none" => account' # "none")
    BY DEF InviteInv, InviteRows, Invites!ChangeStatus, Invites!InvitationLate, Invites!LinkLate
  <1>3. /\ invitations' \in Seq(Invites!AdminInvitations) /\ Len(invitations') <= Bound - 1
        /\ DOMAIN invitations' = DOMAIN invitations
        /\ \A j \in DOMAIN invitations :
               invitations'[j].roles = invitations[j].roles /\ invitations'[j].status = invitations[j].status
    <2>1. CASE UNCHANGED invitations BY <2>1 DEF InviteInv, InviteRows
    <2>2. ASSUME NEW i \in DOMAIN invitations, Invites!InvitationLate(i)
          PROVE  /\ invitations' \in Seq(Invites!AdminInvitations) /\ Len(invitations') <= Bound - 1
                 /\ DOMAIN invitations' = DOMAIN invitations
                 /\ \A j \in DOMAIN invitations :
                        invitations'[j].roles = invitations[j].roles /\ invitations'[j].status = invitations[j].status
      <3>1. PICK v : v = [invitations[i] EXCEPT !.late = TRUE] OBVIOUS
      <3>2. invitations' = [invitations EXCEPT ![i] = v] /\ invitations \in Seq(Invites!AdminInvitations)
        BY <2>2, <3>1 DEF Invites!InvitationLate, InviteInv, InviteRows
      <3>3. invitations[i] \in Invites!AdminInvitations BY <3>2, ElementOfSeq, LenProperties
      <3>4. v \in Invites!AdminInvitations /\ v.roles = invitations[i].roles /\ v.status = invitations[i].status
        BY <3>1, <3>3 DEF Invites!AdminInvitations
      <3>5. /\ invitations' \in Seq(Invites!AdminInvitations) /\ Len(invitations') = Len(invitations)
            /\ DOMAIN invitations' = DOMAIN invitations
            /\ \A j \in DOMAIN invitations : invitations'[j] = IF j = i THEN v ELSE invitations[j]
        BY <3>2, <3>4, RowChanged
      <3> QED BY <3>4, <3>5 DEF InviteInv, InviteRows
    <2> QED BY <2>1, <2>2 DEF Invites!ChangeStatus, Invites!LinkLate
  <1>4. /\ links' \in Seq(Invites!SetupTokens) /\ Len(links') <= Bound /\ DOMAIN links' = DOMAIN links
        /\ OnlyLastUnused'
    <2>1. CASE UNCHANGED links BY <1>2, <2>1 DEF InviteInv, OnlyLastUnused, InviteRows
    <2>2. ASSUME NEW i \in DOMAIN links, Invites!LinkLate(i)
          PROVE  /\ links' \in Seq(Invites!SetupTokens) /\ Len(links') <= Bound /\ DOMAIN links' = DOMAIN links
                 /\ OnlyLastUnused'
      <3>1. PICK v : v = [links[i] EXCEPT !.late = TRUE] OBVIOUS
      <3>2. links' = [links EXCEPT ![i] = v] BY <2>2, <3>1 DEF Invites!LinkLate
      <3>3. links[i] \in Invites!SetupTokens
        BY ElementOfSeq, LenProperties DEF InviteInv, InviteRows
      <3>4. v \in Invites!SetupTokens /\ v.used = links[i].used
        BY <3>1, <3>3 DEF Invites!SetupTokens
      <3> QED BY <1>2, <3>2, <3>4, LinkRewritten
    <2> QED BY <2>1, <2>2 DEF Invites!ChangeStatus, Invites!InvitationLate
  <1>5. InviteLater BY <1>1, <1>2, <1>3, <1>4 DEF InviteLater
  <1>6. \A c \in Clients : InviteCallFine(callsOfInvites[c])'
    BY <1>1, <1>5, InviteCallLater DEF InviteInv, InviteCallFine
  <1>7. InviteRows'
    BY <1>1, <1>2, <1>3, <1>4 DEF InviteInv, InviteRows, Invites!AccountStatuses, Invites!AdminInvitations,
                                  Invites!SetupTokens
  <1>8. RolesGranted'
    BY <1>1, <1>3 DEF InviteInv, InviteRows, Invites!Granting, Invites!At, RolesGranted
  <1> QED BY <1>4, <1>6, <1>7, <1>8 DEF InviteInv

LEMMA InvitesNext == InviteInv /\ Invites!Next => InviteInv'
  <1>1. ASSUME InviteInv, NEW c \in Clients,
               \/ Invites!ReadAccount(c) \/ Invites!Revoke(c) \/ Invites!Accept(c) \/ Invites!GrantDone(c)
               \/ Invites!CompleteSetup(c) \/ Invites!AnswerStaff(c) \/ Invites!NothingPending(c) \/ Invites!Stop(c)
        PROVE  InviteInv'
    BY <1>1, InviteStarts, InviteRevokes, InviteAccepts, InviteGrantEnds, InviteCompletes, InviteEnds
  <1>2. ASSUME InviteInv, NEW c \in Clients, NEW roles2 \in SUBSET Invited,
               Invites!InviteActive(c, roles2) \/ Invites!InviteNew(c, roles2)
        PROVE  InviteInv'
    BY <1>2, InviteActives, InviteNews
  <1>3. ASSUME InviteInv, NEW c \in Clients, NEW role \in Invited, Invites!GrantRole(c, role) PROVE InviteInv'
    BY <1>3, InviteGrantsRole
  <1>4. ASSUME InviteInv, NEW c \in Clients, NEW i \in DOMAIN invitations,
               Invites!ReadForRevoke(c, i) \/ Invites!ReadToAccept(c, i)
        PROVE  InviteInv'
    BY <1>4, InviteStarts, InviteReadsToAccept
  <1>5. ASSUME InviteInv, NEW c \in Clients, NEW i \in DOMAIN links, Invites!ReadLink(c, i) PROVE InviteInv'
    BY <1>5, InviteStarts
  <1> QED BY <1>1, <1>2, <1>3, <1>4, <1>5, InviteElsewhere DEF Invites!Next

LEMMA InviteInvSays ==
    InviteInv => Invites!TypeOK /\ Invites!InvitationsGrantRoles /\ Invites!WorkingLinksBounded
  <1> SUFFICES ASSUME InviteInv
               PROVE  Invites!TypeOK /\ Invites!InvitationsGrantRoles /\ Invites!WorkingLinksBounded
    OBVIOUS
  <1>1. Invites!TypeOK BY DEF InviteInv, InviteRows, InviteCallFine, Invites!TypeOK
  <1>2. Invites!InvitationsGrantRoles
    BY DEF InviteInv, RolesGranted, Invites!InvitationsGrantRoles, Invites!Pending
  <1>3. ASSUME NEW working, working = {i \in DOMAIN links : Invites!Effective(i)}
        PROVE  Cardinality(working) <= Cardinality(Clients)
    <2>1. working \subseteq {Len(links)} BY <1>3 DEF InviteInv, OnlyLastUnused, Invites!Effective
    <2>2. IsFiniteSet({Len(links)}) /\ Cardinality({Len(links)}) = 1 BY FS_Singleton
    <2>3. Cardinality(working) <= 1 /\ Cardinality(working) \in Nat
      BY <2>1, <2>2, FS_Subset, FS_CardinalityType
    <2>4. Cardinality(Clients) \in Nat /\ Cardinality(Clients) # 0
      BY ClientsAssumption, FS_CardinalityType, FS_EmptySet
    <2> QED BY <2>3, <2>4
  <1>4. \A S : Invites!Cardinality(S) = Cardinality(S)
    BY DEF Invites!Cardinality, Invites!IsFiniteSet, Cardinality, IsFiniteSet
  <1>5. account # "PENDING_INVITATION" => {i \in DOMAIN links : Invites!Effective(i)} = {}
    BY DEF Invites!Effective
  <1>6. Invites!WorkingLinksBounded BY <1>3, <1>4, <1>5 DEF Invites!WorkingLinksBounded
  <1> QED BY <1>1, <1>2, <1>6
-----------------------------------------------------------------------------
(* Logins and sessions.  No two sessions have one token and one that a     *)
(* login has still to store is nobody's; a request to end sessions that    *)
(* ended them first finds them ended, for no session comes back.           *)
LoginRequests == [step : Logins!Steps, failed : Nat, locked : Logins!Locks, token : Nat, session : Nat,
                  todo : SUBSET (1..Bound), due : SUBSET (1..Bound), first : BOOLEAN]
LoginIdle == [step |-> "idle", failed |-> 0, locked |-> "no", token |-> 0,
              session |-> 0, todo |-> {}, due |-> {}, first |-> FALSE]

LoginCallFine(x) ==
    /\ x \in LoginRequests
    /\ x.step = "fail" => (x.locked # "no" <=> x.failed >= MaxFailed)
    /\ x.step \in {"open", "blacklist", "terminate"} => x.token \in DOMAIN tokens
    /\ x.step \in {"blacklist", "terminate"} => x.session \in DOMAIN sessions
    /\ x.step = "blacklistAll" => x.todo \subseteq DOMAIN tokens
    /\ x.due \subseteq DOMAIN sessions
    /\ x.first /\ x.step \in {"list", "blacklistAll"} => \A s \in x.due : ~ sessions[s].active

LoginRows ==
    /\ failed \in Nat /\ locked \in Logins!Locks
    /\ tokens \in Seq(Logins!Tokens) /\ Len(tokens) <= Bound
    /\ sessions \in Seq(Logins!SessionRows)
    /\ requests = [c \in Clients |-> requests[c]]
    /\ closed \subseteq DOMAIN sessions

LockFollows == locked # "no" <=> failed >= MaxFailed
ExchangedOnce == \A t \in DOMAIN tokens :
    tokens[t].rotated <= 1 /\ (tokens[t].rotated = 1 => tokens[t].blacklisted)
ClosedEnded == \A s \in closed : ~ sessions[s].active

OwnToken ==
    /\ \A s \in DOMAIN sessions : sessions[s].jti \in DOMAIN tokens
    /\ \A r, s \in DOMAIN sessions : sessions[r].jti = sessions[s].jti => r = s
    /\ \A c \in Clients : requests[c].step = "open" =>
           /\ \A s \in DOMAIN sessions : sessions[s].jti # requests[c].token
           /\ \A d \in Clients : requests[d].step = "open" /\ requests[d].token = requests[c].token => d = c

LoginInv ==
    /\ LoginRows /\ (\A c \in Clients : LoginCallFine(requests[c]))
    /\ LockFollows /\ ExchangedOnce /\ OwnToken /\ ClosedEnded

(* What a step never undoes.                                               *)
LoginLater ==
    /\ DOMAIN tokens \subseteq DOMAIN tokens' /\ DOMAIN sessions \subseteq DOMAIN sessions'
    /\ \A s \in DOMAIN sessions : sessions'[s].active => sessions[s].active
LoginMoves(c, x) == requests' = [requests EXCEPT ![c] = x]

LEMMA LoginIdleFine == Logins!Idle = LoginIdle /\ LoginCallFine(LoginIdle) /\ LoginCallFine(LoginIdle)'
  <1>1. PICK x : x = LoginIdle OBVIOUS
  <1>2. x \in LoginRequests /\ x.step = "idle" /\ x.due = {}
    BY <1>1 DEF LoginIdle, LoginRequests, Logins!Steps, Logins!Locks
  <1>3. LoginCallFine(x) /\ LoginCallFine(x)' BY <1>2 DEF LoginCallFine
  <1> QED BY <1>1, <1>3 DEF Logins!Idle, LoginIdle, LoginCallFine

LEMMA LoginCallLater == \A x : LoginLater /\ LoginCallFine(x) => LoginCallFine(x)'
  BY DEF LoginLater, LoginCallFine

LEMMA LoginCallsMove ==
    ASSUME LoginInv, LoginLater, NEW c \in Clients, NEW x, LoginMoves(c, x), LoginCallFine(x)'
    PROVE  /\ requests' = [d \in Clients |-> requests'[d]] /\ requests'[c] = x
           /\ \A d \in Clients : d # c => requests'[d] = requests[d]
           /\ \A d \in Clients : LoginCallFine(requests[d])'
  <1>1. requests' = [d \in Clients |-> IF d = c THEN x ELSE requests[d]]
    BY DEF LoginInv, LoginRows, LoginMoves
  <1>2. ASSUME NEW d \in Clients PROVE LoginCallFine(requests[d])'
    <2>1. CASE d = c BY <1>1, <2>1 DEF LoginCallFine
    <2>2. CASE d # c BY <1>1, <2>2, LoginCallLater DEF LoginInv, LoginCallFine
    <2> QED BY <2>1, <2>2
  <1> QED BY <1>1, <1>2

LEMMA LoginsInit == Logins!Init => LoginInv
  <1> SUFFICES ASSUME Logins!Init PROVE LoginInv OBVIOUS
  <1>1. /\ failed = 0 /\ locked = "no" /\ tokens = << >> /\ sessions = << >> /\ closed = {}
        /\ requests = [c \in Clients |-> LoginIdle]
    BY LoginIdleFine DEF Logins!Init
  <1>2. /\ tokens \in Seq(Logins!Tokens) /\ Len(tokens) = 0 /\ DOMAIN tokens = {}
        /\ sessions \in Seq(Logins!SessionRows) /\ DOMAIN sessions = {}
    BY <1>1
  <1>3. \A c \in Clients : LoginCallFine(requests[c]) BY <1>1, LoginIdleFine
  <1>4. LoginRows BY <1>1, <1>2, LimitsAssumption DEF LoginRows, Logins!Locks
  <1>5. OwnToken BY <1>1, <1>2 DEF OwnToken, LoginIdle
  <1>6. LockFollows BY <1>1, LimitsAssumption DEF LockFollows
  <1> QED BY <1>1, <1>2, <1>3, <1>4, <1>5, <1>6 DEF LoginInv, ExchangedOnce, ClosedEnded

LEMMA LoginsStutter == LoginInv /\ UNCHANGED loginsVars => LoginInv'
  <1> SUFFICES ASSUME LoginInv, UNCHANGED loginsVars PROVE LoginInv' OBVIOUS
  <1>1. /\ failed' = failed /\ locked' = locked /\ tokens' = tokens /\ sessions' = sessions
        /\ requests' = requests /\ closed' = closed
    BY DEF loginsVars
  <1>2. LoginRows' /\ LockFollows' /\ ExchangedOnce' /\ OwnToken' /\ ClosedEnded'
    BY <1>1 DEF LoginInv, LoginRows, LockFollows, ExchangedOnce, OwnToken, ClosedEnded
  <1>3. \A c \in Clients : LoginCallFine(requests[c])' BY <1>1 DEF LoginInv, LoginCallFine
  <1> QED BY <1>2, <1>3 DEF LoginInv

(* There are no more sessions than tokens.                                 *)
LEMMA SessionsFit == LoginInv => DOMAIN sessions \subseteq 1..Bound /\ DOMAIN sessions \subseteq Nat
  <1> SUFFICES ASSUME LoginInv PROVE DOMAIN sessions \subseteq 1..Bound OBVIOUS
  <1>1. /\ DOMAIN sessions = 1..Len(sessions) /\ Len(sessions) \in Nat
        /\ DOMAIN tokens = 1..Len(tokens) /\ Len(tokens) \in Nat /\ Len(tokens) <= Bound
    BY LenProperties DEF LoginInv, LoginRows
  <1> DEFINE f == [s \in DOMAIN sessions |-> sessions[s].jti]
  <1>2. f \in Injection(1..Len(sessions), 1..Len(tokens))
    BY <1>1 DEF LoginInv, OwnToken, Injection, IsInjective
  <1>3. /\ IsFiniteSet(1..Len(tokens)) /\ Cardinality(1..Len(tokens)) = Len(tokens)
        /\ Cardinality(1..Len(sessions)) = Len(sessions)
    <2>1. \A n \in Nat : IsFiniteSet(1..n) /\ Cardinality(1..n) = IF 1 > n THEN 0 ELSE n - 1 + 1
      BY FS_Interval
    <2> QED BY <1>1, <2>1
  <1> HIDE DEF f
  <1>4. Len(sessions) <= Len(tokens) BY <1>2, <1>3, FS_Injection
  <1> QED BY <1>1, <1>4, LimitsAssumption

(* Steps that keep the rows of both tables: tokens are only blacklisted    *)
(* and sessions only ended.                                                *)
LoginTablesKept ==
    /\ tokens' \in Seq(Logins!Tokens) /\ DOMAIN tokens' = DOMAIN tokens /\ Len(tokens') = Len(tokens)
    /\ \A t \in DOMAIN tokens : /\ tokens'[t].rotated = tokens[t].rotated
                                /\ tokens[t].blacklisted => tokens'[t].blacklisted
    /\ sessions' \in Seq(Logins!SessionRows) /\ DOMAIN sessions' = DOMAIN sessions
    /\ \A s \in DOMAIN sessions : /\ sessions'[s].jti = sessions[s].jti
                                  /\ sessions'[s].active => sessions[s].active
LoginLocksKept == failed' \in Nat /\ locked' \in Logins!Locks /\ LockFollows'
LoginClosedKept == closed' \subseteq DOMAIN sessions /\ ClosedEnded'

LEMMA LoginMoved ==
    ASSUME LoginInv, NEW c \in Clients, NEW x, LoginMoves(c, x), LoginCallFine(x)', x.step # "open",
           LoginTablesKept, LoginLocksKept, LoginClosedKept
    PROVE  LoginInv'
  <1>1. LoginLater BY DEF LoginLater, LoginTablesKept
  <1>2. /\ requests' = [d \in Clients |-> requests'[d]] /\ requests'[c] = x
        /\ \A d \in Clients : d # c => requests'[d] = requests[d]
        /\ \A d \in Clients : LoginCallFine(requests[d])'
    BY <1>1, LoginCallsMove
  <1>3. LoginRows' BY <1>2 DEF LoginInv, LoginRows, LoginTablesKept, LoginLocksKept, LoginClosedKept
  <1>4. ExchangedOnce' BY DEF LoginInv, ExchangedOnce, LoginTablesKept
  <1>5. OwnToken' BY <1>2 DEF LoginInv, OwnToken, LoginTablesKept
  <1> QED BY <1>2, <1>3, <1>4, <1>5 DEF LoginInv, LoginLocksKept, LoginClosedKept

(* A request that only reads.                                              *)
LEMMA LoginReads ==
    ASSUME LoginInv, NEW c \in Clients, NEW x, LoginMoves(c, x), LoginCallFine(x), x.step # "open",
           UNCHANGED <<tokens, sessions, closed>>, LoginLocksKept
    PROVE  LoginInv'
  <1>1. LoginLater /\ LoginTablesKept /\ LoginClosedKept
    BY DEF LoginLater, LoginTablesKept, LoginClosedKept, LoginInv, LoginRows, ClosedEnded
  <1>2. LoginCallFine(x)' BY <1>1, LoginCallLater
  <1> QED BY <1>1, <1>2, LoginMoved

LEMMA LoginFails ==
    ASSUME LoginInv, NEW c \in Clients,
           Logins!Login(c) \/ Logins!WrongPassword(c) \/ Logins!RightPassword(c) \/ Logins!RecordFailedAttempt(c)
    PROVE  LoginInv'
  <1>0. /\ LoginCallFine(requests[c]) /\ requests[c] \in LoginRequests
        /\ failed \in Nat /\ locked \in Logins!Locks /\ LockFollows
    BY DEF LoginInv, LoginRows, LoginCallFine
  <1>1. CASE Logins!Login(c)
    <2>1. PICK x : x = [requests[c] EXCEPT !.step = "authenticate"] OBVIOUS
    <2>2. LoginMoves(c, x) /\ UNCHANGED <<tokens, sessions, closed>>
      BY <1>1, <2>1 DEF Logins!Login, Logins!Goto, LoginMoves
    <2>3. LoginCallFine(x) /\ x.step # "open"
      BY <1>0, <2>1 DEF LoginCallFine, LoginRequests, Logins!Steps
    <2>4. LoginLocksKept
      BY <1>0, <1>1, LimitsAssumption DEF Logins!Login, LoginLocksKept, LockFollows, Logins!Locks
    <2> QED BY <2>2, <2>3, <2>4, LoginReads
  <1>2. CASE Logins!WrongPassword(c)
    <2>1. PICK x : x = [requests[c] EXCEPT !.step = "fail", !.failed = failed, !.locked = locked]
      OBVIOUS
    <2>2. LoginMoves(c, x) /\ UNCHANGED <<tokens, sessions, closed, failed, locked>>
      BY <1>2, <2>1 DEF Logins!WrongPassword, LoginMoves
    <2>3. LoginCallFine(x) /\ x.step # "open"
      BY <1>0, <2>1 DEF LoginCallFine, LoginRequests, Logins!Steps, LockFollows
    <2>4. LoginLocksKept BY <1>0, <2>2 DEF LoginLocksKept, LockFollows
    <2> QED BY <2>2, <2>3, <2>4, LoginReads
  <1>3. CASE Logins!RightPassword(c)
    <2>1. PICK x : x = [requests[c] EXCEPT !.step = "issue"] OBVIOUS
    <2>2. LoginMoves(c, x) /\ UNCHANGED <<tokens, sessions, closed>>
      BY <1>3, <2>1 DEF Logins!RightPassword, Logins!Goto, LoginMoves
    <2>3. LoginCallFine(x) /\ x.step # "open"
      BY <1>0, <2>1 DEF LoginCallFine, LoginRequests, Logins!Steps
    <2>4. LoginLocksKept
      BY <1>0, <1>3, LimitsAssumption DEF Logins!RightPassword, LoginLocksKept, LockFollows, Logins!Locks
    <2> QED BY <2>2, <2>3, <2>4, LoginReads
  <1>4. CASE Logins!RecordFailedAttempt(c)
    <2>1. PICK x : x = LoginIdle OBVIOUS
    <2>2. /\ LoginMoves(c, x) /\ UNCHANGED <<tokens, sessions, closed>> /\ requests[c].step = "fail"
          /\ failed' = requests[c].failed + 1
          /\ locked' = IF requests[c].failed + 1 >= MaxFailed THEN "yes" ELSE requests[c].locked
      BY <1>4, <2>1, LoginIdleFine DEF Logins!RecordFailedAttempt, Logins!Record, Logins!RecordCounts,
                                       Logins!At, Logins!Finish, LoginMoves
    <2>3. LoginCallFine(x) /\ x.step # "open" BY <2>1, LoginIdleFine DEF LoginIdle
    <2>4. requests[c].failed \in Nat /\ requests[c].locked \in Logins!Locks
      BY <1>0 DEF LoginRequests
    <2>5. requests[c].locked # "no" <=> requests[c].failed >= MaxFailed
      BY <1>0, <2>2 DEF LoginCallFine
    <2>6. LoginLocksKept
      BY <2>2, <2>4, <2>5, LimitsAssumption DEF LoginLocksKept, LockFollows, Logins!Locks
    <2> QED BY <2>2, <2>3, <2>6, LoginReads
  <1> QED BY <1>1, <1>2, <1>3, <1>4

LEMMA LoginStarts ==
    ASSUME LoginInv, NEW c \in Clients,
           \/ \E s \in DOMAIN sessions : Logins!LogoutFind(c, s)
           \/ Logins!LogoutAll(c) \/ Logins!InvalidateUserSessions(c) \/ Logins!ListTokens(c)
    PROVE  LoginInv'
  <1>0. /\ LoginCallFine(requests[c]) /\ requests[c] \in LoginRequests
        /\ DOMAIN tokens \subseteq 1..Bound /\ DOMAIN tokens \subseteq Nat /\ LoginRows
        /\ DOMAIN sessions \subseteq 1..Bound /\ DOMAIN sessions \subseteq Nat
    BY LenProperties, SessionsFit, LimitsAssumption DEF LoginInv, LoginRows, LoginCallFine
  <1>1. UNCHANGED <<failed, locked>> => LoginLocksKept
    BY DEF LoginInv, LoginRows, LoginLocksKept, LockFollows
  <1>2. ASSUME NEW s \in DOMAIN sessions, Logins!LogoutFind(c, s) PROVE LoginInv'
    <2>1. PICK x : x = [requests[c] EXCEPT !.step = "blacklist", !.session = s, !.token = sessions[s].jti]
      OBVIOUS
    <2>2. LoginMoves(c, x) /\ UNCHANGED <<tokens, sessions, closed, failed, locked>>
      BY <1>2, <2>1 DEF Logins!LogoutFind, LoginMoves
    <2>3. sessions[s].jti \in DOMAIN tokens BY DEF LoginInv, OwnToken
    <2>4. LoginCallFine(x) /\ x.step # "open"
      BY <1>0, <2>1, <2>3 DEF LoginCallFine, LoginRequests, Logins!Steps
    <2> QED BY <1>1, <2>2, <2>4, LoginReads
  <1>3. ASSUME NEW step \in {"list", "terminateAll"}, Logins!EndAll(c, step) PROVE LoginInv'
    <2>1. PICK x : x = [requests[c] EXCEPT !.step = step, !.due = DOMAIN sessions, !.first = step = "terminateAll"]
      OBVIOUS
    <2>2. LoginMoves(c, x) /\ UNCHANGED <<tokens, sessions, closed, failed, locked>>
      BY <1>3, <2>1 DEF Logins!EndAll, LoginMoves
    <2>3. /\ x.step = step /\ x.due = DOMAIN sessions /\ x.first = (step = "terminateAll")
          /\ x \in LoginRequests
      BY <1>0, <2>1 DEF LoginRequests, Logins!Steps
    <2>4. LoginCallFine(x) /\ x.step # "open" BY <2>3 DEF LoginCallFine
    <2> QED BY <1>1, <2>2, <2>4, LoginReads
  <1>4. CASE Logins!ListTokens(c)
    <2>1. PICK x : x = [requests[c] EXCEPT !.step = "blacklistAll", !.todo = {t \in DOMAIN tokens : tokens[t].listed}]
      OBVIOUS
    <2>2. LoginMoves(c, x) /\ UNCHANGED <<tokens, sessions, closed, failed, locked>> /\ requests[c].step = "list"
      BY <1>4, <2>1 DEF Logins!ListTokens, Logins!At, LoginMoves
    <2>3. {t \in DOMAIN tokens : tokens[t].listed} \in SUBSET (1..Bound) BY <1>0
    <2>4. /\ x.step = "blacklistAll" /\ x.due = requests[c].due /\ x.first = requests[c].first
          /\ x.todo = {t \in DOMAIN tokens : tokens[t].listed} /\ x \in LoginRequests
      BY <1>0, <2>1, <2>3 DEF LoginRequests, Logins!Steps
    <2>5. LoginCallFine(x) /\ x.step # "open" BY <1>0, <2>2, <2>4 DEF LoginCallFine
    <2> QED BY <1>1, <2>2, <2>5, LoginReads
  <1> QED BY <1>2, <1>3, <1>4 DEF Logins!LogoutAll, Logins!InvalidateUserSessions

LEMMA LoginEnds ==
    ASSUME LoginInv, NEW c \in Clients, Logins!BlacklistDone(c) \/ Logins!Stop(c)
    PROVE  LoginInv'
  <1>0. /\ LoginCallFine(requests[c]) /\ requests[c] \in LoginRequests /\ LoginRows
        /\ LoginLocksKept /\ UNCHANGED <<tokens, sessions>>
    BY DEF LoginInv, LoginRows, LoginCallFine, LoginLocksKept, LockFollows, Logins!BlacklistDone, Logins!Stop
  <1>1. LoginLater /\ LoginTablesKept BY <1>0 DEF LoginLater, LoginTablesKept, LoginRows
  <1>2. PICK x : x = IF Logins!Stop(c) \/ requests[c].first THEN LoginIdle
                     ELSE [requests[c] EXCEPT !.step = "terminateAll"]
    OBVIOUS
  <1>3. LoginMoves(c, x)
    BY <1>2, LoginIdleFine DEF Logins!BlacklistDone, Logins!Stop, Logins!Finish, Logins!Goto, LoginMoves
  <1>4. LoginCallFine(x) /\ x.step # "open"
    BY <1>0, <1>2, LoginIdleFine DEF LoginCallFine, LoginRequests, Logins!Steps, LoginIdle
  <1>5. \/ closed' = closed
        \/ Logins!At(c, "blacklistAll") /\ requests[c].first /\ closed' = closed \cup requests[c].due
    BY DEF Logins!BlacklistDone, Logins!Stop
  <1>6. LoginClosedKept
    BY <1>0, <1>5 DEF LoginClosedKept, LoginInv, LoginRows, ClosedEnded, LoginCallFine, Logins!At
  <1>7. LoginCallFine(x)' BY <1>1, <1>4, LoginCallLater
  <1> QED BY <1>0, <1>1, <1>3, <1>4, <1>6, <1>7, LoginMoved

(* A token is blacklisted.                                                 *)
LEMMA TokenBlacklisted ==
    ASSUME LoginInv, NEW t \in DOMAIN tokens, tokens' = [tokens EXCEPT ![t].blacklisted = TRUE],
           UNCHANGED sessions
    PROVE  LoginTablesKept
  <1>1. PICK v : v = [tokens[t] EXCEPT !.blacklisted = TRUE] OBVIOUS
  <1>2. tokens' = [tokens EXCEPT ![t] = v] /\ tokens \in Seq(Logins!Tokens)
    BY <1>1 DEF LoginInv, LoginRows
  <1>3. tokens[t] \in Logins!Tokens BY <1>2, ElementOfSeq, LenProperties
  <1>4. v \in Logins!Tokens /\ v.rotated = tokens[t].rotated /\ v.blacklisted
    BY <1>1, <1>3 DEF Logins!Tokens
  <1>5. /\ tokens' \in Seq(Logins!Tokens) /\ Len(tokens') = Len(tokens) /\ DOMAIN tokens' = DOMAIN tokens
        /\ \A j \in DOMAIN tokens : tokens'[j] = IF j = t THEN v ELSE tokens[j]
    <2>1. PICK new : new = [tokens EXCEPT ![t] = v] OBVIOUS
    <2>2. /\ new \in Seq(Logins!Tokens) /\ Len(new) = Len(tokens) /\ DOMAIN new = DOMAIN tokens
          /\ \A j \in DOMAIN tokens : new[j] = IF j = t THEN v ELSE tokens[j]
      BY <1>2, <1>4, <2>1, RowChanged
    <2>3. tokens' = new BY <1>2, <2>1
    <2> QED BY <2>2, <2>3
  <1> QED BY <1>4, <1>5 DEF LoginTablesKept, LoginInv, LoginRows

LEMMA LoginBlacklists ==
    ASSUME LoginInv, NEW c \in Clients,
           Logins!LogoutBlacklist(c) \/ \E t \in DOMAIN tokens : Logins!BlacklistOne(c, t)
    PROVE  LoginInv'
  <1>0. /\ LoginCallFine(requests[c]) /\ requests[c] \in LoginRequests /\ LoginRows
    BY DEF LoginInv, LoginCallFine
  <1>1. UNCHANGED <<failed, locked>> => LoginLocksKept
    BY DEF LoginInv, LoginRows, LoginLocksKept, LockFollows
  <1>2. UNCHANGED <<sessions, closed>> => LoginClosedKept
    BY DEF LoginInv, LoginRows, LoginClosedKept, ClosedEnded
  <1>3. LoginTablesKept /\ UNCHANGED sessions => LoginLater BY DEF LoginTablesKept, LoginLater
  <1>4. CASE Logins!LogoutBlacklist(c)
    <2>1. PICK x : x = LoginIdle OBVIOUS
    <2>2. PICK y : y = [requests[c] EXCEPT !.step = "terminate"] OBVIOUS
    <2>3. /\ requests[c].step = "blacklist" /\ UNCHANGED <<failed, locked, sessions, closed>>
          /\ \/ LoginMoves(c, x) /\ UNCHANGED tokens
             \/ LoginMoves(c, y) /\ tokens' = [tokens EXCEPT ![requests[c].token].blacklisted = TRUE]
      BY <1>4, <2>1, <2>2, LoginIdleFine DEF Logins!LogoutBlacklist, Logins!At, Logins!Finish, Logins!Goto, LoginMoves
    <2>4. LoginCallFine(x) /\ x.step # "open" BY <2>1, LoginIdleFine DEF LoginIdle
    <2>5. LoginCallFine(y) /\ y.step # "open" /\ requests[c].token \in DOMAIN tokens
      BY <1>0, <2>2, <2>3 DEF LoginCallFine, LoginRequests, Logins!Steps
    <2>6. CASE LoginMoves(c, x) /\ UNCHANGED tokens BY <1>1, <2>3, <2>4, <2>6, LoginReads
    <2>7. CASE LoginMoves(c, y) /\ tokens' = [tokens EXCEPT ![requests[c].token].blacklisted = TRUE]
      <3>1. LoginTablesKept BY <2>3, <2>5, <2>7, TokenBlacklisted
      <3>2. LoginCallFine(y)' BY <1>3, <2>3, <2>5, <3>1, LoginCallLater
      <3> QED BY <1>1, <1>2, <2>3, <2>5, <2>7, <3>1, <3>2, LoginMoved
    <2> QED BY <2>3, <2>6, <2>7
  <1>5. ASSUME NEW t \in DOMAIN tokens, Logins!BlacklistOne(c, t) PROVE LoginInv'
    <2>1. PICK x : x = [requests[c] EXCEPT !.todo = @ \ {t}] OBVIOUS
    <2>2. /\ LoginMoves(c, x) /\ UNCHANGED <<failed, locked, sessions, closed>>
          /\ requests[c].step = "blacklistAll" /\ tokens' = [tokens EXCEPT ![t].blacklisted = TRUE]
      BY <1>5, <2>1 DEF Logins!BlacklistOne, Logins!At, LoginMoves
    <2>3. /\ x.step = requests[c].step /\ x.due = requests[c].due /\ x.first = requests[c].first
          /\ x.todo = requests[c].todo \ {t} /\ x \in LoginRequests
      BY <1>0, <2>1 DEF LoginRequests
    <2>4. LoginCallFine(x) /\ x.step # "open" BY <1>0, <2>2, <2>3 DEF LoginCallFine
    <2>5. LoginTablesKept BY <2>2, TokenBlacklisted
    <2>6. LoginCallFine(x)' BY <1>3, <2>2, <2>4, <2>5, LoginCallLater
    <2> QED BY <1>1, <1>2, <2>2, <2>4, <2>5, <2>6, LoginMoved
  <1> QED BY <1>4, <1>5

(* Sessions are ended.                                                     *)
LEMMA SessionsEnded ==
    ASSUME LoginInv, NEW R, sessions' = Logins!Ended(R), UNCHANGED tokens
    PROVE  LoginTablesKept /\ \A s \in DOMAIN sessions : s \in R => ~ sessions'[s].active
  <1>1. sessions \in Seq(Logins!SessionRows) BY DEF LoginInv, LoginRows
  <1>2. \A s \in DOMAIN sessions : sessions[s] \in Logins!SessionRows
    BY <1>1, ElementOfSeq, LenProperties
  <1>3. sessions' = [s \in DOMAIN sessions |-> [sessions[s] EXCEPT !.active = @ /\ s \notin R]]
    BY DEF Logins!Ended
  <1>4. PICK new : new = [s \in DOMAIN sessions |-> [sessions[s] EXCEPT !.active = @ /\ s \notin R]]
    OBVIOUS
  <1>5. \A s \in DOMAIN sessions : /\ new[s] \in Logins!SessionRows /\ new[s].jti = sessions[s].jti
                                   /\ new[s].active = (sessions[s].active /\ s \notin R)
    BY <1>2, <1>4 DEF Logins!SessionRows
  <1>6. new = [s \in DOMAIN sessions |-> new[s]] BY <1>4
  <1>7. new \in Seq(Logins!SessionRows) /\ DOMAIN new = DOMAIN sessions
    BY <1>1, <1>5, <1>6, RowsRewritten
  <1>8. sessions' = new BY <1>3, <1>4
  <1> QED BY <1>5, <1>7, <1>8 DEF LoginTablesKept, LoginInv, LoginRows

LEMMA LoginTerminates ==
    ASSUME LoginInv, NEW c \in Clients, Logins!LogoutTerminate(c) \/ Logins!TerminateUserSessions(c)
    PROVE  LoginInv'
  <1>0. /\ LoginCallFine(requests[c]) /\ requests[c] \in LoginRequests /\ LoginRows /\ ClosedEnded
        /\ LoginLocksKept /\ UNCHANGED tokens
    BY DEF LoginInv, LoginRows, LoginCallFine, LoginLocksKept, LockFollows, Logins!LogoutTerminate,
           Logins!TerminateUserSessions
  <1>1. LoginTablesKept /\ UNCHANGED tokens => LoginLater BY DEF LoginTablesKept, LoginLater
  <1>2. PICK x : x = LoginIdle OBVIOUS
  <1>3. LoginCallFine(x)' /\ x.step # "open" BY <1>2, LoginIdleFine DEF LoginIdle, LoginCallFine
  <1>4. CASE Logins!LogoutTerminate(c)
    <2>1. /\ LoginMoves(c, x) /\ sessions' = Logins!Ended({requests[c].session})
          /\ closed' = closed \cup {requests[c].session} /\ requests[c].step = "terminate"
      BY <1>2, <1>4, LoginIdleFine DEF Logins!LogoutTerminate, Logins!At, Logins!Finish, LoginMoves
    <2>2. LoginTablesKept /\ ~ sessions'[requests[c].session].active /\ requests[c].session \in DOMAIN sessions
      BY <1>0, <2>1, SessionsEnded DEF LoginCallFine
    <2>3. LoginClosedKept
      BY <1>0, <2>1, <2>2 DEF LoginClosedKept, LoginRows, ClosedEnded, LoginTablesKept
    <2> QED BY <1>0, <1>3, <2>1, <2>2, <2>3, LoginMoved
  <1>5. CASE Logins!TerminateUserSessions(c)
    <2>1. PICK y : y = [requests[c] EXCEPT !.step = "list"] OBVIOUS
    <2>2. /\ sessions' = Logins!Ended(DOMAIN sessions)
          /\ \/ LoginMoves(c, y) /\ UNCHANGED closed
             \/ LoginMoves(c, x) /\ closed' = closed \cup requests[c].due
      BY <1>2, <1>5, <2>1, LoginIdleFine DEF Logins!TerminateUserSessions, Logins!Terminate, Logins!At, Logins!Finish,
                                             Logins!Goto, LoginMoves
    <2>3. LoginTablesKept /\ \A s \in DOMAIN sessions : ~ sessions'[s].active
      BY <1>0, <2>2, SessionsEnded
    <2>4. LoginClosedKept
      BY <1>0, <2>2, <2>3 DEF LoginClosedKept, LoginRows, ClosedEnded, LoginCallFine
    <2>5. y \in LoginRequests /\ y.step = "list" /\ y.due = requests[c].due
      BY <1>0, <2>1 DEF LoginRequests, Logins!Steps
    <2>6. LoginCallFine(y)' /\ y.step # "open"
      BY <1>0, <2>3, <2>5 DEF LoginCallFine, LoginTablesKept
    <2> QED BY <1>0, <1>3, <2>2, <2>3, <2>4, <2>6, LoginMoved
  <1> QED BY <1>4, <1>5

LEMMA LoginIssues ==
    ASSUME LoginInv, NEW c \in Clients, Logins!IssueTokens(c)
    PROVE  LoginInv'
  <1>0. /\ LoginCallFine(requests[c]) /\ requests[c] \in LoginRequests /\ LoginRows
        /\ tokens \in Seq(Logins!Tokens)
    BY DEF LoginInv, LoginRows, LoginCallFine
  <1>1. PICK n : n = Len(tokens) + 1 OBVIOUS
  <1>2. PICK x : x = [requests[c] EXCEPT !.step = "open", !.token = n] OBVIOUS
  <1>3. PICK v : v = Logins!NewToken(TRUE) OBVIOUS
  <1>4. /\ LoginMoves(c, x) /\ tokens' = Append(tokens, v) /\ Len(tokens) < Bound
        /\ UNCHANGED <<failed, locked, sessions, closed>>
    BY <1>1, <1>2, <1>3 DEF Logins!IssueTokens, LoginMoves
  <1>5. v \in Logins!Tokens /\ v.rotated = 0 BY <1>3 DEF Logins!NewToken, Logins!Tokens
  <1>6. /\ tokens' \in Seq(Logins!Tokens) /\ Len(tokens') = n /\ Len(tokens) \in Nat
        /\ DOMAIN tokens = 1..Len(tokens) /\ DOMAIN tokens' = 1..n
        /\ \A t \in DOMAIN tokens : tokens'[t] = tokens[t]
        /\ tokens'[n] = v
    BY <1>0, <1>1, <1>4, <1>5, RowAdded
  <1>7. DOMAIN tokens \subseteq DOMAIN tokens' /\ n \in DOMAIN tokens' /\ n \notin DOMAIN tokens /\ n \in Nat
        /\ Len(tokens') <= Bound /\ \A t \in DOMAIN tokens' : t = n \/ t \in DOMAIN tokens
    BY <1>1, <1>4, <1>6, LimitsAssumption
  <1>8. LoginLater BY <1>4, <1>7 DEF LoginLater
  <1>9. x \in LoginRequests /\ x.step = "open" /\ x.token = n /\ x.due = requests[c].due
    BY <1>0, <1>2, <1>7 DEF LoginRequests, Logins!Steps
  <1>10. LoginCallFine(x)' BY <1>0, <1>4, <1>7, <1>9 DEF LoginCallFine
  <1>11. /\ requests' = [d \in Clients |-> requests'[d]] /\ requests'[c] = x
         /\ \A d \in Clients : d # c => requests'[d] = requests[d]
         /\ \A d \in Clients : LoginCallFine(requests[d])'
    BY <1>4, <1>8, <1>10, LoginCallsMove
  <1>12. LoginRows' BY <1>0, <1>4, <1>6, <1>7, <1>11 DEF LoginRows
  <1>13. ExchangedOnce' BY <1>5, <1>6, <1>7 DEF LoginInv, ExchangedOnce
  <1>14. \A d \in Clients : requests[d].step = "open" => requests[d].token # n
    BY <1>7 DEF LoginInv, LoginCallFine
  <1>15. OwnToken' BY <1>4, <1>7, <1>9, <1>11, <1>14 DEF LoginInv, OwnToken
  <1> QED BY <1>4, <1>11, <1>12, <1>13, <1>15 DEF LoginInv, LockFollows, ClosedEnded

LEMMA LoginOpens ==
    ASSUME LoginInv, NEW c \in Clients, Logins!OpenSession(c)
    PROVE  LoginInv'
  <1>0. LoginCallFine(requests[c]) /\ LoginRows /\ requests[c] \in LoginRequests
    BY DEF LoginInv, LoginCallFine
  <1>1. PICK n : n = Len(sessions) + 1 OBVIOUS
  <1>2. PICK x : x = LoginIdle OBVIOUS
  <1>3. PICK v : v = [jti |-> requests[c].token, active |-> TRUE] OBVIOUS
  <1>4. /\ LoginMoves(c, x) /\ sessions' = Append(sessions, v) /\ requests[c].step = "open"
        /\ UNCHANGED <<failed, locked, tokens, closed>>
    BY <1>2, <1>3, LoginIdleFine DEF Logins!OpenSession, Logins!At, Logins!Finish, LoginMoves
  <1>5. v \in Logins!SessionRows /\ v.jti = requests[c].token /\ requests[c].token \in DOMAIN tokens
    BY <1>0, <1>3, <1>4 DEF Logins!SessionRows, LoginRequests, LoginCallFine
  <1>6. /\ sessions' \in Seq(Logins!SessionRows) /\ Len(sessions) \in Nat
        /\ DOMAIN sessions = 1..Len(sessions) /\ DOMAIN sessions' = 1..n
        /\ \A s \in DOMAIN sessions : sessions'[s] = sessions[s]
        /\ sessions'[n] = v
    BY <1>0, <1>1, <1>4, <1>5, RowAdded DEF LoginRows
  <1>7. DOMAIN sessions \subseteq DOMAIN sessions' /\ \A s \in DOMAIN sessions' : s = n \/ s \in DOMAIN sessions
    BY <1>1, <1>6
  <1>8. LoginLater BY <1>4, <1>6, <1>7 DEF LoginLater
  <1>9. LoginCallFine(x)' /\ x.step # "open" BY <1>2, LoginIdleFine DEF LoginIdle, LoginCallFine
  <1>10. /\ requests' = [d \in Clients |-> requests'[d]] /\ requests'[c] = x
         /\ \A d \in Clients : d # c => requests'[d] = requests[d]
         /\ \A d \in Clients : LoginCallFine(requests[d])'
    BY <1>4, <1>8, <1>9, LoginCallsMove
  <1>11. LoginRows' BY <1>0, <1>4, <1>6, <1>7, <1>10 DEF LoginRows
  <1>12. OwnToken'
    <2>1. \A s \in DOMAIN sessions' : sessions'[s].jti \in DOMAIN tokens'
      BY <1>4, <1>5, <1>6, <1>7 DEF LoginInv, OwnToken
    <2>2. \A s \in DOMAIN sessions : sessions[s].jti # v.jti BY <1>4, <1>5 DEF LoginInv, OwnToken
    <2>3. \A r, s \in DOMAIN sessions' : sessions'[r].jti = sessions'[s].jti => r = s
      BY <1>6, <1>7, <2>2 DEF LoginInv, OwnToken
    <2>4. ASSUME NEW d \in Clients, requests'[d].step = "open"
          PROVE  /\ \A s \in DOMAIN sessions' : sessions'[s].jti # requests'[d].token
                 /\ \A e \in Clients : requests'[e].step = "open" /\ requests'[e].token = requests'[d].token => e = d
      <3>1. d # c /\ requests'[d] = requests[d] BY <1>9, <1>10, <2>4
      <3>2. requests[d].token # v.jti BY <1>4, <1>5, <2>4, <3>1 DEF LoginInv, OwnToken
      <3> QED BY <1>6, <1>7, <1>9, <1>10, <2>4, <3>1, <3>2 DEF LoginInv, OwnToken
    <2> QED BY <2>1, <2>3, <2>4 DEF OwnToken
  <1>13. ClosedEnded' BY <1>0, <1>4, <1>6 DEF LoginInv, LoginRows, ClosedEnded
  <1> QED BY <1>4, <1>10, <1>11, <1>12, <1>13 DEF LoginInv, LockFollows, ExchangedOnce

LEMMA LoginRefreshes ==
    ASSUME LoginInv, NEW s \in DOMAIN sessions, Logins!Refresh(s)
    PROVE  LoginInv'
  <1>0. LoginRows /\ tokens \in Seq(Logins!Tokens) /\ sessions \in Seq(Logins!SessionRows)
    BY DEF LoginInv, LoginRows
  <1>1. PICK n : n = Len(tokens) + 1 OBVIOUS
  <1>2. PICK j : j = sessions[s].jti OBVIOUS
  <1>3. PICK listed \in BOOLEAN : tokens' = Logins!Rotate(s, listed) BY DEF Logins!Refresh
  <1>4. PICK v : v = Logins!NewToken(listed) OBVIOUS
  <1>5. PICK w : w = [tokens[j] EXCEPT !.blacklisted = TRUE, !.rotated = @ + 1] OBVIOUS
  <1>6. PICK u : u = [sessions[s] EXCEPT !.jti = n] OBVIOUS
  <1>7. j \in DOMAIN tokens BY <1>2 DEF LoginInv, OwnToken
  <1>8. tokens' = Append([tokens EXCEPT ![j] = w], v) BY <1>2, <1>3, <1>4, <1>5 DEF Logins!Rotate
  <1>9. /\ sessions' = [sessions EXCEPT ![s] = u] /\ Len(tokens) < Bound
        /\ UNCHANGED <<failed, locked, requests, closed>> /\ ~ tokens[j].blacklisted
    BY <1>1, <1>2, <1>6 DEF Logins!Refresh, Logins!Refreshable
  <1>10. tokens[j] \in Logins!Tokens /\ sessions[s] \in Logins!SessionRows
    BY <1>0, <1>7, ElementOfSeq, LenProperties
  <1>11. tokens[j].rotated = 0 BY <1>7, <1>9, <1>10 DEF LoginInv, ExchangedOnce, Logins!Tokens
  <1>12. w \in Logins!Tokens /\ w.rotated = 1 /\ w.blacklisted /\ v \in Logins!Tokens /\ v.rotated = 0
    <2>1. v \in Logins!Tokens /\ v.rotated = 0 BY <1>4 DEF Logins!Tokens, Logins!NewToken
    <2>2. w = [listed |-> tokens[j].listed, blacklisted |-> TRUE, rotated |-> tokens[j].rotated + 1]
      BY <1>5, <1>10 DEF Logins!Tokens
    <2>3. tokens[j].listed \in BOOLEAN /\ tokens[j].rotated + 1 = 1
      BY <1>10, <1>11 DEF Logins!Tokens
    <2> QED BY <2>1, <2>2, <2>3 DEF Logins!Tokens
  <1>13. PICK old : old = [tokens EXCEPT ![j] = w] OBVIOUS
  <1>14. /\ old \in Seq(Logins!Tokens) /\ Len(old) = Len(tokens) /\ DOMAIN old = DOMAIN tokens
         /\ \A t \in DOMAIN tokens : old[t] = IF t = j THEN w ELSE tokens[t]
    BY <1>0, <1>7, <1>12, <1>13, RowChanged
  <1>15. /\ tokens' \in Seq(Logins!Tokens) /\ Len(tokens') = n /\ Len(tokens) \in Nat
         /\ DOMAIN tokens = 1..Len(tokens) /\ DOMAIN tokens' = 1..n
         /\ \A t \in DOMAIN tokens : tokens'[t] = old[t]
         /\ tokens'[n] = v
    BY <1>1, <1>8, <1>12, <1>13, <1>14, RowAdded
  <1>16. DOMAIN tokens \subseteq DOMAIN tokens' /\ n \in DOMAIN tokens' /\ n \notin DOMAIN tokens /\ n \in Nat
         /\ Len(tokens') <= Bound /\ \A t \in DOMAIN tokens' : t = n \/ t \in DOMAIN tokens
    BY <1>1, <1>9, <1>15, LimitsAssumption
  <1>17. u \in Logins!SessionRows /\ u.jti = n /\ u.active = sessions[s].active
    BY <1>6, <1>10, <1>16 DEF Logins!SessionRows
  <1>18. /\ sessions' \in Seq(Logins!SessionRows) /\ DOMAIN sessions' = DOMAIN sessions
         /\ \A r \in DOMAIN sessions : sessions'[r] = IF r = s THEN u ELSE sessions[r]
    BY <1>0, <1>9, <1>17, RowChanged
  <1>19. LoginLater BY <1>16, <1>17, <1>18 DEF LoginLater
  <1>20. \A d \in Clients : LoginCallFine(requests[d])'
    BY <1>9, <1>19, LoginCallLater DEF LoginInv, LoginCallFine
  <1>21. LoginRows' BY <1>0, <1>9, <1>15, <1>16, <1>18 DEF LoginRows
  <1>22. ExchangedOnce' BY <1>12, <1>14, <1>15, <1>16 DEF LoginInv, ExchangedOnce
  <1>23. OwnToken' BY <1>9, <1>16, <1>17, <1>18 DEF LoginInv, LoginCallFine, OwnToken
  <1>24. ClosedEnded' BY <1>0, <1>9, <1>17, <1>18 DEF LoginInv, LoginRows, ClosedEnded
  <1> QED BY <1>9, <1>20, <1>21, <1>22, <1>23, <1>24 DEF LoginInv, LockFollows

LEMMA LoginLockLapses == LoginInv /\ Logins!LockLapses => LoginInv'
  <1> SUFFICES ASSUME LoginInv, Logins!LockLapses PROVE LoginInv' OBVIOUS
  <1>1. locked = "yes" /\ locked' = "lapsed" /\ UNCHANGED <<failed, tokens, sessions, requests, closed>>
    BY DEF Logins!LockLapses
  <1>2. LoginRows' /\ LockFollows' /\ ExchangedOnce' /\ OwnToken' /\ ClosedEnded'
    BY <1>1 DEF LoginInv, LoginRows, LockFollows, ExchangedOnce, OwnToken, ClosedEnded, Logins!Locks
  <1>3. \A c \in Clients : LoginCallFine(requests[c])' BY <1>1 DEF LoginInv, LoginCallFine
  <1> QED BY <1>2, <1>3 DEF LoginInv

LEMMA LoginsNext == LoginInv /\ Logins!Next => LoginInv'
  BY LoginFails, LoginStarts, LoginEnds, LoginBlacklists, LoginTerminates, LoginIssues, LoginOpens,
     LoginRefreshes, LoginLockLapses DEF Logins!Next

LEMMA LoginInvSays ==
    LoginInv => Logins!TypeOK /\ Logins!ClosedSessionsStayClosed /\ Logins!LockMatchesCounter
  <1> SUFFICES ASSUME LoginInv
               PROVE  Logins!TypeOK /\ Logins!ClosedSessionsStayClosed /\ Logins!LockMatchesCounter
    OBVIOUS
  <1>1. requests \in [Clients -> LoginRequests] BY DEF LoginInv, LoginRows, LoginCallFine
  <1>2. Logins!TypeOK BY <1>1 DEF LoginInv, LoginRows, LoginRequests, Logins!TypeOK
  <1>3. Logins!ClosedSessionsStayClosed
    BY DEF LoginInv, ClosedEnded, ExchangedOnce, OwnToken, Logins!ClosedSessionsStayClosed, Logins!Refreshable
  <1> QED BY <1>2, <1>3 DEF LoginInv, LockFollows, Logins!LockMatchesCounter
-----------------------------------------------------------------------------
(* One-time codes.  From any code on, the unused codes and the requests    *)
(* that did not see it when they began theirs are no more than the clients;*)
(* the codes of today and the requests that will make one pass the limit   *)
(* by fewer; every password set, or about to be, had its acceptance.       *)
CodeCalls == [step : Codes!Steps, seen : 0..Bound, code : 0..Bound, ip : Ips, tries : 0..MaxTries]
MakingSteps == {"hold", "begin", "commit"}

CodeCallFine(x) ==
    /\ x \in CodeCalls
    /\ x.step \in {"mail", "miss", "consume"} => x.code \in DOMAIN codes
    /\ x.step \in {"check", "rejected", "miss"} => x.tries < MaxTries
    /\ x.step \in {"hold", "check", "rejected", "accepted"} => purpose = "REGISTER"
    /\ x.step \in {"miss", "consume", "confirm"} => purpose = "PASSWORD_RESET"

CodesTyped ==
    /\ purpose \in Codes!Purposes /\ rowLocks \in BOOLEAN /\ user \in Codes!Users
    /\ codes \in Seq(Codes!Codes) /\ Len(codes) <= Bound
    /\ attempts \in [Ips -> Codes!AttemptRows] /\ resets \in Nat
    /\ calls = [c \in Clients |-> calls[c]]
    /\ \A c \in Clients : CodeCallFine(calls[c])

CodesUserFine ==
    /\ purpose = "PASSWORD_RESET" => user.exists
    /\ ~ user.exists => codes = << >> /\ \A c \in Clients : calls[c].step = "idle"
    /\ purpose = "REGISTER" /\ user.verified => \E i \in DOMAIN codes : codes[i].accepted > 0

AcceptedAndUsed == \A i \in DOMAIN codes :
    /\ codes[i].accepted > 0 => codes[i].used
    /\ purpose = "REGISTER" => codes[i].accepted <= 1

AcceptedOf == [i \in DOMAIN codes |-> codes[i].accepted]
AcceptedSum == SumOf(AcceptedOf, DOMAIN codes)
Confirming == {c \in Clients : calls[c].step = "confirm"}
ResetsCovered == resets + Cardinality(Confirming) <= AcceptedSum

UnusedFrom(k) == {i \in DOMAIN codes : ~ codes[i].used /\ i >= k}
SeenBefore(k) == {c \in Clients : calls[c].step = "commit" /\ calls[c].seen < k}
FewUnused == \A k \in Nat : Cardinality(UnusedFrom(k)) + Cardinality(SeenBefore(k)) <= Cardinality(Clients)

CodesToday == {i \in DOMAIN codes : codes[i].age # "old"}
Making == {c \in Clients : calls[c].step \in MakingSteps}
TodayFits == purpose = "REGISTER" =>
    Cardinality(CodesToday) + Cardinality(Making) < MaxDaily + Cardinality(Clients)

CodeInv == CodesTyped /\ CodesUserFine /\ AcceptedAndUsed /\ ResetsCovered /\ FewUnused /\ TodayFits

CodeMoves(c, x) == calls' = [calls EXCEPT ![c] = x]
CodesLater == DOMAIN codes \subseteq DOMAIN codes' /\ UNCHANGED <<purpose, rowLocks>>

(* Steps that rewrite codes: used stays used, old stays old.               *)
CodesKept ==
    /\ codes' \in Seq(Codes!Codes) /\ Len(codes') = Len(codes) /\ DOMAIN codes' = DOMAIN codes
    /\ \A i \in DOMAIN codes : /\ codes[i].used => codes'[i].used
                               /\ codes[i].age = "old" => codes'[i].age = "old"
AcceptancesStay == \A i \in DOMAIN codes : codes'[i].accepted = codes[i].accepted

LEMMA CodesCardinality == \A S : Codes!Cardinality(S) = Cardinality(S)
  BY DEF Codes!Cardinality, Codes!IsFiniteSet, Cardinality, IsFiniteSet

LEMMA CodeRows ==
    ASSUME CodesTyped
    PROVE  /\ DOMAIN codes = 1..Len(codes) /\ Len(codes) \in Nat /\ IsFiniteSet(DOMAIN codes)
           /\ \A i \in DOMAIN codes : codes[i] \in Codes!Codes
  <1>1. codes \in Seq(Codes!Codes) BY DEF CodesTyped
  <1>2. DOMAIN codes = 1..Len(codes) /\ Len(codes) \in Nat BY <1>1, LenProperties
  <1>3. \A n \in Nat : IsFiniteSet(1..n) BY FS_Interval
  <1> QED BY <1>1, <1>2, <1>3, ElementOfSeq

LEMMA ClientsCount == /\ Cardinality(Clients) \in Nat \ {0}
                      /\ \A S \in SUBSET Clients : /\ IsFiniteSet(S) /\ Cardinality(S) \in Nat
                                                   /\ Cardinality(S) <= Cardinality(Clients)
  BY ClientsAssumption, FS_Subset, FS_CardinalityType, FS_EmptySet

LEMMA SmallerCounts ==
    ASSUME NEW S, IsFiniteSet(S), NEW T \in SUBSET S
    PROVE  Cardinality(T) \in Nat /\ Cardinality(S) \in Nat /\ Cardinality(T) <= Cardinality(S)
  BY FS_Subset, FS_CardinalityType

LEMMA CodeCallLater == \A x : CodesLater /\ CodeCallFine(x) => CodeCallFine(x)'
  BY DEF CodesLater, CodeCallFine

LEMMA CodeCallsMove ==
    ASSUME CodesTyped, CodesLater, NEW c \in Clients, NEW x, CodeMoves(c, x), CodeCallFine(x)'
    PROVE  /\ calls' = [d \in Clients |-> calls'[d]] /\ calls'[c] = x
           /\ \A d \in Clients : d # c => calls'[d] = calls[d]
           /\ \A d \in Clients : CodeCallFine(calls[d])'
  <1>1. calls' = [d \in Clients |-> IF d = c THEN x ELSE calls[d]] BY DEF CodesTyped, CodeMoves
  <1>2. ASSUME NEW d \in Clients PROVE CodeCallFine(calls[d])'
    <2>1. CASE d = c BY <1>1, <2>1 DEF CodeCallFine
    <2>2. CASE d # c BY <1>1, <2>2, CodeCallLater DEF CodesTyped, CodeCallFine
    <2> QED BY <2>1, <2>2
  <1> QED BY <1>1, <1>2

LEMMA CodesInit == Codes!Init => CodeInv
  <1> SUFFICES ASSUME Codes!Init PROVE CodeInv OBVIOUS
  <1>1. /\ purpose \in Codes!Purposes /\ rowLocks \in BOOLEAN /\ codes = << >> /\ resets = 0
        /\ attempts = [ip \in Ips |-> Absent] /\ calls \in [Clients -> {Codes!Idle(ip) : ip \in Ips}]
        /\ user = [exists |-> purpose = "PASSWORD_RESET", active |-> purpose = "PASSWORD_RESET",
                   verified |-> purpose = "PASSWORD_RESET"]
    BY DEF Codes!Init
  <1>2. codes \in Seq(Codes!Codes) /\ Len(codes) = 0 /\ DOMAIN codes = {} BY <1>1
  <1>3. ASSUME NEW c \in Clients PROVE calls[c].step = "idle" /\ CodeCallFine(calls[c])
    BY <1>1, LimitsAssumption DEF Codes!Idle, CodeCalls, Codes!Steps, CodeCallFine
  <1>4. attempts \in [Ips -> Codes!AttemptRows] /\ user \in Codes!Users
    BY <1>1 DEF Codes!AttemptRows, Codes!Users
  <1>5. CodesTyped BY <1>1, <1>2, <1>3, <1>4, LimitsAssumption DEF CodesTyped
  <1>6. CodesUserFine BY <1>1, <1>3 DEF CodesUserFine, Codes!Purposes
  <1>7. \A k \in Nat : UnusedFrom(k) = {} /\ SeenBefore(k) = {}
    BY <1>2, <1>3 DEF UnusedFrom, SeenBefore
  <1>8. Confirming = {} /\ CodesToday = {} /\ Making = {} /\ Cardinality({}) = 0
    BY <1>2, <1>3, FS_EmptySet DEF Confirming, CodesToday, Making, MakingSteps
  <1>9. FewUnused BY <1>7, <1>8, ClientsCount DEF FewUnused
  <1>10. TodayFits BY <1>8, ClientsCount, LimitsAssumption DEF TodayFits
  <1>11. AcceptedSum = 0 BY <1>2, SumOfNothing DEF AcceptedSum
  <1>12. ResetsCovered BY <1>1, <1>8, <1>11 DEF ResetsCovered
  <1> QED BY <1>2, <1>5, <1>6, <1>9, <1>10, <1>12 DEF CodeInv, AcceptedAndUsed

LEMMA CodesStutter == CodeInv /\ UNCHANGED codesVars => CodeInv'
  <1> SUFFICES ASSUME CodeInv, UNCHANGED codesVars PROVE CodeInv' OBVIOUS
  <1>1. /\ purpose' = purpose /\ rowLocks' = rowLocks /\ user' = user /\ codes' = codes
        /\ attempts' = attempts /\ calls' = calls /\ resets' = resets
    BY DEF codesVars
  <1>2. \A c \in Clients : CodeCallFine(calls[c])' BY <1>1 DEF CodeInv, CodesTyped, CodeCallFine
  <1>3. CodesTyped' /\ CodesUserFine' /\ AcceptedAndUsed'
    BY <1>1, <1>2 DEF CodeInv, CodesTyped, CodesUserFine, AcceptedAndUsed
  <1>4. AcceptedSum' = AcceptedSum /\ Confirming' = Confirming /\ CodesToday' = CodesToday /\ Making' = Making
    BY <1>1 DEF AcceptedSum, AcceptedOf, Confirming, CodesToday, Making
  <1>5. \A k \in Nat : UnusedFrom(k)' = UnusedFrom(k) /\ SeenBefore(k)' = SeenBefore(k)
    BY <1>1 DEF UnusedFrom, SeenBefore
  <1> QED BY <1>1, <1>3, <1>4, <1>5 DEF CodeInv, ResetsCovered, FewUnused, TodayFits

(* What does not begin a code makes no more of them.                       *)
LEMMA CodesFewStay ==
    ASSUME CodeInv, NEW c \in Clients, NEW x, CodeMoves(c, x), x.step = "commit" => x = calls[c], CodesKept
    PROVE  FewUnused'
  <1> SUFFICES ASSUME NEW k \in Nat
               PROVE  Cardinality(UnusedFrom(k)') + Cardinality(SeenBefore(k)') <= Cardinality(Clients)
    BY DEF FewUnused
  <1>1. \A d \in Clients : calls'[d] = IF d = c THEN x ELSE calls[d]
    BY DEF CodeInv, CodesTyped, CodeMoves
  <1>2. UnusedFrom(k)' \subseteq UnusedFrom(k) BY DEF UnusedFrom, CodesKept
  <1>3. SeenBefore(k)' \subseteq SeenBefore(k) BY <1>1 DEF SeenBefore
  <1>4. IsFiniteSet(UnusedFrom(k)) /\ IsFiniteSet(SeenBefore(k))
    BY CodeRows, FS_Subset, ClientsAssumption DEF UnusedFrom, SeenBefore, CodeInv
  <1>5. Cardinality(UnusedFrom(k)) + Cardinality(SeenBefore(k)) <= Cardinality(Clients)
    BY DEF CodeInv, FewUnused
  <1> DEFINE u == UnusedFrom(k)
             s == SeenBefore(k)
  <1>6. PICK v, t : v = UnusedFrom(k)' /\ t = SeenBefore(k)' OBVIOUS
  <1>7. /\ Cardinality(v) \in Nat /\ Cardinality(u) \in Nat /\ Cardinality(v) <= Cardinality(u)
        /\ Cardinality(t) \in Nat /\ Cardinality(s) \in Nat /\ Cardinality(t) <= Cardinality(s)
    BY <1>2, <1>3, <1>4, <1>6, SmallerCounts
  <1> QED BY <1>5, <1>6, <1>7, ClientsCount

LEMMA CodesTodayStay ==
    ASSUME CodeInv, NEW c \in Clients, NEW x, CodeMoves(c, x), CodesKept, UNCHANGED purpose,
           x.step \in MakingSteps /\ purpose = "REGISTER" => calls[c].step \in MakingSteps
    PROVE  TodayFits'
  <1> SUFFICES ASSUME purpose = "REGISTER"
               PROVE  Cardinality(CodesToday') + Cardinality(Making') < MaxDaily + Cardinality(Clients)
    BY DEF TodayFits
  <1>1. \A d \in Clients : calls'[d] = IF d = c THEN x ELSE calls[d]
    BY DEF CodeInv, CodesTyped, CodeMoves
  <1>2. PICK v, t : v = CodesToday' /\ t = Making' OBVIOUS
  <1>3. v \subseteq CodesToday /\ t \subseteq Making BY <1>1, <1>2 DEF CodesToday, CodesKept, Making
  <1>4. IsFiniteSet(CodesToday) /\ IsFiniteSet(Making)
    BY CodeRows, FS_Subset, ClientsAssumption DEF CodesToday, Making, CodeInv
  <1>5. /\ Cardinality(v) \in Nat /\ Cardinality(CodesToday) \in Nat /\ Cardinality(v) <= Cardinality(CodesToday)
        /\ Cardinality(t) \in Nat /\ Cardinality(Making) \in Nat /\ Cardinality(t) <= Cardinality(Making)
    BY <1>3, <1>4, SmallerCounts
  <1>6. Cardinality(CodesToday) + Cardinality(Making) < MaxDaily + Cardinality(Clients)
    BY DEF CodeInv, TodayFits
  <1> QED BY <1>2, <1>5, <1>6, ClientsCount, LimitsAssumption

(* The confirmations of a step after which the request does not confirm.   *)
LEMMA ConfirmingStays ==
    ASSUME CodeInv, NEW c \in Clients, NEW x, CodeMoves(c, x), x.step # "confirm"
    PROVE  /\ Confirming' = Confirming \ {c}
           /\ Cardinality(Confirming') \in Nat /\ Cardinality(Confirming) \in Nat
           /\ Cardinality(Confirming') = Cardinality(Confirming) - (IF calls[c].step = "confirm" THEN 1 ELSE 0)
  <1>1. \A d \in Clients : calls'[d] = IF d = c THEN x ELSE calls[d]
    BY DEF CodeInv, CodesTyped, CodeMoves
  <1>2. Confirming' = Confirming \ {c} BY <1>1 DEF Confirming
  <1>3. Confirming \in SUBSET Clients /\ (c \in Confirming <=> calls[c].step = "confirm")
    BY DEF Confirming
  <1>4. IsFiniteSet(Confirming) /\ Cardinality(Confirming) \in Nat BY <1>3, ClientsCount
  <1>5. PICK t : t = Confirming' OBVIOUS
  <1>6. t \in SUBSET Clients BY <1>2, <1>3, <1>5
  <1>7. Cardinality(t) = IF c \in Confirming THEN Cardinality(Confirming) - 1 ELSE Cardinality(Confirming)
    BY <1>2, <1>4, <1>5, FS_RemoveElement
  <1>8. Cardinality(t) \in Nat BY <1>6, ClientsCount
  <1> QED BY <1>2, <1>3, <1>4, <1>5, <1>7, <1>8

LEMMA CodesSame == CodesTyped /\ codes' = codes => CodesKept /\ AcceptancesStay
  BY DEF CodesTyped, CodesKept, AcceptancesStay

(* A step that accepts no code: what does not count codes or requests.     *)
LEMMA CodesMoved ==
    ASSUME CodeInv, NEW c \in Clients, NEW x, CodeMoves(c, x), CodeCallFine(x)', CodesKept, AcceptancesStay,
           UNCHANGED <<purpose, rowLocks>>, user' \in Codes!Users, user'.exists, user'.verified => user.verified,
           attempts' \in [Ips -> Codes!AttemptRows], resets' \in Nat,
           resets' + Cardinality(Confirming') <= resets + Cardinality(Confirming)
    PROVE  CodesTyped' /\ CodesUserFine' /\ AcceptedAndUsed' /\ ResetsCovered'
  <1>1. CodesLater BY DEF CodesKept, CodesLater
  <1>2. /\ calls' = [d \in Clients |-> calls'[d]]
        /\ \A d \in Clients : CodeCallFine(calls[d])'
    BY <1>1, CodeCallsMove DEF CodeInv
  <1>3. CodesTyped' BY <1>2 DEF CodeInv, CodesTyped, CodesKept
  <1>4. CodesUserFine' BY DEF CodeInv, CodesUserFine, CodesKept, AcceptancesStay
  <1>5. AcceptedAndUsed' BY DEF CodeInv, AcceptedAndUsed, CodesKept, AcceptancesStay
  <1>6. AcceptedOf' = AcceptedOf /\ DOMAIN codes' = DOMAIN codes
    BY DEF AcceptedOf, CodesKept, AcceptancesStay
  <1>7. AcceptedSum' = AcceptedSum BY <1>6 DEF AcceptedSum
  <1>8. AcceptedSum \in Nat
    BY CodeRows, SumIsNatural DEF CodeInv, AcceptedOf, Codes!Codes, AcceptedSum
  <1>9. PICK t, n : t = Cardinality(Confirming') /\ n = resets' OBVIOUS
  <1>10. Confirming' \in SUBSET Clients /\ Confirming \in SUBSET Clients BY DEF Confirming
  <1>11. t \in Nat /\ Cardinality(Confirming) \in Nat BY <1>9, <1>10, ClientsCount
  <1>12. n + t <= AcceptedSum BY <1>8, <1>9, <1>11 DEF CodeInv, ResetsCovered, CodesTyped
  <1>13. ResetsCovered' BY <1>7, <1>9, <1>12 DEF ResetsCovered
  <1> QED BY <1>3, <1>4, <1>5, <1>13

(* The same, when no request begins a code or decides to.                  *)
LEMMA CodesQuiet ==
    ASSUME CodeInv, NEW c \in Clients, NEW x, CodeMoves(c, x), CodeCallFine(x)', CodesKept, AcceptancesStay,
           UNCHANGED <<purpose, rowLocks>>, user' \in Codes!Users, user'.exists, user'.verified => user.verified,
           attempts' \in [Ips -> Codes!AttemptRows], resets' \in Nat,
           resets' + Cardinality(Confirming') <= resets + Cardinality(Confirming),
           x.step = "commit" => x = calls[c],
           x.step \in MakingSteps /\ purpose = "REGISTER" => calls[c].step \in MakingSteps
    PROVE  CodeInv'
  BY CodesMoved, CodesFewStay, CodesTodayStay DEF CodeInv

(* A request that does not go on to a confirmation adds no password that   *)
(* nothing was accepted for.                                               *)
LEMMA ConfirmingFewer ==
    ASSUME CodeInv, NEW c \in Clients, NEW x, CodeMoves(c, x), x.step # "confirm",
           \/ resets' = resets
           \/ resets' = resets + 1 /\ calls[c].step = "confirm"
    PROVE  resets' \in Nat /\ resets' + Cardinality(Confirming') <= resets + Cardinality(Confirming)
  BY ConfirmingStays DEF CodeInv, CodesTyped

LEMMA CallsStand ==
    ASSUME CodeInv, calls' = calls, resets' = resets
    PROVE  /\ \A c \in Clients : CodeMoves(c, calls[c])
           /\ resets' \in Nat /\ resets' + Cardinality(Confirming') <= resets + Cardinality(Confirming)
  <1>1. \A c \in Clients : CodeMoves(c, calls[c]) BY DEF CodeMoves, CodeInv, CodesTyped
  <1>2. Confirming' = Confirming BY DEF Confirming
  <1>3. Cardinality(Confirming) \in Nat /\ resets \in Nat
    BY ClientsCount DEF Confirming, CodeInv, CodesTyped
  <1> QED BY <1>1, <1>2, <1>3

(* An accepted code.                                                       *)
LEMMA CodesConsumed ==
    ASSUME CodesTyped, NEW i \in DOMAIN codes, codes' = Codes!Consume(i)
    PROVE  /\ CodesKept /\ codes'[i].used
           /\ codes'[i].accepted = codes[i].accepted + 1 /\ codes[i].accepted \in Nat
           /\ \A j \in DOMAIN codes : j # i => codes'[j] = codes[j]
  <1>1. codes[i] \in Codes!Codes BY CodeRows
  <1>2. PICK w : w = codes[i] OBVIOUS
  <1>3. PICK n \in Nat : n = w.accepted + 1 /\ codes[i].accepted \in Nat
    BY <1>1, <1>2 DEF Codes!Codes
  <1>4. PICK v : v = [w EXCEPT !.used = TRUE, !.accepted = n] OBVIOUS
  <1>5. v \in Codes!Codes /\ v.used /\ v.accepted = n /\ v.age = codes[i].age
    BY <1>1, <1>2, <1>4 DEF Codes!Codes
  <1>6. codes' = [codes EXCEPT ![i] = v] BY <1>2, <1>3, <1>4 DEF Codes!Consume
  <1>7. /\ codes' \in Seq(Codes!Codes) /\ Len(codes') = Len(codes) /\ DOMAIN codes' = DOMAIN codes
        /\ \A j \in DOMAIN codes : codes'[j] = IF j = i THEN v ELSE codes[j]
    BY <1>5, <1>6, RowChanged DEF CodesTyped
  <1>8. CodesKept BY <1>5, <1>7 DEF CodesKept
  <1> QED BY <1>2, <1>3, <1>5, <1>7, <1>8

LEMMA CodesAccepted ==
    ASSUME CodeInv, NEW c \in Clients, NEW x, CodeMoves(c, x), CodeCallFine(x)',
           NEW i \in DOMAIN codes, codes' = Codes!Consume(i), purpose = "REGISTER" => codes[i].accepted = 0,
           UNCHANGED <<purpose, rowLocks, attempts, resets>>, user' \in Codes!Users, user'.exists,
           x.step \notin MakingSteps
    PROVE  CodeInv'
  <1>1. /\ CodesKept /\ codes'[i].used
        /\ codes'[i].accepted = codes[i].accepted + 1 /\ codes[i].accepted \in Nat
        /\ \A j \in DOMAIN codes : j # i => codes'[j] = codes[j]
    BY CodesConsumed DEF CodeInv
  <1>2. CodesLater BY <1>1 DEF CodesKept, CodesLater
  <1>3. /\ calls' = [d \in Clients |-> calls'[d]]
        /\ \A d \in Clients : CodeCallFine(calls[d])'
        /\ \A d \in Clients : d # c => calls'[d] = calls[d]
    BY <1>2, CodeCallsMove DEF CodeInv
  <1>4. CodesTyped' BY <1>1, <1>3 DEF CodeInv, CodesTyped, CodesKept
  <1>5. CodesUserFine' BY <1>1 DEF CodesKept, CodesUserFine
  <1>6. AcceptedAndUsed' BY <1>1 DEF CodeInv, AcceptedAndUsed, CodesKept
  <1>7. FewUnused' BY <1>1, CodesFewStay DEF MakingSteps
  <1>8. TodayFits' BY <1>1, CodesTodayStay DEF MakingSteps
  <1>9. ResetsCovered'
    <2>1. PICK f, h : f = AcceptedOf /\ h = AcceptedOf' OBVIOUS
    <2>2. \A j \in DOMAIN codes : f[j] = codes[j].accepted /\ h[j] = codes'[j].accepted
      BY <1>1, <2>1 DEF AcceptedOf, CodesKept
    <2>3. \A j \in DOMAIN codes : f[j] \in Nat /\ h[j] \in Nat
      <3>1. \A j \in DOMAIN codes' : codes'[j].accepted \in Nat
        <4>1. \A j \in DOMAIN codes' : codes'[j] \in Codes!Codes
          BY <1>1, ElementOfSeq, LenProperties DEF CodesKept
        <4> QED BY <4>1 DEF Codes!Codes
      <3>2. \A j \in DOMAIN codes : codes[j].accepted \in Nat BY CodeRows DEF CodeInv, Codes!Codes
      <3> QED BY <1>1, <2>2, <3>1, <3>2 DEF CodesKept
    <2>4. IsFiniteSet(DOMAIN codes) BY CodeRows DEF CodeInv
    <2>5. SumOf(h, DOMAIN codes) = SumOf(f, DOMAIN codes) + (h[i] - f[i])
      <3>1. \A j \in DOMAIN codes : f[j] \in Int /\ h[j] \in Int BY <2>3
      <3>2. \A j \in DOMAIN codes \ {i} : h[j] = f[j] BY <1>1, <2>2
      <3>3. PICK S : S = DOMAIN codes OBVIOUS
      <3>4. SumOf(h, S) = SumOf(f, S) + (h[i] - f[i])
        <4>1. IsFiniteSet(S) /\ i \in S /\ \A j \in S \ {i} : h[j] = f[j] BY <2>4, <3>2, <3>3
        <4>2. \A j \in S : f[j] \in Int /\ h[j] \in Int BY <3>1, <3>3
        <4> QED BY <4>1, <4>2, SumChanges
      <3> QED BY <3>3, <3>4
    <2>6. SumOf(f, DOMAIN codes) \in Nat BY <2>3, <2>4, SumIsNatural
    <2>7. h[i] - f[i] = 1 BY <1>1, <2>2
    <2>8. AcceptedSum = SumOf(f, DOMAIN codes) /\ AcceptedSum' = SumOf(h, DOMAIN codes)
      BY <1>1, <2>1 DEF AcceptedSum, CodesKept
    <2>9. PICK t : t = Confirming' OBVIOUS
    <2>10. t \subseteq Confirming \cup {c} BY <1>3, <2>9 DEF Confirming
    <2>11. Cardinality(t) <= Cardinality(Confirming) + 1 /\ Cardinality(t) \in Nat /\ Cardinality(Confirming) \in Nat
      <3>1. IsFiniteSet(Confirming) BY ClientsCount DEF Confirming
      <3>2. /\ IsFiniteSet(Confirming \cup {c})
            /\ Cardinality(Confirming \cup {c}) = IF c \in Confirming THEN Cardinality(Confirming)
                                                  ELSE Cardinality(Confirming) + 1
        BY <3>1, FS_AddElement
      <3> QED BY <2>10, <3>1, <3>2, SmallerCounts, FS_CardinalityType
    <2>12. resets \in Nat /\ resets' = resets /\ resets + Cardinality(Confirming) <= AcceptedSum
      BY DEF CodeInv, CodesTyped, ResetsCovered
    <2>13. resets + Cardinality(t) <= SumOf(h, DOMAIN codes) BY <2>5, <2>6, <2>7, <2>8, <2>11, <2>12
    <2> QED BY <2>8, <2>9, <2>12, <2>13 DEF ResetsCovered
  <1> QED BY <1>4, <1>5, <1>6, <1>7, <1>8, <1>9 DEF CodeInv

(* The unused code that decides.                                           *)
LEMMA NewestCode ==
    ASSUME CodeInv, Codes!Unused # {}
    PROVE  /\ Codes!Newest \in DOMAIN codes /\ ~ codes[Codes!Newest].used
           /\ codes[Codes!Newest].accepted = 0
  <1>1. Codes!Unused \subseteq DOMAIN codes /\ DOMAIN codes \subseteq Int /\ IsFiniteSet(DOMAIN codes)
    BY CodeRows DEF CodeInv, Codes!Unused
  <1>2. IsFiniteSet(Codes!Unused) BY <1>1, FS_Subset
  <1>3. \E n \in Codes!Unused : \A m \in Codes!Unused : n >= m BY <1>1, <1>2, GreatestMember
  <1>4. Codes!Newest \in Codes!Unused BY <1>3 DEF Codes!Newest, Codes!Max
  <1>5. Codes!Newest \in DOMAIN codes /\ ~ codes[Codes!Newest].used BY <1>4 DEF Codes!Unused
  <1>6. codes[Codes!Newest].accepted \in Nat BY <1>5, CodeRows DEF CodeInv, Codes!Codes
  <1> QED BY <1>5, <1>6 DEF CodeInv, AcceptedAndUsed

LEMMA CodeCallIs ==
    ASSUME CodesTyped, NEW c \in Clients
    PROVE  /\ calls[c] \in CodeCalls /\ calls[c].ip \in Ips /\ calls[c].tries \in 0..MaxTries
           /\ Codes!Idle(calls[c].ip) \in CodeCalls /\ Codes!Idle(calls[c].ip).step = "idle"
  BY LimitsAssumption DEF CodesTyped, CodeCallFine, CodeCalls, Codes!Idle, Codes!Steps

(* Where the two ways to move a request take it.                           *)
LEMMA CodeGoes ==
    ASSUME CodesTyped, NEW c \in Clients, NEW s \in Codes!Steps, Codes!Goto(c, s)
    PROVE  \E x : /\ CodeMoves(c, x) /\ x \in CodeCalls /\ x.step = s
                  /\ x.code = calls[c].code /\ x.tries = calls[c].tries
  <1>1. calls[c] \in CodeCalls BY CodeCallIs
  <1>2. PICK y, x : y = calls[c] /\ x = [y EXCEPT !.step = s] OBVIOUS
  <1>3. x \in CodeCalls /\ x.step = s /\ x.code = y.code /\ x.tries = y.tries
    BY <1>1, <1>2 DEF CodeCalls
  <1>4. CodeMoves(c, x) BY <1>2 DEF CodeMoves, Codes!Goto
  <1> QED BY <1>2, <1>3, <1>4

LEMMA CodeEnds ==
    ASSUME CodesTyped, NEW c \in Clients, Codes!Finish(c)
    PROVE  \E x : CodeMoves(c, x) /\ x \in CodeCalls /\ x.step = "idle"
  BY CodeCallIs DEF CodeMoves, Codes!Finish

LEMMA IdleIsFine == \A x : x \in CodeCalls /\ x.step = "idle" => CodeCallFine(x)'
  BY DEF CodeCallFine

LEMMA CodesRegister == \A c \in Clients : CodeInv /\ Codes!Register(c) => CodeInv'
  <1> SUFFICES ASSUME NEW c \in Clients, CodeInv, Codes!Register(c) PROVE CodeInv' OBVIOUS
  <1>1. /\ ~ user.exists /\ codes' = codes /\ Codes!Goto(c, "hold")
        /\ user' = [exists |-> TRUE, active |-> TRUE, verified |-> FALSE]
        /\ UNCHANGED <<purpose, rowLocks, attempts, resets>>
    BY DEF Codes!Register
  <1>2. PICK x : CodeMoves(c, x) /\ x \in CodeCalls /\ x.step = "hold"
    BY <1>1, CodeGoes DEF CodeInv, Codes!Steps
  <1>3. /\ codes = << >> /\ \A d \in Clients : calls[d].step = "idle"
        /\ purpose = "REGISTER" /\ attempts \in [Ips -> Codes!AttemptRows]
    BY <1>1 DEF CodeInv, CodesUserFine, CodesTyped, Codes!Purposes
  <1>4. CodeCallFine(x)' BY <1>1, <1>2, <1>3 DEF CodeCallFine
  <1>5. CodesKept /\ AcceptancesStay BY <1>1, CodesSame DEF CodeInv
  <1>6. user' \in Codes!Users /\ user'.exists /\ ~ user'.verified BY <1>1 DEF Codes!Users
  <1>7. resets' \in Nat /\ resets' + Cardinality(Confirming') <= resets + Cardinality(Confirming)
    BY <1>1, <1>2, ConfirmingFewer
  <1>8. CodesTyped' /\ CodesUserFine' /\ AcceptedAndUsed' /\ ResetsCovered'
    BY <1>1, <1>2, <1>3, <1>4, <1>5, <1>6, <1>7, CodesMoved
  <1>9. FewUnused' BY <1>2, <1>5, CodesFewStay
  <1>10. TodayFits'
    <2>1. PICK t, m : t = CodesToday' /\ m = Making' OBVIOUS
    <2>2. t = {} BY <1>1, <1>3, <2>1 DEF CodesToday
    <2>3. m = {c} BY <1>2, <1>3, <2>1 DEF Making, MakingSteps, CodeMoves, CodeInv, CodesTyped
    <2>4. Cardinality(t) = 0 /\ Cardinality(m) = 1 BY <2>2, <2>3, FS_EmptySet, FS_Singleton
    <2> QED BY <2>1, <2>4, ClientsCount, LimitsAssumption DEF TodayFits
  <1> QED BY <1>8, <1>9, <1>10 DEF CodeInv

LEMMA CodesHold == \A c \in Clients : CodeInv /\ Codes!Hold(c) => CodeInv'
  <1> SUFFICES ASSUME NEW c \in Clients, CodeInv, Codes!Hold(c) PROVE CodeInv' OBVIOUS
  <1>1. /\ calls[c].step = "hold" /\ codes' = codes /\ Codes!Goto(c, "begin")
        /\ user' = [user EXCEPT !.active = FALSE] /\ UNCHANGED <<purpose, rowLocks, attempts, resets>>
    BY DEF Codes!Hold
  <1>2. PICK x : CodeMoves(c, x) /\ x \in CodeCalls /\ x.step = "begin"
    BY <1>1, CodeGoes DEF CodeInv, Codes!Steps
  <1>3. user \in Codes!Users /\ user.exists /\ attempts \in [Ips -> Codes!AttemptRows]
    BY <1>1 DEF CodeInv, CodesUserFine, CodesTyped
  <1>4. CodeCallFine(x)' BY <1>2 DEF CodeCallFine
  <1>5. CodesKept /\ AcceptancesStay BY <1>1, CodesSame DEF CodeInv
  <1>6. user' \in Codes!Users /\ user'.exists /\ user'.verified = user.verified
    BY <1>1, <1>3 DEF Codes!Users
  <1>7. resets' \in Nat /\ resets' + Cardinality(Confirming') <= resets + Cardinality(Confirming)
    BY <1>1, <1>2, ConfirmingFewer
  <1>8. x.step \in MakingSteps /\ purpose = "REGISTER" => calls[c].step \in MakingSteps
    BY <1>1 DEF MakingSteps
  <1> QED BY <1>1, <1>2, <1>3, <1>4, <1>5, <1>6, <1>7, <1>8, CodesQuiet

(* A request that begins, when no more of them pass the limit than there   *)
(* are clients.                                                            *)
LEMMA CodesResend == \A c \in Clients : CodeInv /\ Codes!Resend(c) => CodeInv'
  <1> SUFFICES ASSUME NEW c \in Clients, CodeInv, Codes!Resend(c) PROVE CodeInv' OBVIOUS
  <1>1. /\ user.exists /\ codes' = codes /\ Codes!Goto(c, "begin") /\ ~ Codes!DailyLimitReached
        /\ UNCHANGED <<purpose, rowLocks, user, attempts, resets>>
    BY DEF Codes!Resend
  <1>2. PICK x : CodeMoves(c, x) /\ x \in CodeCalls /\ x.step = "begin"
    BY <1>1, CodeGoes DEF CodeInv, Codes!Steps
  <1>3. user' \in Codes!Users /\ user'.exists /\ attempts' \in [Ips -> Codes!AttemptRows]
    BY <1>1 DEF CodeInv, CodesTyped
  <1>4. CodeCallFine(x)' BY <1>2 DEF CodeCallFine
  <1>5. CodesKept /\ AcceptancesStay BY <1>1, CodesSame DEF CodeInv
  <1>6. resets' \in Nat /\ resets' + Cardinality(Confirming') <= resets + Cardinality(Confirming)
    BY <1>1, <1>2, ConfirmingFewer
  <1>7. CodesTyped' /\ CodesUserFine' /\ AcceptedAndUsed' /\ ResetsCovered'
    BY <1>1, <1>2, <1>3, <1>4, <1>5, <1>6, CodesMoved
  <1>8. FewUnused' BY <1>2, <1>5, CodesFewStay
  <1>9. TodayFits'
    <2>1. PICK t, m : t = CodesToday' /\ m = Making' OBVIOUS
    <2>2. t = Codes!Today BY <1>1, <2>1 DEF CodesToday, Codes!Today
    <2>3. t \in SUBSET DOMAIN codes BY <2>2 DEF Codes!Today
    <2>4. Cardinality(t) \in Nat BY <2>3, CodeRows, FS_Subset, FS_CardinalityType DEF CodeInv
    <2>5. Cardinality(t) < MaxDaily
      BY <1>1, <2>2, <2>4, CodesCardinality, LimitsAssumption DEF Codes!DailyLimitReached
    <2>6. Cardinality(m) \in Nat /\ Cardinality(m) <= Cardinality(Clients)
      BY <2>1, ClientsCount DEF Making
    <2> QED BY <2>1, <2>4, <2>5, <2>6, ClientsCount, LimitsAssumption DEF TodayFits
  <1> QED BY <1>7, <1>8, <1>9 DEF CodeInv

LEMMA CodesRequest == \A c \in Clients : CodeInv /\ Codes!RequestReset(c) => CodeInv'
  <1> SUFFICES ASSUME NEW c \in Clients, CodeInv, Codes!RequestReset(c) PROVE CodeInv' OBVIOUS
  <1>1. /\ purpose = "PASSWORD_RESET" /\ codes' = codes /\ Codes!Goto(c, "begin")
        /\ UNCHANGED <<purpose, rowLocks, user, attempts, resets>>
    BY DEF Codes!RequestReset
  <1>2. PICK x : CodeMoves(c, x) /\ x \in CodeCalls /\ x.step = "begin"
    BY <1>1, CodeGoes DEF CodeInv, Codes!Steps
  <1>3. user' \in Codes!Users /\ user'.exists /\ attempts' \in [Ips -> Codes!AttemptRows]
    BY <1>1 DEF CodeInv, CodesTyped, CodesUserFine
  <1>4. CodeCallFine(x)' BY <1>2 DEF CodeCallFine
  <1>5. CodesKept /\ AcceptancesStay BY <1>1, CodesSame DEF CodeInv
  <1>6. resets' \in Nat /\ resets' + Cardinality(Confirming') <= resets + Cardinality(Confirming)
    BY <1>1, <1>2, ConfirmingFewer
  <1> QED BY <1>1, <1>2, <1>3, <1>4, <1>5, <1>6, CodesQuiet

(* A code that is begun will retire those of now: the codes after them do  *)
(* not count for it.                                                       *)
LEMMA CodesBegin == \A c \in Clients : CodeInv /\ Codes!BeginCode(c) => CodeInv'
  <1> SUFFICES ASSUME NEW c \in Clients, CodeInv, Codes!BeginCode(c) PROVE CodeInv' OBVIOUS
  <1>1. /\ calls[c].step = "begin" /\ codes' = codes
        /\ calls' = [calls EXCEPT ![c].step = "commit", ![c].seen = Len(codes)]
        /\ UNCHANGED <<purpose, rowLocks, user, attempts, resets>>
    BY DEF Codes!BeginCode
  <1>2. PICK n, y, x : n = Len(codes) /\ y = calls[c] /\ x = [y EXCEPT !.step = "commit", !.seen = n]
    OBVIOUS
  <1>3. n \in 0..Bound /\ DOMAIN codes = 1..n
    BY <1>2, CodeRows, LimitsAssumption DEF CodeInv, CodesTyped
  <1>4. x \in CodeCalls /\ x.step = "commit" /\ x.seen = n
    BY <1>2, <1>3, CodeCallIs DEF CodeInv, CodeCalls, Codes!Steps
  <1>5. CodeMoves(c, x) BY <1>1, <1>2 DEF CodeMoves
  <1>6. CodeCallFine(x)' BY <1>4 DEF CodeCallFine
  <1>7. CodesKept /\ AcceptancesStay BY <1>1, CodesSame DEF CodeInv
  <1>8. user.exists /\ user \in Codes!Users /\ attempts \in [Ips -> Codes!AttemptRows]
    BY <1>1 DEF CodeInv, CodesUserFine, CodesTyped
  <1>9. resets' \in Nat /\ resets' + Cardinality(Confirming') <= resets + Cardinality(Confirming)
    BY <1>1, <1>4, <1>5, ConfirmingFewer
  <1>10. CodesTyped' /\ CodesUserFine' /\ AcceptedAndUsed' /\ ResetsCovered'
    BY <1>1, <1>5, <1>6, <1>7, <1>8, <1>9, CodesMoved
  <1>11. TodayFits' BY <1>1, <1>5, <1>7, CodesTodayStay DEF MakingSteps
  <1>12. FewUnused'
    <2> SUFFICES ASSUME NEW k \in Nat
                 PROVE  Cardinality(UnusedFrom(k)') + Cardinality(SeenBefore(k)') <= Cardinality(Clients)
      BY DEF FewUnused
    <2>1. PICK v, t : v = UnusedFrom(k)' /\ t = SeenBefore(k)' OBVIOUS
    <2>2. v = UnusedFrom(k) BY <1>1, <2>1 DEF UnusedFrom
    <2>3. CASE k > n
      <3>1. v = {} BY <1>3, <2>2, <2>3 DEF UnusedFrom
      <3>2. Cardinality(v) = 0 BY <3>1, FS_EmptySet
      <3>3. t \in SUBSET Clients BY <2>1 DEF SeenBefore
      <3> QED BY <2>1, <3>2, <3>3, ClientsCount
    <2>4. CASE ~ (k > n)
      <3>1. t \subseteq SeenBefore(k)
        BY <1>3, <1>4, <1>5, <2>1, <2>4 DEF CodeMoves, CodeInv, CodesTyped, SeenBefore
      <3>2. SeenBefore(k) \in SUBSET Clients /\ UnusedFrom(k) \in SUBSET DOMAIN codes
        BY DEF SeenBefore, UnusedFrom
      <3>3. Cardinality(t) <= Cardinality(SeenBefore(k)) /\ Cardinality(t) \in Nat /\ Cardinality(SeenBefore(k)) \in Nat
        BY <3>1, <3>2, ClientsCount, SmallerCounts
      <3>4. Cardinality(UnusedFrom(k)) \in Nat
        BY <3>2, CodeRows, FS_Subset, FS_CardinalityType DEF CodeInv
      <3>5. Cardinality(UnusedFrom(k)) + Cardinality(SeenBefore(k)) <= Cardinality(Clients)
        BY DEF CodeInv, FewUnused
      <3> QED BY <2>1, <2>2, <3>3, <3>4, <3>5, ClientsCount
    <2> QED BY <2>3, <2>4
  <1> QED BY <1>10, <1>11, <1>12 DEF CodeInv

LEMMA CodesCommit == \A c \in Clients : CodeInv /\ Codes!CommitCode(c) => CodeInv'
  <1> SUFFICES ASSUME NEW c \in Clients, CodeInv, Codes!CommitCode(c) PROVE CodeInv' OBVIOUS
  <1>1. PICK y, n, x, rows : /\ y = calls[c] /\ n = Len(codes) /\ x = [y EXCEPT !.step = "mail", !.code = n + 1]
            /\ rows = [i \in DOMAIN codes |-> [codes[i] EXCEPT !.used = @ \/ i <= y.seen]]
    OBVIOUS
  <1>2. /\ y.step = "commit" /\ n < Bound /\ codes' = Append(rows, Codes!NewCode)
        /\ CodeMoves(c, x) /\ UNCHANGED <<purpose, rowLocks, user, attempts, resets>>
    BY <1>1 DEF Codes!CommitCode, Codes!Retired, CodeMoves
  <1>3. y \in CodeCalls /\ y.seen \in Nat BY <1>1, CodeCallIs DEF CodeInv, CodeCalls
  <1>4. n \in Nat /\ DOMAIN codes = 1..n /\ IsFiniteSet(DOMAIN codes) /\ \A i \in 1..n : codes[i] \in Codes!Codes
    BY <1>1, CodeRows DEF CodeInv
  <1>5. /\ rows = [i \in DOMAIN codes |-> rows[i]]
        /\ \A i \in DOMAIN codes : /\ rows[i] \in Codes!Codes
                                   /\ codes[i].used \/ i <= y.seen => rows[i].used
                                   /\ rows[i].used => codes[i].used \/ i <= y.seen
                                   /\ rows[i].age = codes[i].age /\ rows[i].accepted = codes[i].accepted
    <2>1. rows = [i \in DOMAIN codes |-> rows[i]] BY <1>1
    <2>2. ASSUME NEW i \in DOMAIN codes
          PROVE  /\ rows[i] \in Codes!Codes
                 /\ codes[i].used \/ i <= y.seen => rows[i].used
                 /\ rows[i].used => codes[i].used \/ i <= y.seen
                 /\ rows[i].age = codes[i].age /\ rows[i].accepted = codes[i].accepted
      BY <1>1, <1>4 DEF Codes!Codes
    <2> QED BY <2>1, <2>2
  <1>6. rows \in Seq(Codes!Codes) /\ Len(rows) = n /\ DOMAIN rows = DOMAIN codes
    <2>1. codes \in Seq(Codes!Codes) BY DEF CodeInv, CodesTyped
    <2>2. rows \in Seq(Codes!Codes) /\ Len(rows) = Len(codes) /\ DOMAIN rows = DOMAIN codes
      BY <1>5, <2>1, RowsRewritten
    <2> QED BY <1>1, <2>2
  <1>7. PICK z : z = Codes!NewCode OBVIOUS
  <1>8. z \in Codes!Codes /\ z.age = "fresh" /\ ~ z.used /\ z.accepted = 0
    BY <1>7, LimitsAssumption DEF Codes!NewCode, Codes!Codes, Codes!Ages
  <1>9. /\ codes' \in Seq(Codes!Codes) /\ Len(codes') = n + 1 /\ DOMAIN codes' = 1..(n + 1)
        /\ \A i \in DOMAIN codes : codes'[i] = rows[i]
        /\ codes'[n + 1] = z
    BY <1>2, <1>6, <1>7, <1>8, RowAdded
  <1>10. n + 1 \in 0..Bound /\ n + 1 \in DOMAIN codes' /\ DOMAIN codes \subseteq DOMAIN codes' /\ n + 1 \notin DOMAIN codes
         /\ DOMAIN codes' = DOMAIN codes \cup {n + 1}
    BY <1>2, <1>4, <1>9, LimitsAssumption
  <1>11. x \in CodeCalls /\ x.step = "mail" /\ x.code = n + 1
    BY <1>1, <1>3, <1>10 DEF CodeCalls, Codes!Steps
  <1>12. CodeCallFine(x)' BY <1>10, <1>11 DEF CodeCallFine
  <1>13. CodesLater BY <1>2, <1>10 DEF CodesLater
  <1>14. /\ calls' = [d \in Clients |-> calls'[d]] /\ calls'[c] = x
         /\ \A d \in Clients : d # c => calls'[d] = calls[d]
         /\ \A d \in Clients : CodeCallFine(calls[d])'
    BY <1>2, <1>12, <1>13, CodeCallsMove DEF CodeInv
  <1>15. CodesTyped' BY <1>2, <1>9, <1>10, <1>14 DEF CodeInv, CodesTyped
  <1>16. CodesUserFine' BY <1>1, <1>2, <1>5, <1>9, <1>10 DEF CodeInv, CodesUserFine
  <1>17. AcceptedAndUsed'
    <2>1. ASSUME NEW i \in DOMAIN codes'
          PROVE  (codes'[i].accepted > 0 => codes'[i].used) /\ (purpose = "REGISTER" => codes'[i].accepted <= 1)
      <3>1. CASE i = n + 1 BY <1>8, <1>9, <3>1
      <3>2. CASE i \in DOMAIN codes BY <1>5, <1>9, <3>2 DEF CodeInv, AcceptedAndUsed
      <3> QED BY <1>10, <3>1, <3>2
    <2> QED BY <1>2, <2>1 DEF AcceptedAndUsed
  <1>18. ResetsCovered'
    <2>1. PICK f, h, D, t, r : f = AcceptedOf /\ h = AcceptedOf' /\ D = DOMAIN codes /\ t = Cardinality(Confirming') /\ r = resets'
      OBVIOUS
    <2>2. \A i \in D : f[i] = codes[i].accepted /\ f[i] \in Int /\ h[i] = f[i]
      BY <1>4, <1>5, <1>9, <1>10, <2>1 DEF AcceptedOf, Codes!Codes
    <2>3. SumOf(h, D) = SumOf(f, D) /\ SumOf(f, D) \in Int
      BY <1>4, <2>1, <2>2, SumsAgree, SumIsInteger
    <2>4. PICK S : S = D \cup {n + 1} OBVIOUS
    <2>5. S = DOMAIN codes' /\ S \ {n + 1} = D /\ n + 1 \in S /\ IsFiniteSet(S)
      <3>1. IsFiniteSet(D) BY <1>4, <2>1
      <3>2. IsFiniteSet(S) BY <2>4, <3>1, FS_AddElement
      <3>3. S = DOMAIN codes' /\ n + 1 \notin D BY <1>10, <2>1, <2>4
      <3> QED BY <2>4, <3>2, <3>3
    <2>6. h[n + 1] = 0 BY <1>8, <1>9, <1>10, <2>1 DEF AcceptedOf
    <2>7. \A i \in S : h[i] \in Int BY <2>2, <2>4, <2>6
    <2>8. SumOf(h, S) = h[n + 1] + SumOf(h, S \ {n + 1}) BY <2>5, <2>7, TakeOut
    <2>9. SumOf(h, S) = SumOf(f, D) BY <2>3, <2>5, <2>6, <2>8
    <2>10. AcceptedSum = SumOf(f, D) /\ AcceptedSum' = SumOf(h, S) BY <2>1, <2>5 DEF AcceptedSum
    <2>11. r \in Nat /\ r + t <= resets + Cardinality(Confirming) /\ r = resets
      BY <1>2, <1>11, <2>1, ConfirmingFewer
    <2>12. t \in Nat /\ Cardinality(Confirming) \in Nat BY <2>1, ClientsCount DEF Confirming
    <2>13. r + t <= SumOf(f, D) BY <2>3, <2>10, <2>11, <2>12 DEF CodeInv, ResetsCovered
    <2> QED BY <2>1, <2>9, <2>10, <2>13 DEF ResetsCovered
  <1>19. FewUnused'
    <2> SUFFICES ASSUME NEW k \in Nat
                 PROVE  Cardinality(UnusedFrom(k)') + Cardinality(SeenBefore(k)') <= Cardinality(Clients)
      BY DEF FewUnused
    <2>1. PICK m \in Nat : m >= k /\ m > y.seen /\ \A i \in Nat : i >= k /\ i > y.seen => i >= m
      <3>1. CASE k > y.seen BY <1>3, <3>1
      <3>2. CASE ~ (k > y.seen)
        <4>1. PICK m \in Nat : m = y.seen + 1 BY <1>3
        <4> QED BY <1>3, <3>2, <4>1
      <3> QED BY <3>1, <3>2
    <2>2. PICK v, t, u, s : v = UnusedFrom(k)' /\ t = SeenBefore(k)' /\ u = UnusedFrom(m) /\ s = SeenBefore(m)
      OBVIOUS
    <2>3. v \subseteq u \cup {n + 1}
      <3> SUFFICES ASSUME NEW i \in v, i # n + 1 PROVE i \in u OBVIOUS
      <3>1. i \in DOMAIN codes /\ i \in Nat /\ ~ rows[i].used /\ i >= k
        BY <1>4, <1>9, <1>10, <2>2 DEF UnusedFrom
      <3>2. ~ codes[i].used /\ i > y.seen BY <1>3, <1>5, <3>1
      <3> QED BY <2>1, <2>2, <3>1, <3>2 DEF UnusedFrom
    <2>4. t \subseteq s \ {c} /\ c \in s
      <3>1. c \in s BY <1>1, <1>2, <2>1, <2>2 DEF SeenBefore
      <3>2. ASSUME NEW d \in t PROVE d \in s \ {c}
        BY <1>11, <1>14, <2>1, <2>2, CodeCallIs DEF SeenBefore, CodeInv, CodeCalls
      <3> QED BY <3>1, <3>2
    <2>5. IsFiniteSet(u) /\ IsFiniteSet(s)
      BY <1>4, <2>2, FS_Subset, ClientsAssumption DEF UnusedFrom, SeenBefore
    <2>6. Cardinality(v) \in Nat /\ Cardinality(v) <= Cardinality(u) + 1 /\ Cardinality(u) \in Nat
      <3>1. /\ IsFiniteSet(u \cup {n + 1}) /\ Cardinality(u) \in Nat
            /\ \/ Cardinality(u \cup {n + 1}) = Cardinality(u)
               \/ Cardinality(u \cup {n + 1}) = Cardinality(u) + 1
        BY <2>5, FS_AddElement, FS_CardinalityType
      <3> QED BY <2>3, <3>1, SmallerCounts
    <2>7. Cardinality(t) \in Nat /\ Cardinality(t) <= Cardinality(s) - 1 /\ Cardinality(s) \in Nat
      <3>1. IsFiniteSet(s \ {c}) /\ Cardinality(s \ {c}) = Cardinality(s) - 1 /\ Cardinality(s) \in Nat
        BY <2>4, <2>5, FS_RemoveElement, FS_CardinalityType
      <3> QED BY <2>4, <3>1, SmallerCounts
    <2>8. Cardinality(u) + Cardinality(s) <= Cardinality(Clients) BY <2>2 DEF CodeInv, FewUnused
    <2> QED BY <2>2, <2>6, <2>7, <2>8, ClientsCount
  <1>20. TodayFits'
    <2> SUFFICES ASSUME purpose = "REGISTER"
                 PROVE  Cardinality(CodesToday') + Cardinality(Making') < MaxDaily + Cardinality(Clients)
      BY <1>2 DEF TodayFits
    <2>1. PICK v, t : v = CodesToday' /\ t = Making' OBVIOUS
    <2>2. v \subseteq CodesToday \cup {n + 1} BY <1>5, <1>9, <1>10, <2>1 DEF CodesToday
    <2>3. t = Making \ {c} /\ c \in Making BY <1>1, <1>2, <1>11, <1>14, <2>1 DEF Making, MakingSteps
    <2>4. IsFiniteSet(CodesToday) /\ IsFiniteSet(Making)
      BY <1>4, FS_Subset, ClientsAssumption DEF CodesToday, Making
    <2>5. Cardinality(v) \in Nat /\ Cardinality(v) <= Cardinality(CodesToday) + 1 /\ Cardinality(CodesToday) \in Nat
      <3>1. /\ IsFiniteSet(CodesToday \cup {n + 1}) /\ Cardinality(CodesToday) \in Nat
            /\ \/ Cardinality(CodesToday \cup {n + 1}) = Cardinality(CodesToday)
               \/ Cardinality(CodesToday \cup {n + 1}) = Cardinality(CodesToday) + 1
        BY <2>4, FS_AddElement, FS_CardinalityType
      <3> QED BY <2>2, <3>1, SmallerCounts
    <2>6. Cardinality(t) = Cardinality(Making) - 1 /\ Cardinality(Making) \in Nat
      BY <2>3, <2>4, FS_RemoveElement, FS_CardinalityType
    <2>7. Cardinality(CodesToday) + Cardinality(Making) < MaxDaily + Cardinality(Clients)
      BY DEF CodeInv, TodayFits
    <2> QED BY <2>1, <2>5, <2>6, <2>7, ClientsCount, LimitsAssumption
  <1> QED BY <1>15, <1>16, <1>17, <1>18, <1>19, <1>20 DEF CodeInv

LEMMA CodeRowChanges ==
    ASSUME CodesTyped, NEW i \in DOMAIN codes, NEW v \in Codes!Codes, codes' = [codes EXCEPT ![i] = v],
           codes[i].used => v.used, codes[i].age = "old" => v.age = "old", v.accepted = codes[i].accepted
    PROVE  CodesKept /\ AcceptancesStay
  BY RowChanged DEF CodesTyped, CodesKept, AcceptancesStay

LEMMA CodeUsedUp ==
    ASSUME CodesTyped, NEW i \in DOMAIN codes, codes' = [codes EXCEPT ![i].used = TRUE]
    PROVE  CodesKept /\ AcceptancesStay
  BY CodeRows, CodeRowChanges DEF Codes!Codes

(* A request that ends and accepts no code.                                *)
LEMMA CodesEnd ==
    ASSUME CodeInv, NEW c \in Clients, calls[c].step # "idle", Codes!Finish(c), CodesKept, AcceptancesStay,
           UNCHANGED <<purpose, rowLocks, user>>, attempts' \in [Ips -> Codes!AttemptRows],
           \/ resets' = resets
           \/ resets' = resets + 1 /\ calls[c].step = "confirm"
    PROVE  CodeInv'
  BY CodeEnds, IdleIsFine, ConfirmingFewer, CodesQuiet DEF CodeInv, CodesTyped, CodesUserFine,
     MakingSteps

LEMMA CodesMail == \A c \in Clients : CodeInv /\ Codes!Mail(c) => CodeInv'
  BY CodesSame, CodeUsedUp, CodesEnd DEF Codes!Mail, CodeInv, CodesTyped, CodeCallFine

LEMMA CodesReadAttempts == \A c \in Clients : CodeInv /\ Codes!ReadAttempts(c) => CodeInv'
  <1> SUFFICES ASSUME NEW c \in Clients, CodeInv, Codes!ReadAttempts(c) PROVE CodeInv' OBVIOUS
  <1>1. PICK r : r = IF attempts[calls[c].ip] = Absent THEN 0 ELSE attempts[calls[c].ip] OBVIOUS
  <1>2. /\ user.exists /\ codes' = codes /\ purpose = "REGISTER" /\ calls[c].step = "idle"
        /\ attempts' = [attempts EXCEPT ![calls[c].ip] = r]
        /\ UNCHANGED <<purpose, rowLocks, user, resets>>
    BY <1>1 DEF Codes!ReadAttempts
  <1>3. PICK n \in {0, r} : IF n < MaxTries
                            THEN calls' = [calls EXCEPT ![c].step = "check", ![c].tries = n]
                            ELSE UNCHANGED calls
    BY <1>1 DEF Codes!ReadAttempts
  <1>4. r \in 0..MaxTries /\ n \in 0..MaxTries
    BY <1>1, CodeCallIs, LimitsAssumption DEF CodeInv, CodesTyped, Codes!AttemptRows
  <1>5. attempts' \in [Ips -> Codes!AttemptRows]
    BY <1>2, <1>4 DEF CodeInv, CodesTyped, Codes!AttemptRows
  <1>6. CodesKept /\ AcceptancesStay /\ user' \in Codes!Users
    BY <1>2, CodesSame DEF CodeInv, CodesTyped
  <1>7. CASE calls' = calls
    <2>1. /\ CodeMoves(c, calls[c])
          /\ resets' \in Nat /\ resets' + Cardinality(Confirming') <= resets + Cardinality(Confirming)
      BY <1>2, <1>7, CallsStand
    <2>2. PICK y : y = calls[c] OBVIOUS
    <2>3. CodeCallFine(y)' BY <1>2, <2>2, CodeCallLater DEF CodeInv, CodesTyped, CodesLater
    <2>4. CodeMoves(c, y) /\ y.step \notin MakingSteps BY <1>2, <2>1, <2>2 DEF MakingSteps
    <2> QED BY <1>2, <1>5, <1>6, <2>1, <2>2, <2>3, <2>4, CodesQuiet
  <1>8. CASE n < MaxTries /\ calls' = [calls EXCEPT ![c].step = "check", ![c].tries = n]
    <2>1. PICK y, x : y = calls[c] /\ x = [y EXCEPT !.step = "check", !.tries = n] OBVIOUS
    <2>2. x \in CodeCalls /\ x.step = "check" /\ x.tries = n
      BY <1>4, <2>1, CodeCallIs DEF CodeInv, CodeCalls, Codes!Steps
    <2>3. CodeMoves(c, x) BY <1>8, <2>1 DEF CodeMoves
    <2>4. CodeCallFine(x)' BY <1>2, <1>8, <2>2 DEF CodeCallFine
    <2>5. resets' \in Nat /\ resets' + Cardinality(Confirming') <= resets + Cardinality(Confirming)
      BY <1>2, <2>2, <2>3, ConfirmingFewer
    <2>6. x.step \notin MakingSteps /\ x.step # "commit" BY <2>2 DEF MakingSteps
    <2> QED BY <1>2, <1>5, <1>6, <2>3, <2>4, <2>5, <2>6, CodesQuiet
  <1> QED BY <1>3, <1>7, <1>8

LEMMA CodesVerify == \A c \in Clients : CodeInv /\ Codes!VerifyRegistration(c) => CodeInv'
  <1> SUFFICES ASSUME NEW c \in Clients, CodeInv, Codes!VerifyRegistration(c) PROVE CodeInv' OBVIOUS
  <1>1. calls[c].step = "check" /\ UNCHANGED <<purpose, rowLocks, attempts, resets>>
    BY DEF Codes!VerifyRegistration
  <1>2. /\ purpose = "REGISTER" /\ calls[c].tries < MaxTries /\ user.exists /\ user \in Codes!Users
        /\ attempts' \in [Ips -> Codes!AttemptRows]
    BY <1>1 DEF CodeInv, CodesTyped, CodeCallFine, CodesUserFine
  <1>3. CASE /\ Codes!Live /\ codes' = Codes!Consume(Codes!Newest)
             /\ user' = [user EXCEPT !.active = TRUE, !.verified = TRUE] /\ Codes!Goto(c, "accepted")
    <2>1. PICK x : CodeMoves(c, x) /\ x \in CodeCalls /\ x.step = "accepted"
      BY <1>3, CodeGoes DEF CodeInv, Codes!Steps
    <2>2. CodeCallFine(x)' BY <1>1, <1>2, <2>1 DEF CodeCallFine
    <2>3. PICK i : i = Codes!Newest OBVIOUS
    <2>4. i \in DOMAIN codes /\ codes[i].accepted = 0 /\ codes' = Codes!Consume(i)
      BY <1>3, <2>3, NewestCode DEF Codes!Live
    <2>5. user' \in Codes!Users /\ user'.exists BY <1>2, <1>3 DEF Codes!Users
    <2>6. x.step \notin MakingSteps BY <2>1 DEF MakingSteps
    <2> QED BY <1>1, <2>1, <2>2, <2>4, <2>5, <2>6, CodesAccepted
  <1>4. CASE Codes!Goto(c, "rejected") /\ UNCHANGED <<codes, user>>
    <2>1. PICK x : CodeMoves(c, x) /\ x \in CodeCalls /\ x.step = "rejected" /\ x.tries = calls[c].tries
      BY <1>4, CodeGoes DEF CodeInv, Codes!Steps
    <2>2. CodeCallFine(x)' BY <1>1, <1>2, <2>1 DEF CodeCallFine
    <2>3. CodesKept /\ AcceptancesStay BY <1>4, CodesSame DEF CodeInv
    <2>4. resets' \in Nat /\ resets' + Cardinality(Confirming') <= resets + Cardinality(Confirming)
      BY <1>1, <2>1, ConfirmingFewer
    <2>5. x.step \notin MakingSteps /\ x.step # "commit" BY <2>1 DEF MakingSteps
    <2> QED BY <1>1, <1>2, <1>4, <2>1, <2>2, <2>3, <2>4, <2>5, CodesQuiet
  <1> QED BY <1>3, <1>4 DEF Codes!VerifyRegistration

LEMMA CodesRecord == \A c \in Clients : CodeInv /\ Codes!RecordAttempt(c) => CodeInv'
  <1> SUFFICES ASSUME NEW c \in Clients, CodeInv, Codes!RecordAttempt(c) PROVE CodeInv' OBVIOUS
  <1>1. /\ calls[c].step # "idle" /\ Codes!Finish(c) /\ codes' = codes
        /\ UNCHANGED <<purpose, rowLocks, user, resets>>
    BY DEF Codes!RecordAttempt
  <1>2. CodesKept /\ AcceptancesStay BY <1>1, CodesSame DEF CodeInv
  <1>3. attempts' \in [Ips -> Codes!AttemptRows]
    BY CodeCallIs, LimitsAssumption DEF CodeInv, CodesTyped, CodeCallFine, Codes!RecordAttempt,
       Codes!AttemptRows
  <1> QED BY <1>1, <1>2, <1>3, CodesEnd

LEMMA CodesReadReset == \A c \in Clients : CodeInv /\ Codes!ReadReset(c) => CodeInv'
  <1> SUFFICES ASSUME NEW c \in Clients, CodeInv, Codes!ReadReset(c) PROVE CodeInv' OBVIOUS
  <1>1. /\ purpose = "PASSWORD_RESET" /\ Codes!Live /\ codes' = codes
        /\ UNCHANGED <<purpose, rowLocks, user, attempts, resets>>
    BY DEF Codes!ReadReset
  <1>2. PICK s, i, y, x : /\ s \in {"consume", "miss"} /\ i = Codes!Newest /\ y = calls[c]
                          /\ x = [y EXCEPT !.step = s, !.code = i, !.tries = codes[i].attempts]
                          /\ calls' = [calls EXCEPT ![c] = x]
    <2>1. PICK s \in {"consume", "miss"} :
              calls' = [calls EXCEPT ![c].step = s, ![c].code = Codes!Newest,
                                     ![c].tries = codes[Codes!Newest].attempts]
      BY DEF Codes!ReadReset
    <2>2. PICK i, y : i = Codes!Newest /\ y = calls[c] OBVIOUS
    <2>3. PICK x : x = [y EXCEPT !.step = s, !.code = i, !.tries = codes[i].attempts] OBVIOUS
    <2>4. calls' = [calls EXCEPT ![c] = x] BY <2>1, <2>2, <2>3
    <2> QED BY <2>2, <2>3, <2>4
  <1>3. i \in DOMAIN codes BY <1>1, <1>2, NewestCode DEF Codes!Live
  <1>4. i \in 0..Bound /\ codes[i].attempts \in 0..MaxTries /\ codes[i].attempts < MaxTries
    BY <1>1, <1>2, <1>3, CodeRows, LimitsAssumption DEF CodeInv, CodesTyped, Codes!Live, Codes!Codes
  <1>5. x \in CodeCalls /\ x.step = s /\ x.code = i /\ x.tries = codes[i].attempts
    BY <1>2, <1>4, CodeCallIs DEF CodeInv, Codes!Steps, CodeCalls
  <1>6. CodeMoves(c, x) BY <1>2 DEF CodeMoves
  <1>7. CodeCallFine(x)' BY <1>1, <1>2, <1>3, <1>4, <1>5 DEF CodeCallFine
  <1>8. CodesKept /\ AcceptancesStay BY <1>1, CodesSame DEF CodeInv
  <1>9. user' \in Codes!Users /\ user'.exists /\ attempts' \in [Ips -> Codes!AttemptRows]
    BY <1>1 DEF CodeInv, CodesTyped, CodesUserFine
  <1>10. x.step \notin MakingSteps /\ x.step # "commit" /\ x.step # "confirm"
    BY <1>2, <1>5 DEF MakingSteps
  <1>11. resets' \in Nat /\ resets' + Cardinality(Confirming') <= resets + Cardinality(Confirming)
    BY <1>1, <1>6, <1>10, ConfirmingFewer
  <1> QED BY <1>1, <1>6, <1>7, <1>8, <1>9, <1>10, <1>11, CodesQuiet

(* Codes that change while every request stands still.                     *)
LEMMA CodesStand ==
    ASSUME CodeInv, CodesKept, AcceptancesStay, UNCHANGED <<purpose, rowLocks, user, attempts, calls, resets>>,
           user.exists
    PROVE  CodeInv'
  <1>1. PICK c \in Clients : TRUE BY ClientsAssumption
  <1>2. PICK y : y = calls[c] OBVIOUS
  <1>3. /\ CodeMoves(c, y)
        /\ resets' \in Nat /\ resets' + Cardinality(Confirming') <= resets + Cardinality(Confirming)
    BY <1>2, CallsStand
  <1>4. CodeCallFine(y)' BY <1>2, CodeCallLater DEF CodeInv, CodesTyped, CodesLater, CodesKept
  <1>5. user' \in Codes!Users /\ attempts' \in [Ips -> Codes!AttemptRows] BY DEF CodeInv, CodesTyped
  <1> QED BY <1>2, <1>3, <1>4, <1>5, CodesQuiet

LEMMA CodesExpire == \A c \in Clients : CodeInv /\ Codes!ExpireReset(c) => CodeInv'
  BY NewestCode, CodeUsedUp, CodesStand DEF Codes!ExpireReset, CodeInv, CodesUserFine

LEMMA CodesMiss == \A c \in Clients : CodeInv /\ Codes!MissReset(c) => CodeInv'
  <1> SUFFICES ASSUME NEW c \in Clients, CodeInv, Codes!MissReset(c) PROVE CodeInv' OBVIOUS
  <1>1. PICK i, n, w, v : /\ i = calls[c].code /\ n = calls[c].tries + 1 /\ w = codes[i]
                          /\ v = [w EXCEPT !.attempts = n]
    OBVIOUS
  <1>2. /\ calls[c].step = "miss" /\ Codes!Finish(c) /\ codes' = [codes EXCEPT ![i] = v]
        /\ UNCHANGED <<purpose, rowLocks, user, attempts, resets>>
    BY <1>1 DEF Codes!MissReset
  <1>3. i \in DOMAIN codes /\ n \in 0..MaxTries
    BY <1>1, <1>2, CodeCallIs, LimitsAssumption DEF CodeInv, CodesTyped, CodeCallFine
  <1>4. v \in Codes!Codes /\ v.used = w.used /\ v.age = w.age /\ v.accepted = w.accepted
    BY <1>1, <1>3, CodeRows DEF CodeInv, Codes!Codes
  <1>5. CodesKept /\ AcceptancesStay BY <1>1, <1>2, <1>3, <1>4, CodeRowChanges DEF CodeInv
  <1>6. attempts' \in [Ips -> Codes!AttemptRows] BY <1>2 DEF CodeInv, CodesTyped
  <1> QED BY <1>2, <1>5, <1>6, CodesEnd

LEMMA CodesConsume == \A c \in Clients : CodeInv /\ Codes!ConsumeReset(c) => CodeInv'
  <1> SUFFICES ASSUME NEW c \in Clients, CodeInv, Codes!ConsumeReset(c) PROVE CodeInv' OBVIOUS
  <1>1. PICK i : i = calls[c].code OBVIOUS
  <1>2. /\ calls[c].step = "consume" /\ codes' = Codes!Consume(i) /\ (Codes!Finish(c) \/ Codes!Goto(c, "confirm"))
        /\ UNCHANGED <<purpose, rowLocks, user, attempts, resets>>
    BY <1>1 DEF Codes!ConsumeReset
  <1>3. /\ i \in DOMAIN codes /\ purpose = "PASSWORD_RESET" /\ user' \in Codes!Users /\ user'.exists
    BY <1>1, <1>2 DEF CodeInv, CodesTyped, CodeCallFine, CodesUserFine
  <1>4. PICK x : CodeMoves(c, x) /\ x \in CodeCalls /\ x.step \in {"idle", "confirm"}
    BY <1>2, CodeEnds, CodeGoes DEF CodeInv, Codes!Steps
  <1>5. CodeCallFine(x)' BY <1>2, <1>3, <1>4 DEF CodeCallFine
  <1>6. x.step \notin MakingSteps BY <1>4 DEF MakingSteps
  <1> QED BY <1>2, <1>3, <1>4, <1>5, <1>6, CodesAccepted

LEMMA CodesStore == \A c \in Clients : CodeInv /\ Codes!StorePassword(c) => CodeInv'
  <1> SUFFICES ASSUME NEW c \in Clients, CodeInv, Codes!StorePassword(c) PROVE CodeInv' OBVIOUS
  <1>1. /\ calls[c].step = "confirm" /\ Codes!Finish(c) /\ UNCHANGED <<purpose, rowLocks, user, attempts>>
        /\ \/ resets' = resets + 1 /\ codes' = Codes!UsedUp
           \/ resets' = resets /\ codes' = codes
    BY DEF Codes!StorePassword
  <1>2. ASSUME codes' = Codes!UsedUp PROVE CodesKept /\ AcceptancesStay
    <2>1. PICK rows : rows = [i \in DOMAIN codes |-> [codes[i] EXCEPT !.used = TRUE]] OBVIOUS
    <2>2. codes' = rows /\ rows = [i \in DOMAIN codes |-> rows[i]] BY <1>2, <2>1 DEF Codes!UsedUp
    <2>3. ASSUME NEW i \in DOMAIN codes
          PROVE  /\ rows[i] \in Codes!Codes /\ rows[i].used
                 /\ rows[i].age = codes[i].age /\ rows[i].accepted = codes[i].accepted
      BY <2>1, CodeRows DEF CodeInv, Codes!Codes
    <2>4. rows \in Seq(Codes!Codes) /\ Len(rows) = Len(codes) /\ DOMAIN rows = DOMAIN codes
      BY <2>2, <2>3, RowsRewritten DEF CodeInv, CodesTyped
    <2> QED BY <2>2, <2>3, <2>4 DEF CodesKept, AcceptancesStay
  <1>3. CodesKept /\ AcceptancesStay BY <1>1, <1>2, CodesSame DEF CodeInv
  <1>4. attempts' \in [Ips -> Codes!AttemptRows] BY <1>1 DEF CodeInv, CodesTyped
  <1> QED BY <1>1, <1>3, <1>4, CodesEnd

LEMMA CodesAge == \A i \in DOMAIN codes : CodeInv /\ Codes!Age(i) => CodeInv'
  <1> SUFFICES ASSUME NEW i \in DOMAIN codes, CodeInv, Codes!Age(i) PROVE CodeInv' OBVIOUS
  <1>1. PICK w, a, v : w = codes[i] /\ a = Codes!Older[w.age] /\ v = [w EXCEPT !.age = a] OBVIOUS
  <1>2. /\ w.age # "old" /\ codes' = [codes EXCEPT ![i] = v]
        /\ UNCHANGED <<purpose, rowLocks, user, attempts, calls, resets>>
    BY <1>1 DEF Codes!Age
  <1>3. w \in Codes!Codes /\ w.age \in {"fresh", "valid", "expired"}
    BY <1>1, <1>2, CodeRows DEF CodeInv, Codes!Codes, Codes!Ages
  <1>4. a \in Codes!Ages BY <1>1, <1>3 DEF Codes!Older, Codes!Ages
  <1>5. v \in Codes!Codes /\ v.used = w.used /\ v.accepted = w.accepted
    BY <1>1, <1>3, <1>4 DEF Codes!Codes
  <1>6. CodesKept /\ AcceptancesStay BY <1>1, <1>2, <1>5, CodeRowChanges DEF CodeInv
  <1>7. user.exists BY DEF CodeInv, CodesUserFine
  <1> QED BY <1>2, <1>6, <1>7, CodesStand

LEMMA CodesStop == \A c \in Clients : CodeInv /\ Codes!Stop(c) => CodeInv'
  BY CodesSame, CodesEnd DEF Codes!Stop, CodeInv, CodesTyped

LEMMA CodesNext == CodeInv /\ Codes!Next => CodeInv'
  BY CodesRegister, CodesHold, CodesResend, CodesRequest, CodesBegin, CodesCommit, CodesMail, CodesReadAttempts,
     CodesVerify, CodesRecord, CodesReadReset, CodesExpire, CodesMiss, CodesConsume, CodesStore, CodesAge, CodesStop
     DEF Codes!Next

(* The recursion of Acceptances is the one of SumOf.                       *)
AcceptancesIn(S) ==
    (CHOOSE g : g = [s \in SUBSET S |->
                        IF s = {} THEN 0
                        ELSE codes[CHOOSE x \in s : TRUE].accepted + g[s \ {CHOOSE x \in s : TRUE}]])[S]

LEMMA AcceptancesAreSum ==
    ASSUME CodesTyped
    PROVE  Codes!Acceptances = AcceptedSum
  <1>1. PICK S, f : S = DOMAIN codes /\ f = AcceptedOf OBVIOUS
  <1>2. Codes!Acceptances = AcceptancesIn(S)
    BY <1>1 DEF Codes!Acceptances, Codes!MapThenSumSet, Codes!MapThenFoldSet, AcceptancesIn
  <1>3. IsFiniteSet(S) /\ \A i \in S : f[i] \in Int /\ f[i] = codes[i].accepted
    BY <1>1, CodeRows DEF AcceptedOf, Codes!Codes
  <1>4. PICK g \in [SUBSET S -> Int] : (\A s \in SUBSET S : Solves(g, f, s)) /\ SumOf(f, S) = g[S]
    BY <1>3, SumIsSolution
  <1>5. \A s \in SUBSET S : s # {} => f[Some(s)] = codes[Some(s)].accepted BY <1>3, SomeIsMember
  <1>6. g = [s \in SUBSET S |-> IF s = {} THEN 0
                                ELSE codes[CHOOSE x \in s : TRUE].accepted + g[s \ {CHOOSE x \in s : TRUE}]]
    BY <1>4, <1>5 DEF Solves, Some
  <1> DEFINE G == CHOOSE h : h = [s \in SUBSET S |->
                        IF s = {} THEN 0
                        ELSE codes[CHOOSE x \in s : TRUE].accepted + h[s \ {CHOOSE x \in s : TRUE}]]
  <1>7. PICK h : /\ h = [s \in SUBSET S |->
                            IF s = {} THEN 0
                            ELSE codes[CHOOSE x \in s : TRUE].accepted + h[s \ {CHOOSE x \in s : TRUE}]]
                 /\ AcceptancesIn(S) = h[S]
    <2>1. G = [s \in SUBSET S |->
                  IF s = {} THEN 0
                  ELSE codes[CHOOSE x \in s : TRUE].accepted + G[s \ {CHOOSE x \in s : TRUE}]]
      BY <1>6, Zenon
    <2> QED BY <2>1, Zenon DEF AcceptancesIn
  <1>8. \A s \in SUBSET S : Solves(h, f, s) BY <1>5, <1>7 DEF Solves, Some
  <1>9. SumOf(f, S) = h[S] BY <1>3, <1>8, SumOfSubset
  <1> QED BY <1>1, <1>2, <1>7, <1>9 DEF AcceptedSum

LEMMA CodeInvSays == CodeInv => Codes!TypeOK /\ Codes!CodesAcceptedOnce /\ Codes!LimitsHold
  <1> SUFFICES ASSUME CodeInv PROVE Codes!TypeOK /\ Codes!CodesAcceptedOnce /\ Codes!LimitsHold
    OBVIOUS
  <1>1. CodesTyped /\ Codes!Acceptances = AcceptedSum BY AcceptancesAreSum DEF CodeInv
  <1>2. Codes!TypeOK BY <1>1 DEF CodesTyped, CodeCallFine, CodeCalls, Codes!Calls, Codes!TypeOK
  <1>3. IsFiniteSet(DOMAIN codes) /\ \A i \in DOMAIN codes : AcceptedOf[i] \in Nat /\ AcceptedOf[i] = codes[i].accepted
    BY <1>1, CodeRows DEF AcceptedOf, Codes!Codes
  <1>4. \A i \in DOMAIN codes : codes[i].accepted > 0 => AcceptedSum > 0
    <2> SUFFICES ASSUME NEW i \in DOMAIN codes, codes[i].accepted > 0 PROVE AcceptedSum > 0 OBVIOUS
    <2>1. PICK f, S, D : f = AcceptedOf /\ S = DOMAIN codes /\ D = S \ {i} OBVIOUS
    <2>2. IsFiniteSet(D) /\ IsFiniteSet(S) /\ i \in S /\ (\A x \in S : f[x] \in Nat /\ f[x] \in Int) /\ f[i] > 0
      BY <1>3, <2>1, FS_Subset
    <2>3. SumOf(f, S) = f[i] + SumOf(f, S \ {i}) BY <2>2, TakeOut
    <2>4. SumOf(f, D) \in Nat BY <2>1, <2>2, SumIsNatural
    <2>5. SumOf(f, S) > 0 BY <2>1, <2>2, <2>3, <2>4
    <2> QED BY <2>1, <2>5 DEF AcceptedSum
  <1>5. resets <= AcceptedSum
    <2>1. Cardinality(Confirming) \in Nat BY ClientsCount DEF Confirming
    <2>2. AcceptedSum \in Nat BY <1>3, SumIsNatural DEF AcceptedSum
    <2> QED BY <2>1, <2>2 DEF CodeInv, ResetsCovered, CodesTyped
  <1>6. Codes!Cardinality(Codes!Unused) <= Codes!Cardinality(Clients)
    <2>1. UnusedFrom(1) = Codes!Unused BY <1>1, CodeRows DEF UnusedFrom, Codes!Unused
    <2>2. Cardinality(SeenBefore(1)) \in Nat BY ClientsCount DEF SeenBefore
    <2>3. Cardinality(UnusedFrom(1)) \in Nat BY <1>3, SmallerCounts DEF UnusedFrom
    <2>4. Cardinality(UnusedFrom(1)) + Cardinality(SeenBefore(1)) <= Cardinality(Clients)
      BY DEF CodeInv, FewUnused
    <2>5. Cardinality(UnusedFrom(1)) <= Cardinality(Clients) BY <2>2, <2>3, <2>4, ClientsCount
    <2> QED BY <2>1, <2>5, CodesCardinality
  <1>7. Codes!CodesAcceptedOnce
    BY <1>1, <1>4, <1>5, <1>6 DEF CodeInv, CodesUserFine, AcceptedAndUsed, Codes!CodesAcceptedOnce
  <1>8. purpose = "REGISTER" => Codes!Cardinality(Codes!Today) < MaxDaily + Codes!Cardinality(Clients)
    <2> SUFFICES ASSUME purpose = "REGISTER" PROVE Codes!Cardinality(Codes!Today) < MaxDaily + Codes!Cardinality(Clients)
      OBVIOUS
    <2>1. Codes!Today = CodesToday BY DEF Codes!Today, CodesToday
    <2>2. Cardinality(Making) \in Nat BY ClientsCount DEF Making
    <2>3. Cardinality(CodesToday) \in Nat BY <1>3, SmallerCounts DEF CodesToday
    <2>4. Cardinality(CodesToday) + Cardinality(Making) < MaxDaily + Cardinality(Clients)
      BY DEF CodeInv, TodayFits
    <2>5. Cardinality(CodesToday) < MaxDaily + Cardinality(Clients)
      BY <2>2, <2>3, <2>4, ClientsCount, LimitsAssumption
    <2> QED BY <2>1, <2>5, CodesCardinality
  <1>9. Codes!LimitsHold
    BY <1>1, <1>8, AbsentAssumption, LimitsAssumption DEF CodesTyped, Codes!AttemptRows, Codes!LimitsHold
  <1> QED BY <1>2, <1>7, <1>9
-----------------------------------------------------------------------------
(* A step changes the component that the behaviour is about, and no other. *)
LEMMA AccountParts ==
    ASSUME [AccountsNext]_accountsVars
    PROVE  /\ part' = part
           /\ part = "Codes" => Codes!Next \/ UNCHANGED codesVars
           /\ part = "Logins" => Logins!Next \/ UNCHANGED loginsVars
           /\ part = "Invites" => Invites!Next \/ UNCHANGED invitesVars
           /\ part = "Admins" => Admins!Next \/ UNCHANGED adminsVars
           /\ part = "Seeding" => Seeding!Next \/ UNCHANGED seedingVars
           /\ part = "Setup" => Setup!Next \/ UNCHANGED setupVars
           /\ part = "Avatar" => Avatar!Next \/ UNCHANGED avatarVars
           /\ part = "Logo" => Logo!Next \/ UNCHANGED avatarVars
           /\ part = "Choices" => Choices!Next \/ UNCHANGED choicesVars
  BY DEF AccountsNext, accountsVars, CodesStep, LoginsStep, InvitesStep, AdminsStep, SeedingStep,
         SetupStep, AvatarStep, LogoStep, ChoicesStep

(* ProfilesHold, of pictures as long as nothing failed and no save of the  *)
(* profile page came between: for any number of requests, pages, files and *)
(* changes.                                                                *)
THEOREM ProfilesAreSound == AccountsSpec => []ProfilesHold
  <1> DEFINE Inv == /\ part = "Setup" => SetupInv
                    /\ part \in {"Avatar", "Logo"} => ImageInv
                    /\ part = "Choices" => ChoicesInv
  <1>1. AccountsInit => Inv
    BY SetupInit, AvatarIsImage, LogoIsImage, ImageInit, ChoicesInit DEF AccountsInit
  <1>2. Inv /\ [AccountsNext]_accountsVars => Inv'
    <2> SUFFICES ASSUME Inv, [AccountsNext]_accountsVars PROVE Inv' OBVIOUS
    <2>1. part = "Setup" => SetupInv' BY AccountParts, SetupNext, SetupStutter
    <2>2. part = "Avatar" => ImageInv' BY AccountParts, AvatarIsImage, ImageNext, ImageStutter
    <2>3. part = "Logo" => ImageInv' BY AccountParts, LogoIsImage, ImageNext, ImageStutter
    <2>4. part = "Choices" => ChoicesInv' BY AccountParts, ChoicesNext, ChoicesStutter
    <2> QED BY <2>1, <2>2, <2>3, <2>4, AccountParts
  <1>3. Inv => ProfilesHold BY SetupInvSays, ImageInvSays DEF ChoicesInv, ProfilesHold
  <1> QED BY <1>1, <1>2, <1>3, PTL DEF AccountsSpec

(* RolesAreGranted, with its exceptions for a lost worker, overlapping     *)
(* tests for the last Super Admin, expired roles and overlapped seedings:  *)
(* for any users, workspaces, roles, permissions and requests.             *)
THEOREM RolesAreSound == AccountsSpec => []RolesAreGranted
  <1> DEFINE Inv == /\ part = "Invites" => InviteInv
                    /\ part = "Admins" => AdminInv
                    /\ part = "Seeding" => SeedInv
  <1>1. AccountsInit => Inv BY InvitesInit, AdminsInit, SeedingInit DEF AccountsInit
  <1>2. Inv /\ [AccountsNext]_accountsVars => Inv'
    BY AccountParts, InvitesNext, InvitesStutter, AdminsNext, AdminsStutter, SeedingNext, SeedingStutter
  <1>3. Inv => RolesAreGranted BY InviteInvSays, AdminInvSays, SeedInvSays DEF RolesAreGranted
  <1> QED BY <1>1, <1>2, <1>3, PTL DEF AccountsSpec

(* However often and side by side the seeding runs, stops and starts       *)
(* again, an account that has a password of its own keeps it.              *)
THEOREM PasswordsStay == AccountsSpec => PasswordsAreKept
  <1> DEFINE Inv == part = "Seeding" => SeedInv
  <1>1. AccountsInit => Inv BY SeedingInit DEF AccountsInit
  <1>2. Inv /\ [AccountsNext]_accountsVars => Inv' BY AccountParts, SeedingNext, SeedingStutter
  <1>3. Inv /\ [AccountsNext]_accountsVars => [part = "Seeding" => Seeding!KeepsPasswords]_accountsVars
    BY SeedKeepsPasswords DEF AccountsNext, CodesStep, LoginsStep, InvitesStep, AdminsStep, SeedingStep,
       SetupStep, AvatarStep, LogoStep, ChoicesStep
  <1> QED BY <1>1, <1>2, <1>3, PTL DEF AccountsSpec, PasswordsAreKept

(* LoginsAreGuarded, where the lock is that of the counter (concurrent     *)
(* failures may be counted once) and the limits those that requests side by*)
(* side can pass: for any number of clients, tries, codes, tokens and      *)
(* sessions.                                                               *)
THEOREM LoginsAreSound == AccountsSpec => []LoginsAreGuarded
  <1> DEFINE Inv == /\ part = "Codes" => CodeInv
                    /\ part = "Logins" => LoginInv
  <1>1. AccountsInit => Inv BY CodesInit, LoginsInit DEF AccountsInit
  <1>2. Inv /\ [AccountsNext]_accountsVars => Inv'
    BY AccountParts, CodesNext, CodesStutter, LoginsNext, LoginsStutter
  <1>3. Inv => LoginsAreGuarded BY CodeInvSays, LoginInvSays DEF LoginsAreGuarded
  <1> QED BY <1>1, <1>2, <1>3, PTL DEF AccountsSpec

(* Every component of the accounts keeps its rows and requests in their    *)
(* types: what its own invariant says, for each of the nine.               *)
THEOREM AccountsAreTyped == AccountsSpec => []AccountsTypeOK
  <1> DEFINE Inv == /\ part = "Codes" => CodeInv
                    /\ part = "Logins" => LoginInv
                    /\ part = "Invites" => InviteInv
                    /\ part = "Admins" => AdminInv
                    /\ part = "Seeding" => SeedInv
                    /\ part = "Setup" => SetupInv
                    /\ part \in {"Avatar", "Logo"} => ImageInv
                    /\ part = "Choices" => ChoicesInv
  <1>1. AccountsInit => Inv
    BY CodesInit, LoginsInit, InvitesInit, AdminsInit, SeedingInit, SetupInit,
       AvatarIsImage, LogoIsImage, ImageInit, ChoicesInit DEF AccountsInit
  <1>2. Inv /\ [AccountsNext]_accountsVars => Inv'
    <2> SUFFICES ASSUME Inv, [AccountsNext]_accountsVars PROVE Inv' OBVIOUS
    <2>1. (part = "Codes" => CodeInv') /\ (part = "Logins" => LoginInv')
      BY AccountParts, CodesNext, CodesStutter, LoginsNext, LoginsStutter
    <2>2. (part = "Invites" => InviteInv') /\ (part = "Admins" => AdminInv')
      BY AccountParts, InvitesNext, InvitesStutter, AdminsNext, AdminsStutter
    <2>3. (part = "Seeding" => SeedInv') /\ (part = "Setup" => SetupInv')
      BY AccountParts, SeedingNext, SeedingStutter, SetupNext, SetupStutter
    <2>4. part = "Avatar" => ImageInv' BY AccountParts, AvatarIsImage, ImageNext, ImageStutter
    <2>5. part = "Logo" => ImageInv' BY AccountParts, LogoIsImage, ImageNext, ImageStutter
    <2>6. part = "Choices" => ChoicesInv' BY AccountParts, ChoicesNext, ChoicesStutter
    <2> QED BY <2>1, <2>2, <2>3, <2>4, <2>5, <2>6, AccountParts
  <1>3. Inv => AccountsTypeOK
    BY CodeInvSays, LoginInvSays, InviteInvSays, AdminInvSays, SeedInvSays, SetupInvSays,
       ImageInvSays DEF ChoicesInv, AccountsTypeOK
  <1> QED BY <1>1, <1>2, <1>3, PTL DEF AccountsSpec
=============================================================================
