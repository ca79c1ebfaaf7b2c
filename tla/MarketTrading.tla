--------------------------- MODULE MarketTrading ----------------------------
(***************************************************************************)
(* The order book of one market with its money: orders, positions, wallet  *)
(* balances and the collateral pool, under placement (participation,       *)
(* matching, fill and complementary-matching services), cancellation,      *)
(* expiry, close, settlement and void refund.                              *)
(*                                                                         *)
(* Locks.  A placement holds the row of the market from its checks to its  *)
(* commit; close, void, settlement, refund and other placements wait for   *)
(* it.  So does the cancellation or expiry of a BUY order, whose ledger    *)
(* entry refers to the market; that of a SELL order locks the order and    *)
(* the position only and runs beside a placement that has not locked the   *)
(* order yet.  Nothing stops the clock, which a placement reads again for  *)
(* each of its checks: that is why it is three steps here.                 *)
(*                                                                         *)
(* Money is counted in the quantum of the price: a share pays Unit.  The   *)
(* fee rates are zero (no fee schedule is active).                         *)
(***************************************************************************)
EXTENDS Integers, Sequences, FiniteSets, Folds, FiniteSetsExt

CONSTANTS
    Users, Provider,   \* participants, and the one that holds the opening liquidity
    Unit,              \* the payout of a winning share
    OpeningLiquidity, OpeningPrice, OpeningAsk,
    InitialFunds,      \* what each wallet holds when the market opens
    Requests,          \* the orders that are asked for
    MaxOrders,         \* bound on the number of orders
    ClosesAt, MaxTime, \* closes_at of the market, bound on the clock
    None

Outcomes == {"YES", "NO"}
FILLABLE_STATUSES == {"OPEN", "PARTIALLY_FILLED"}
OrderStatuses == FILLABLE_STATUSES \cup {"FILLED", "CANCELLED", "EXPIRED"}

ASSUME TradingAssumption ==
    /\ Provider \in Users /\ IsFiniteSet(Users)
    /\ Unit \in Nat /\ OpeningLiquidity \in Nat /\ InitialFunds \in Nat
    /\ OpeningPrice \in [Outcomes -> 1..Unit - 1] /\ OpeningPrice["YES"] + OpeningPrice["NO"] = Unit
    /\ OpeningAsk \in [Outcomes -> 1..Unit - 1]
    /\ OpeningLiquidity * Unit <= InitialFunds
    /\ ClosesAt \in Nat /\ MaxTime \in Nat /\ MaxOrders \in Nat
    /\ \A r \in Requests :
           /\ r.user \in Users /\ r.outcome \in Outcomes /\ r.side \in {"BUY", "SELL"}
           /\ r.quantity \in Nat \ {0} /\ r.price \in 1..Unit - 1
           /\ r.tif \in {"GTC", "GTD", "IOC", "FOK"} /\ r.expires \in 0..ClosesAt

VARIABLES
    now, status, winner,
    orders,      \* MarketOrder rows in the order of creation
    position,    \* MarketPosition rows
    wallet,      \* available and reserved balance of each user
    locked,      \* MarketCollateralPool.locked_collateral, in shares
    payout,      \* "none", "settled" or "refunded"
    txn          \* the placement that holds the market, or None

book == [orders |-> orders, position |-> position, wallet |-> wallet,
         locked |-> locked, ok |-> TRUE]

vars == <<now, status, winner, orders, position, wallet, locked, payout, txn>>

(* A transaction that did not raise becomes visible as a whole, one that    *)
(* raised not at all.                                                       *)
Commit(b) ==
    IF b.ok
    THEN /\ orders' = b.orders /\ position' = b.position /\ wallet' = b.wallet
         /\ locked' = b.locked
    ELSE UNCHANGED <<orders, position, wallet, locked>>

-----------------------------------------------------------------------------
(* Orders and what they hold.  `held` is the net effect of the order's      *)
(* ledger entries on the reserved balance, `value` the sum of its fills.    *)

Remaining(o) == o.quantity - o.filled
Fillable(o) == o.status \in FILLABLE_STATUSES
Elapsed(o) == o.tif = "GTD" /\ o.expires <= now

(* MarketMatchingService._is_fillable *)
Live(o) == Fillable(o) /\ Remaining(o) > 0 /\ ~ Elapsed(o)

Key(o) == <<o.user, o.outcome>>

(* A service that raises undoes what its transaction did.                   *)
Refused(b) == [b EXCEPT !.ok = FALSE]

(* A ledger entry for order i: what it adds to the available and to the     *)
(* reserved balance of the owner, refused when either would be negative.    *)
Post(b, i, toAvailable, toReserved) ==
    LET u == b.orders[i].user
        w == b.wallet[u]
    IN  IF w.available + toAvailable < 0 \/ w.reserved + toReserved < 0 THEN Refused(b)
        ELSE [b EXCEPT !.wallet[u] = [available |-> w.available + toAvailable,
                                      reserved |-> w.reserved + toReserved],
                       !.orders[i].held = @ + toReserved]

(* WalletService.reserve, consume_reserved, release and credit *)
Reserve(b, i, amount) == Post(b, i, - amount, amount)
ConsumeReserved(b, i, amount) == Post(b, i, 0, - amount)
Release(b, i, amount) == Post(b, i, amount, - amount)
Credit(b, i, amount) == Post(b, i, amount, 0)

(* What is added to a position; a row never reserves a negative number of   *)
(* shares or more than it has.                                              *)
Adjust(b, k, shares, offered, cost) ==
    LET p == b.position[k]
    IN  IF p.reserved + offered \notin 0..p.quantity + shares THEN Refused(b)
        ELSE [b EXCEPT !.position[k] = [quantity |-> p.quantity + shares,
                                        reserved |-> p.reserved + offered,
                                        cost |-> p.cost + cost]]

(* _apply_fill_to_order *)
FillOrder(b, i, q, p) ==
    LET o == b.orders[i]
    IN  [b EXCEPT !.orders[i] =
            [o EXCEPT !.filled = o.filled + q, !.value = o.value + q * p,
                      !.status = IF Remaining(o) = q THEN "FILLED" ELSE "PARTIALLY_FILLED"]]

(* The buyer's side of a fill: the reservation pays, the difference to the  *)
(* limit is released.                                                       *)
BuySide(b, i, q, p) ==
    LET o == b.orders[i]
        bought == Adjust(FillOrder(b, i, q, p), Key(o), q, 0, q * p)
    IN  Release(ConsumeReserved(bought, i, q * p), i, q * (o.price - p))

HalfUp(n, d) == (2 * n + d) \div (2 * d)

(* The seller's side: the position shrinks with its share of the cost.      *)
SellSide(b, i, q, p) ==
    LET k == Key(b.orders[i])
        held == b.position[k]
        cost == IF held.quantity = q THEN held.cost ELSE HalfUp(held.cost * q, held.quantity)
    IN  Credit(Adjust(FillOrder(b, i, q, p), k, - q, - q, - cost), i, q * p)

(* Mutant: only the funds of BUY orders are released. *)
ReleaseFundsOnly(b, i) ==
    LET o == b.orders[i]
    IN  IF o.side = "BUY" THEN Release(b, i, Remaining(o) * o.price) ELSE b

(* cancel_locked_order and the release of an expiring order *)
ReleaseRemainder(b, i) ==
    LET o == b.orders[i]
    IN  IF o.side = "BUY" THEN Release(b, i, Remaining(o) * o.price)
        ELSE Adjust(b, Key(o), 0, - Remaining(o), 0)

EndOrder(b, i, s) == [ReleaseRemainder(b, i) EXCEPT !.orders[i].status = s]

CancelLockedOrder(b, i) == EndOrder(b, i, "CANCELLED")

(* A loop over orders in the order of their creation.                       *)
InTurn(step(_, _), b, S) == MapThenFoldSet(LAMBDA i, x : step(x, i), b, LAMBDA i : i, Max, S)

ActiveOrders(b) == {i \in DOMAIN b.orders : Fillable(b.orders[i])}

CancelAll(b) == InTurn(CancelLockedOrder, b, ActiveOrders(b))

-----------------------------------------------------------------------------
(* Matching.                                                                *)

(* _is_eligible_maker *)
Eligible(b, i, m) ==
    LET t == b.orders[i]
        o == b.orders[m]
    IN  /\ Live(o) /\ o.outcome = t.outcome /\ o.user # t.user /\ o.side # t.side
        /\ IF t.side = "BUY" THEN o.price <= t.price ELSE o.price >= t.price

Makers(b, i) == {m \in DOMAIN b.orders : Eligible(b, i, m)}

(* Mutant: the oldest maker first, whatever its price. *)
YoungestMaker(b, i, S) == Max(S)

(* Of the makers of a taker the last one that is matched: the best price    *)
(* comes first, and at one price the oldest.                                *)
LastMaker(b, i, S) ==
    Max({m \in S : \A n \in S : IF b.orders[i].side = "BUY"
                                THEN b.orders[n].price <= b.orders[m].price
                                ELSE b.orders[n].price >= b.orders[m].price})

(* Mutant: the remainder of the taker only. *)
TakersRemainder(b, i, m) == Remaining(b.orders[i])

SmallerRemainder(b, i, m) ==
    IF Remaining(b.orders[i]) < Remaining(b.orders[m]) THEN Remaining(b.orders[i])
                                                       ELSE Remaining(b.orders[m])

(* execute_fill at the maker's price *)
ExecuteFill(b, i, m) ==
    LET q == SmallerRemainder(b, i, m)
        p == b.orders[m].price
    IN  IF b.orders[i].side = "BUY" THEN SellSide(BuySide(b, i, q, p), m, q, p)
                                    ELSE SellSide(BuySide(b, m, q, p), i, q, p)

(* The loop of match_order: every locked maker is looked at again.          *)
MatchMaker(b, i, m) ==
    IF b.ok /\ Live(b.orders[i]) /\ Eligible(b, i, m) THEN ExecuteFill(b, i, m) ELSE b

MatchBook(b, i, makers) ==
    MapThenFoldSet(LAMBDA m, x : MatchMaker(x, i, m), b, LAMBDA m : m,
                   LAMBDA S : LastMaker(b, i, S), makers)

(* The orders on the other outcome a BUY order may be paired with: nothing  *)
(* is said of their deadline.                                               *)
Complements(b, i) ==
    {m \in DOMAIN b.orders : /\ b.orders[i].side = "BUY" /\ b.orders[m].side = "BUY"
                             /\ b.orders[m].outcome # b.orders[i].outcome
                             /\ b.orders[m].user # b.orders[i].user
                             /\ Fillable(b.orders[m]) /\ Remaining(b.orders[m]) > 0}

(* Mutants: the taker pays its limit, or its limit is a strict bound.       *)
ComplementVariant(b, i, m, tp, refused) ==
    LET q == SmallerRemainder(b, i, m)
        both == BuySide(BuySide(b, m, q, b.orders[m].price), i, q, tp)
    IN  IF ~ b.ok \/ ~ Fillable(b.orders[i]) \/ refused \/ q = 0 THEN b
        ELSE [both EXCEPT !.locked = @ + q]

TakerPaysLimit(b, i, m) ==
    ComplementVariant(b, i, m, b.orders[i].price,
                      Unit - b.orders[m].price > b.orders[i].price)
LimitStrict(b, i, m) ==
    ComplementVariant(b, i, m, Unit - b.orders[m].price,
                      Unit - b.orders[m].price >= b.orders[i].price)

(* One pass of the loop of ComplementaryBuyMatchingService.match: the two   *)
(* BUY orders together pay for one complete set per share.                  *)
Complement(b, i, m) ==
    LET q == SmallerRemainder(b, i, m)
        mp == b.orders[m].price
        tp == Unit - mp
        both == BuySide(BuySide(b, m, q, mp), i, q, tp)
    IN  IF ~ b.ok \/ ~ Fillable(b.orders[i]) \/ tp > b.orders[i].price \/ q = 0 THEN b
        ELSE [both EXCEPT !.locked = @ + q]

MatchComplements(b, i) ==
    InTurn(LAMBDA x, m : Complement(x, i, m), b, Complements(b, i))

(* What a FOK order could buy or sell at once.                              *)
Depth(b, i) ==
    LET complements == {m \in Complements(b, i) : b.orders[m].price >= Unit - b.orders[i].price}
    IN  MapThenSumSet(LAMBDA m : Remaining(b.orders[m]), Makers(b, i) \cup complements)

-----------------------------------------------------------------------------
(* Placement.                                                               *)

TradingOpen == status = "OPEN" /\ now < ClosesAt

NewOrder(r) ==
    [user |-> r.user, outcome |-> r.outcome, side |-> r.side, quantity |-> r.quantity,
     price |-> r.price, tif |-> r.tif, expires |-> r.expires,
     filled |-> 0, value |-> 0, held |-> 0, status |-> "OPEN"]

(* The new order with its reservation, before matching.                     *)
Insert(b, o) ==
    LET i == Len(b.orders) + 1
        inserted == [b EXCEPT !.orders = Append(@, o)]
    IN  IF o.side = "BUY" THEN Reserve(inserted, i, o.quantity * o.price)
        ELSE Adjust(inserted, Key(o), 0, o.quantity, 0)

(* place_order up to the insertion of the order: the market is locked and   *)
(* open, the deadline lies ahead.  A request that is refused changes        *)
(* nothing.                                                                 *)
StartPlacement(r) ==
    /\ txn = None
    /\ Len(orders) < MaxOrders
    /\ TradingOpen
    /\ r.tif = "GTD" => r.expires > now
    /\ Insert(book, NewOrder(r)).ok
    /\ txn' = [request |-> r, locked |-> FALSE, matches |-> FALSE, makers |-> {}]
    /\ UNCHANGED <<now, status, winner, orders, position, wallet, locked, payout>>

(* match_order up to its loop: the makers are locked and a FOK order counts *)
(* what they and the complements offer.                                     *)
LockMakers ==
    LET b == Insert(book, NewOrder(txn.request))
        i == Len(b.orders)
        matches == /\ Live(b.orders[i]) /\ now < ClosesAt
                   /\ b.orders[i].tif = "FOK" => Depth(b, i) >= b.orders[i].quantity
    IN  /\ txn # None /\ ~ txn.locked
        /\ txn' = [txn EXCEPT !.locked = TRUE, !.matches = matches,
                              !.makers = IF matches THEN Makers(b, i) ELSE {}]
        /\ UNCHANGED <<now, status, winner, orders, position, wallet, locked, payout>>

(* The rest of match_order.                                                 *)
MatchOrder(b, i) ==
    LET crossed == MatchBook(b, i, txn.makers)
    IN  IF ~ txn.matches THEN b
        ELSE IF crossed.ok /\ Live(crossed.orders[i]) THEN MatchComplements(crossed, i)
        ELSE crossed

(* place_order, with the cancellation of what an IOC or FOK order leaves.   *)
Placed(b) ==
    LET o == NewOrder(txn.request)
        i == Len(b.orders) + 1
        matched == MatchOrder(Insert(b, o), i)
    IN  IF matched.ok /\ o.tif \in {"IOC", "FOK"} /\ Fillable(matched.orders[i])
        THEN CancelLockedOrder(matched, i) ELSE matched

CommitPlacement ==
    /\ txn # None /\ txn.locked
    /\ Commit(Placed(book))
    /\ txn' = None
    /\ UNCHANGED <<now, status, winner, payout>>

-----------------------------------------------------------------------------
(* Cancellation and expiry of a single order.                               *)

(* The transaction of another session can end order i now.                  *)
Unlocked(i) == txn # None => orders[i].side = "SELL" /\ i \notin txn.makers

CancelOrder(i) ==
    /\ Unlocked(i) /\ Fillable(orders[i])
    /\ Commit(CancelLockedOrder(book, i))
    /\ UNCHANGED <<now, status, winner, payout, txn>>

ExpireOrder(i) ==
    /\ Unlocked(i) /\ Fillable(orders[i]) /\ Elapsed(orders[i]) /\ Remaining(orders[i]) > 0
    /\ Commit(EndOrder(book, i, "EXPIRED"))
    /\ UNCHANGED <<now, status, winner, payout, txn>>

-----------------------------------------------------------------------------
(* The market.                                                              *)

Moves(from, to) == txn = None /\ status \in from /\ status' = to

Suspend ==
    /\ Moves({"OPEN"}, "SUSPENDED")
    /\ UNCHANGED <<now, winner, orders, position, wallet, locked, payout, txn>>

Reopen ==
    /\ Moves({"SUSPENDED"}, "OPEN") /\ now < ClosesAt
    /\ UNCHANGED <<now, winner, orders, position, wallet, locked, payout, txn>>

(* One order that cannot be cancelled makes the whole close raise.          *)
Close ==
    /\ Moves({"OPEN", "SUSPENDED"}, "CLOSED")
    /\ CancelAll(book).ok
    /\ Commit(CancelAll(book))
    /\ UNCHANGED <<now, winner, payout, txn>>

Resolve(o) ==
    /\ Moves({"CLOSED"}, "RESOLVED")
    /\ winner' = o
    /\ UNCHANGED <<now, orders, position, wallet, locked, payout, txn>>

Void ==
    /\ Moves({"OPEN", "SUSPENDED", "CLOSED"}, "VOIDED")
    /\ UNCHANGED <<now, winner, orders, position, wallet, locked, payout, txn>>

NoPosition == [quantity |-> 0, reserved |-> 0, cost |-> 0]

Held(outcome, b) == SumFunction([u \in Users |-> b.position[u, outcome].quantity])

(* settle_market with _settle_position for every position *)
Settle ==
    /\ txn = None /\ payout = "none" /\ status = "RESOLVED"
    /\ ActiveOrders(book) = {}
    /\ \A k \in DOMAIN position : position[k].reserved = 0
    /\ Held(winner, book) <= locked
    /\ wallet' = [u \in Users |->
                     [wallet[u] EXCEPT !.available = @ + Unit * position[u, winner].quantity]]
    /\ position' = [k \in DOMAIN position |-> NoPosition]
    /\ locked' = locked - Held(winner, book)
    /\ payout' = "settled"
    /\ UNCHANGED <<now, status, winner, orders, txn>>

(* refund_void_market: the cost basis of every position *)
Refund ==
    LET b == CancelAll(book)
    IN  /\ txn = None /\ payout = "none" /\ status = "VOIDED"
        /\ b.ok
        /\ \A k \in DOMAIN position : b.position[k].reserved <= b.position[k].quantity
        /\ orders' = b.orders
        /\ wallet' = [u \in Users |->
                         [b.wallet[u] EXCEPT !.available =
                             @ + b.position[u, "YES"].cost + b.position[u, "NO"].cost]]
        /\ position' = [k \in DOMAIN position |-> NoPosition]
        /\ locked' = 0
        /\ payout' = "refunded"
        /\ UNCHANGED <<now, status, winner, txn>>

Tick ==
    /\ now < MaxTime /\ now' = now + 1
    /\ UNCHANGED <<status, winner, orders, position, wallet, locked, payout, txn>>

-----------------------------------------------------------------------------
(* activate_opening_liquidity: the provider pays for complete sets and      *)
(* offers all of them.                                                      *)
OpeningOrder(o) ==
    [NewOrder([user |-> Provider, outcome |-> o, side |-> "SELL", quantity |-> OpeningLiquidity,
               price |-> OpeningAsk[o], tif |-> "GTC", expires |-> 0]) EXCEPT !.status = "OPEN"]

Init ==
    /\ now = 0 /\ status = "OPEN" /\ winner = None
    /\ orders = IF OpeningLiquidity = 0 THEN <<>>
                ELSE <<OpeningOrder("YES"), OpeningOrder("NO")>>
    /\ position = [k \in Users \X Outcomes |->
                      IF k[1] = Provider
                      THEN [quantity |-> OpeningLiquidity, reserved |-> OpeningLiquidity,
                            cost |-> OpeningLiquidity * OpeningPrice[k[2]]]
                      ELSE NoPosition]
    /\ wallet = [u \in Users |->
                    [available |-> IF u = Provider THEN InitialFunds - OpeningLiquidity * Unit
                                                   ELSE InitialFunds,
                     reserved |-> 0]]
    /\ locked = OpeningLiquidity
    /\ payout = "none" /\ txn = None

Next ==
    \/ \E r \in Requests : StartPlacement(r)
    \/ LockMakers
    \/ CommitPlacement
    \/ \E i \in DOMAIN orders : CancelOrder(i) \/ ExpireOrder(i)
    \/ Suspend \/ Reopen \/ Close \/ Void
    \/ \E o \in Outcomes : Resolve(o)
    \/ Settle \/ Refund
    \/ Tick

Spec == Init /\ [][Next]_vars

-----------------------------------------------------------------------------
(* Properties.                                                              *)

OrderRow ==
    [user : Users, outcome : Outcomes, side : {"BUY", "SELL"}, quantity : Nat, price : 1..Unit - 1,
     tif : {"GTC", "GTD", "IOC", "FOK"}, expires : Nat, filled : Nat, value : Nat, held : Int,
     status : OrderStatuses]

(* Balances and positions are never negative, no order is overfilled        *)
(* (reconciliation code ORDER_OVERFILLED).                                  *)
TypeOK ==
    /\ now \in 0..MaxTime
    /\ status \in {"OPEN", "SUSPENDED", "CLOSED", "RESOLVED", "VOIDED"}
    /\ winner \in Outcomes \cup {None}
    /\ orders \in Seq(OrderRow)
    /\ \A i \in DOMAIN orders : orders[i].filled <= orders[i].quantity
    /\ position \in [Users \X Outcomes -> [quantity : Nat, reserved : Nat, cost : Nat]]
    /\ wallet \in [Users -> [available : Nat, reserved : Nat]]
    /\ locked \in Nat
    /\ payout \in {"none", "settled", "refunded"}

(* Until the payout every YES share is matched by a NO share and both by    *)
(* one unit of locked collateral, so that either result can be paid.        *)
Solvent ==
    payout = "none" => Held("YES", book) = locked /\ Held("NO", book) = locked

(* Money moves between wallets and the collateral pool only: nothing is     *)
(* created or lost by trading, cancellation, close or settlement.           *)
MoneyConserved ==
    payout # "refunded" =>
        SumFunction([u \in Users |-> wallet[u].available + wallet[u].reserved])
            + Unit * locked = InitialFunds * Cardinality(Users)

(* The money of a market: the pool covers every share, and with the wallets *)
(* it is what the users brought.                                            *)
MoneyHolds == Solvent /\ MoneyConserved

(* The reserved shares of a position are those its owner's active SELL      *)
(* orders still offer (OPEN_ and TERMINAL_SELL_RESERVATION_MISMATCH).       *)
Offered(o, k) ==
    IF o.side = "SELL" /\ Fillable(o) /\ Key(o) = k THEN Remaining(o) ELSE 0

SharesBackSells ==
    \A k \in Users \X Outcomes :
        /\ position[k].reserved <= position[k].quantity
        /\ payout = "none" =>
             position[k].reserved = SumFunction([i \in DOMAIN orders |-> Offered(orders[i], k)])

(* A BUY order holds what its remainder costs at its limit while it is      *)
(* active and nothing afterwards (OPEN_ and TERMINAL_BUY_RESERVATION_       *)
(* MISMATCH), and the reserved balance is the sum over the orders.          *)
HeldFor(o, u) == IF o.user = u THEN o.held ELSE 0

FundsBackBuys ==
    /\ \A i \in DOMAIN orders :
           orders[i].held = IF orders[i].side = "BUY" /\ Fillable(orders[i])
                            THEN Remaining(orders[i]) * orders[i].price ELSE 0
    /\ \A u \in Users :
           wallet[u].reserved = SumFunction([i \in DOMAIN orders |-> HeldFor(orders[i], u)])

(* No order trades at a price worse than its limit, whether it meets the    *)
(* other side of its own outcome or a complement.                           *)
LimitsRespected ==
    \A i \in DOMAIN orders :
        IF orders[i].side = "BUY" THEN orders[i].value <= orders[i].filled * orders[i].price
                                  ELSE orders[i].value >= orders[i].filled * orders[i].price

(* What an order offers is reserved, and it trades within its limit.        *)
OrdersAreBacked == SharesBackSells /\ FundsBackBuys /\ LimitsRespected

(* While the market trades, no two live orders of different users could be  *)
(* matched, in the book of an outcome or as complements: whatever can trade *)
(* has traded when the placement commits.                                   *)
NothingLeftToMatch ==
    now < ClosesAt =>
        \A i, m \in DOMAIN orders :
            /\ Live(orders[i]) => ~ Eligible(book, i, m)
            /\ ~ /\ Live(orders[i]) /\ Live(orders[m]) /\ orders[i].user # orders[m].user
                 /\ orders[i].side = "BUY" /\ orders[m].side = "BUY"
                 /\ orders[i].outcome # orders[m].outcome
                 /\ orders[i].price + orders[m].price >= Unit

(* Priority: an order is filled by a placement only when every order the    *)
(* placement should have met first is used up.  In the book of an outcome   *)
(* the better price comes first, then the older order; complements are met  *)
(* in the order of their creation.                                          *)
Ahead(i, m, t) ==
    IF orders[m].side = t.side THEN i < m /\ orders[i].price + t.price >= Unit
    ELSE IF orders[i].price = orders[m].price THEN i < m
    ELSE IF t.side = "BUY" THEN orders[i].price < orders[m].price
                           ELSE orders[i].price > orders[m].price

PriorityRespected ==
    [][\A t \in (DOMAIN orders') \ DOMAIN orders, i, m \in DOMAIN orders :
           /\ orders'[m].filled > orders[m].filled
           /\ Live(orders[i]) /\ orders[i].user # orders'[t].user
           /\ orders[i].side = orders[m].side /\ orders[i].outcome = orders[m].outcome
           /\ Ahead(i, m, orders'[t])
           => Remaining(orders'[i]) = 0]_vars

(* Filled, cancelled and expired orders never change again, whatever else  *)
(* runs beside them ("Both orders must be open or partially filled.").      *)
DoneIsFinal ==
    [][\A i \in DOMAIN orders : ~ Fillable(orders[i]) => orders'[i] = orders[i]]_vars

(* A FOK order executes completely or not at all                            *)
(* (test_fok_insufficient_mixed_depth_has_no_partial_financial_mutations).  *)
(* Violated: a maker that was counted is dropped from the loop when its     *)
(* deadline passes in between.                                              *)
FillOrKill ==
    \A i \in DOMAIN orders :
        orders[i].tif = "FOK" => orders[i].filled \in {0, orders[i].quantity}

(* A good-till-date order is not filled once its date has passed.           *)
(* Violated: complementary matching looks at the status only, and an order  *)
(* keeps its status until somebody runs expire_market_orders.               *)
NoLateFill ==
    [][\A i \in DOMAIN orders : Elapsed(orders[i]) => orders'[i].filled = orders[i].filled]_vars
=============================================================================
