------------------------------ MODULE Portfolio ------------------------------
(***************************************************************************)
(* What the portfolio of one participant says of one market, beside what   *)
(* the market does to the participant: orders and their reservations,      *)
(* fills and complementary issuances with their fees, cancellations, the   *)
(* settlement or the refund, and the history of positions that were sold.  *)
(*                                                                         *)
(* The portfolio is computed from four kinds of rows that the trading      *)
(* services write apart from each other: the wallet, the orders, the       *)
(* positions and the fills.  Other participants appear as the prices they  *)
(* offer.  Money is counted in the quantum of the price; a share pays Unit.*)
(***************************************************************************)
EXTENDS Integers, Sequences, FiniteSets, FiniteSetsExt, SequencesExt

CONSTANTS
    Outcomes, Unit, Prices, Sizes,
    Bids,               \* the best bids of the others
    FeeRate, FeeBase,   \* the fee of every kind: FeeRate in FeeBase
    Funds,              \* what the wallet starts with
    MaxOrders, MaxFills,
    MaxViews,           \* bound on the summaries asked for
    None

VARIABLES
    status, winner,  \* of the market
    wallet,          \* [available, reserved]
    position,        \* outcome |-> its MarketPosition row
    orders,          \* the participant's MarketOrder rows
    fills,           \* executions of them, in order; issuances among them
    exits,           \* MarketPositionExit rows
    paid,            \* outcome |-> its settlement or refund record, or None
    fees,            \* sum of the participant's fee ledger entries
    bid, last,       \* outcome |-> best bid of the others and last trade, or None
    summary,         \* a summary being read or last shown
    views

rows == <<status, winner, wallet, position, orders, fills, exits, paid, fees>>
market == <<bid, last>>
vars == <<rows, market, summary, views>>

Active == {"OPEN", "PARTIALLY_FILLED"}
Positions == [quantity : Nat, reserved : Nat, cost : Nat, realized : Int]
Orders == [side : {"BUY", "SELL"}, outcome : Outcomes, quantity : Sizes, filled : Nat,
           limit : Prices, status : Active \cup {"FILLED", "CANCELLED"},
           reason : {None, "MANUAL", "MARKET_CLOSE", "MARKET_VOID"}]
Fills == [order : Nat, quantity : Nat, price : Nat, issued : BOOLEAN]
Exits == [outcome : Outcomes, acquired : Nat, exited : Nat, proceeds : Nat,
          cost : Int, realized : Int, upto : Nat]
Settlements == [kind : {"WIN", "LOSS"}, quantity : Nat, net : Nat, delta : Int]
Refunds == [kind : {"VOID_REFUND"}, quantity : Nat, net : Nat, delta : {0}]

TypeOK ==
    /\ status \in {"OPEN", "CLOSED", "RESOLVED", "VOIDED"}
    /\ winner \in Outcomes \cup {None}
    /\ wallet \in [available : Nat, reserved : Nat]
    /\ position \in [Outcomes -> Positions]
    /\ \A i \in DOMAIN orders : orders[i] \in Orders
    /\ \A i \in DOMAIN fills : fills[i] \in Fills
    /\ \A i \in DOMAIN exits : exits[i] \in Exits
    /\ \A o \in Outcomes : paid[o] \in Settlements \cup Refunds \cup {None}
    /\ fees \in Nat /\ views \in 0..MaxViews
    /\ bid \in [Outcomes -> Bids \cup {None}] /\ last \in [Outcomes -> 1..Unit \cup {None}]

Init ==
    /\ status = "OPEN" /\ winner = None
    /\ wallet = [available |-> Funds, reserved |-> 0]
    /\ position = [o \in Outcomes |-> [quantity |-> 0, reserved |-> 0, cost |-> 0, realized |-> 0]]
    /\ orders = <<>> /\ fills = <<>> /\ exits = <<>>
    /\ paid = [o \in Outcomes |-> None] /\ fees = 0
    /\ bid = [o \in Outcomes |-> None] /\ last = [o \in Outcomes |-> None]
    /\ summary = [step |-> None, buy |-> 0, reserved |-> 0] /\ views = 0

-----------------------------------------------------------------------------
(* Rounding, fees and what a BUY order reserves.                           *)
HalfUp(n, d) == (2 * n + d) \div (2 * d)
CalculateFee(amount) == HalfUp(amount * FeeRate, FeeBase)
BuyCommitment(quantity, limit) ==
    -((-(quantity * limit * (FeeBase + FeeRate))) \div FeeBase)

(* What the values of a function come to.                                  *)
Total(f) == MapThenSumSet(LAMBDA x : f[x], DOMAIN f)

Remaining(o) == o.quantity - o.filled
Live(o) == o.status \in Active /\ Remaining(o) > 0
LiveOrders == {i \in DOMAIN orders : Live(orders[i])}

(* A participant places an order: the cash or the shares are reserved.     *)
PlaceOrder(o) ==
    LET need == IF o.side = "BUY" THEN BuyCommitment(o.quantity, o.limit) ELSE 0
        held == position[o.outcome]
    IN
    /\ status = "OPEN" /\ Len(orders) < MaxOrders /\ wallet.available >= need
    /\ o.side = "SELL" => held.quantity - held.reserved >= o.quantity
    /\ orders' = Append(orders, o)
    /\ wallet' = [available |-> wallet.available - need, reserved |-> wallet.reserved + need]
    /\ position' = IF o.side = "BUY" THEN position
                   ELSE [position EXCEPT ![o.outcome].reserved = @ + o.quantity]
    /\ UNCHANGED <<status, winner, fills, exits, paid, fees, market, summary, views>>

-----------------------------------------------------------------------------
FilledBy(i, q) ==
    [orders EXCEPT ![i].filled = @ + q,
                   ![i].status = IF Remaining(orders[i]) = q THEN "FILLED"
                                 ELSE "PARTIALLY_FILLED"]

(* _calculate_buy_wallet_settlement: cost and fee leave the reservation,   *)
(* which shrinks to what the rest of the order needs; the difference goes  *)
(* back, or is reserved on top.                                            *)
AfterBuy(o, q, p) ==
    LET cost == q * p + CalculateFee(q * p)
        freed == BuyCommitment(Remaining(o), o.limit) - BuyCommitment(Remaining(o) - q, o.limit)
    IN  [available |-> wallet.available + freed - cost, reserved |-> wallet.reserved - freed]

ExecuteBuy(i, q, p, issued) ==
    LET o == orders[i]  after == AfterBuy(o, q, p) IN
    /\ after.available >= 0 /\ after.reserved >= 0
    /\ wallet' = after
    /\ position' = [position EXCEPT ![o.outcome].quantity = @ + q,
                                    ![o.outcome].cost = @ + q * p]
    /\ last' = IF issued THEN last ELSE [last EXCEPT ![o.outcome] = p]
    /\ UNCHANGED exits

(* The share of the cost that a sale releases, and what is left of it.     *)
ReleasedCost(h, q) == HalfUp(h.cost * q, h.quantity)

AfterSell(h, q, p) ==
    [quantity |-> h.quantity - q, reserved |-> h.reserved - q,
     cost |-> IF h.quantity = q THEN 0 ELSE h.cost - ReleasedCost(h, q),
     realized |-> h.realized + q * p - ReleasedCost(h, q)]

(* record_exit: the fills of the outcome since its last exit.  Complete    *)
(* sets that were issued are no fills.                                     *)
Exit(o, closing, realized) ==
    LET trades == Append(fills, closing)
        earlier == {n \in DOMAIN exits : exits[n].outcome = o}
        since == Max({0} \cup {exits[n].upto : n \in earlier})
        mine(side) == {n \in since + 1..Len(trades) :
                         LET f == trades[n] IN
                         ~f.issued /\ orders[f.order].outcome = o /\ orders[f.order].side = side}
        quantity(side) == Total([n \in mine(side) |-> trades[n].quantity])
        proceeds == Total([n \in mine("SELL") |-> trades[n].quantity * trades[n].price])
        gain == realized - Total([n \in earlier |-> exits[n].realized])
    IN  [outcome |-> o, exited |-> quantity("SELL"),
         acquired |-> IF quantity("BUY") = 0 THEN quantity("SELL") ELSE quantity("BUY"),
         proceeds |-> proceeds, cost |-> proceeds - gain, realized |-> gain,
         upto |-> Len(trades)]

ExecuteSell(i, q, p, row) ==
    LET o == orders[i]  after == AfterSell(position[o.outcome], q, p) IN
    /\ after.quantity >= 0 /\ after.reserved >= 0
    /\ wallet' = [wallet EXCEPT !.available = @ + q * p - CalculateFee(q * p)]
    /\ position' = [position EXCEPT ![o.outcome] = after]
    /\ exits' = IF after.quantity = 0 THEN Append(exits, Exit(o.outcome, row, after.realized))
                ELSE exits
    /\ last' = [last EXCEPT ![o.outcome] = p]

(* An execution of order i, against an order of the same outcome or, of a  *)
(* BUY order, together with a BUY order of the other one.                  *)
Execute(i, q, p, issued) ==
    LET o == orders[i]
        row == [order |-> i, quantity |-> q, price |-> p, issued |-> issued]
    IN
    /\ status = "OPEN" /\ i \in LiveOrders /\ q <= Remaining(o) /\ Len(fills) < MaxFills
    /\ IF o.side = "BUY" THEN p <= o.limit /\ ExecuteBuy(i, q, p, issued)
       ELSE p >= o.limit /\ ~issued /\ ExecuteSell(i, q, p, row)
    /\ orders' = FilledBy(i, q)
    /\ fills' = Append(fills, row)
    /\ fees' = fees + CalculateFee(q * p)
    /\ UNCHANGED <<status, winner, paid, bid, summary, views>>

-----------------------------------------------------------------------------
(* Cancellation of a set of orders: their reservations come back.          *)
Releases(S) == Total([i \in S |-> IF orders[i].side = "BUY"
                  THEN BuyCommitment(Remaining(orders[i]), orders[i].limit) ELSE 0])
SharesOf(S, o) == Total([i \in S |-> IF orders[i].side = "SELL" /\ orders[i].outcome = o
                                     THEN Remaining(orders[i]) ELSE 0])

Cancelled(S, reason) ==
    [i \in DOMAIN orders |-> IF i \in S
        THEN [orders[i] EXCEPT !.status = "CANCELLED", !.reason = reason] ELSE orders[i]]
WalletAfterCancel(S) == [available |-> wallet.available + Releases(S),
                         reserved |-> wallet.reserved - Releases(S)]
PositionsAfterCancel(S) ==
    [o \in Outcomes |-> [position[o] EXCEPT !.reserved = @ - SharesOf(S, o)]]

CancelOrder(i) ==
    /\ i \in LiveOrders
    /\ orders' = Cancelled({i}, "MANUAL")
    /\ wallet' = WalletAfterCancel({i}) /\ position' = PositionsAfterCancel({i})
    /\ UNCHANGED <<status, winner, fills, exits, paid, fees, market, summary, views>>

(* The market closes and its cleanup cancels every order.                  *)
Close ==
    /\ status = "OPEN" /\ status' = "CLOSED"
    /\ orders' = Cancelled(LiveOrders, "MARKET_CLOSE")
    /\ wallet' = WalletAfterCancel(LiveOrders) /\ position' = PositionsAfterCancel(LiveOrders)
    /\ UNCHANGED <<winner, fills, exits, paid, fees, market, summary, views>>

Resolve(o) ==
    /\ status = "CLOSED" /\ status' = "RESOLVED" /\ winner' = o
    /\ UNCHANGED <<wallet, position, orders, fills, exits, paid, fees, market, summary, views>>

Void ==
    /\ status \in {"OPEN", "CLOSED"} /\ status' = "VOIDED"
    /\ UNCHANGED <<winner, wallet, position, orders, fills, exits, paid, fees, market, summary, views>>

Held == {o \in Outcomes : position[o].quantity > 0}
Emptied(h, delta) == [quantity |-> 0, reserved |-> 0, cost |-> 0, realized |-> h.realized + delta]

(* Payouts of a set of records, which are made in one transaction.         *)
Pay(record(_), gross(_), balances) ==
    /\ \A o \in Outcomes : paid[o] = None
    /\ paid' = [o \in Outcomes |-> IF o \in Held THEN record(o) ELSE None]
    /\ wallet' = [balances EXCEPT !.available = @ + Total([o \in Held |-> record(o).net])]
    /\ position' = [o \in Outcomes |-> IF o \in Held
                      THEN Emptied(position[o], record(o).delta) ELSE position[o]]
    /\ fees' = fees + Total([o \in Held |-> CalculateFee(gross(o))])

(* settle_market: the winner pays Unit a share less the fee.               *)
SettlementAtNet(o) ==
    LET gross == IF o = winner THEN position[o].quantity * Unit ELSE 0 IN
    [kind |-> IF o = winner THEN "WIN" ELSE "LOSS", quantity |-> position[o].quantity,
     net |-> gross - CalculateFee(gross),
     delta |-> gross - CalculateFee(gross) - position[o].cost]
SettlementOf(o) ==
    LET gross == IF o = winner THEN position[o].quantity * Unit ELSE 0 IN
    [kind |-> IF o = winner THEN "WIN" ELSE "LOSS", quantity |-> position[o].quantity,
     net |-> gross - CalculateFee(gross), delta |-> gross - position[o].cost]
Settle ==
    /\ status = "RESOLVED" /\ Held # {}
    /\ Pay(SettlementOf, LAMBDA o : IF o = winner THEN position[o].quantity * Unit ELSE 0, wallet)
    /\ UNCHANGED <<status, winner, orders, fills, exits, market, summary, views>>

(* refund_void_market: the orders are cancelled, the cost comes back.      *)
RefundOf(o) ==
    [kind |-> "VOID_REFUND", quantity |-> position[o].quantity,
     net |-> position[o].cost - CalculateFee(position[o].cost), delta |-> 0]
Refund ==
    /\ status = "VOIDED" /\ (Held # {} \/ LiveOrders # {})
    /\ orders' = Cancelled(LiveOrders, "MARKET_VOID")
    /\ Pay(RefundOf, LAMBDA o : position[o].cost, WalletAfterCancel(LiveOrders))
    /\ UNCHANGED <<status, winner, fills, exits, market, summary, views>>

-----------------------------------------------------------------------------
(* What the portfolio shows.                                               *)

(* The price a position is marked at, or None.                             *)
Mark(o) ==
    CASE status = "RESOLVED" -> IF o = winner THEN Unit ELSE 0
      [] status = "VOIDED" -> HalfUp(position[o].cost, position[o].quantity)
      [] status = "OPEN" /\ bid[o] # None -> bid[o]
      [] OTHER -> last[o]

MarketValue(o) == position[o].quantity * Mark(o)
UnrealizedPnl(o) == MarketValue(o) - position[o].cost

Marked == {o \in Held : Mark(o) # None}
ValuationComplete == Marked = Held

TotalPnl == Total([o \in Outcomes |-> position[o].realized])
            + Total([o \in Marked |-> UnrealizedPnl(o)])
TotalBalance == wallet.available + wallet.reserved

(* The orders of the summary and what they hold.                           *)
ReservedBuyAmount == Releases(LiveOrders)
ReservedSellQuantity(o) == SharesOf(LiveOrders, o)

(* The activity: fills, settlements and refunds with their cash.           *)
FillEvents == {n \in DOMAIN fills : ~fills[n].issued}
FillCash(n) == LET f == fills[n] IN
    IF orders[f.order].side = "BUY" THEN -(f.quantity * f.price) ELSE f.quantity * f.price
PayoutEvents == {o \in Outcomes : paid[o] # None}
ActivityCash == Total([n \in FillEvents |-> FillCash(n)])
                + Total([o \in PayoutEvents |-> paid[o].net])

(* get_summary reads the orders and then the wallet.                       *)
ReadOrders ==
    /\ summary.step = None /\ views < MaxViews /\ views' = views + 1
    /\ summary' = [step |-> "wallet", buy |-> ReservedBuyAmount, reserved |-> 0]
    /\ UNCHANGED <<rows, market>>
ReadWallet ==
    /\ summary.step = "wallet"
    /\ summary' = [summary EXCEPT !.step = None, !.reserved = wallet.reserved]
    /\ UNCHANGED <<rows, market, views>>

(* The others change the best bid; it is looked at for a position only.    *)
OthersBid(o, b) ==
    /\ status = "OPEN" /\ o \in Held /\ bid[o] # b /\ bid' = [bid EXCEPT ![o] = b]
    /\ UNCHANGED <<rows, last, summary, views>>

-----------------------------------------------------------------------------
NewOrders == [side : {"BUY", "SELL"}, outcome : Outcomes, quantity : Sizes, filled : {0},
              limit : Prices, status : {"OPEN"}, reason : {None}]

Trading ==
    \/ \E o \in NewOrders : PlaceOrder(o)
    \/ \E i \in DOMAIN orders, q \in Sizes, p \in Prices, issued \in BOOLEAN :
           Execute(i, q, p, issued)
    \/ \E i \in DOMAIN orders : CancelOrder(i)
Ending == Close \/ Void \/ Settle \/ Refund \/ \E o \in Outcomes : Resolve(o)
Showing == ReadOrders \/ ReadWallet
Others == \E o \in Outcomes, b \in Bids \cup {None} : OthersBid(o, b)

Next == Trading \/ Ending \/ Showing \/ Others

Spec == Init /\ [][Next]_vars

-----------------------------------------------------------------------------
(* The fees a trade took, which the activity does not show.                *)
TradingFees == Total([n \in DOMAIN fills |-> CalculateFee(fills[n].quantity * fills[n].price)])

(* The four kinds of rows tell one story: the profit the portfolio shows   *)
(* is what the participant has over the starting funds, fees apart; the    *)
(* activity adds up to what the wallet gained and lost, as long as every   *)
(* purchase was a fill; the open orders hold exactly what wallet and       *)
(* positions keep reserved; and the exits of a position that is sold       *)
(* account for its realized profit.                                        *)
ProfitIsWealth ==
    ValuationComplete =>
        TotalBalance + Total([o \in Marked |-> MarketValue(o)]) = Funds + TotalPnl - fees
ActivityIsCash ==
    (\A n \in DOMAIN fills : ~fills[n].issued) =>
        TotalBalance = Funds + ActivityCash - TradingFees
ReservationsAgree ==
    /\ wallet.reserved = ReservedBuyAmount
    /\ \A o \in Outcomes : position[o].reserved = ReservedSellQuantity(o)
ExitsExplainProfit ==
    \A o \in Outcomes :
        LET mine == {n \in DOMAIN exits : exits[n].outcome = o} IN
        o \notin Held /\ paid[o] = None =>
            Total([n \in mine |-> exits[n].realized]) = position[o].realized
PortfolioAddsUp == ProfitIsWealth /\ ActivityIsCash /\ ReservationsAgree /\ ExitsExplainProfit

(* The activity shows every purchase.                                      *)
ActivityIsComplete == TotalBalance = Funds + ActivityCash - TradingFees

(* A position leaves by the quantity it was acquired in.                   *)
ExitsAddUp == \A n \in DOMAIN exits : exits[n].acquired = exits[n].exited

(* A voided position is marked at the refund it will get.                  *)
VoidMarkIsRefund == status = "VOIDED" => \A o \in Held : UnrealizedPnl(o) = 0

(* A summary shows no larger reservation for orders than for the wallet.   *)
SummaryAgrees == summary.step = None => summary.buy <= summary.reserved
=============================================================================
