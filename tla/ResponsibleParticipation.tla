----------------------- MODULE ResponsibleParticipation -----------------------
(***************************************************************************)
(* The controls of one participant: limits on what an order may commit,    *)
(* cooling-off, self-exclusion and administrative blocks, and the check    *)
(* that a placement makes against them.                                    *)
(*                                                                         *)
(* A placement locks the participant's row first and reads what was bought *)
(* today, the open orders and the positions one after another.  Fills and  *)
(* cancellations come from other requests; they move the participant's     *)
(* money, and every call of the wallet locks the same row.                 *)
(***************************************************************************)
EXTENDS Integers, Sequences, FiniteSetsExt

CONSTANTS
    Markets,
    Prices, Sizes,  \* of an order
    Kinds,          \* the limits in use
    Values,         \* of a limit
    Default,        \* configured limit of each kind, or None
    Durations,      \* of a cooling-off or an exclusion, in days
    DaysPerWeek, MaxDay, MaxOrders, MaxEdits,
    None

AllKinds == {"order", "daily", "weekly", "open", "market", "total", "loss"}
Timers == {"cooling", "exclusion", "block"}
Orders == [market : Markets, price : Prices, rest : 0..Max(Sizes)]
Days == 0..MaxDay

VARIABLES
    limits,     \* own limit of each kind, or None
    until,      \* end of each timer, or None
    indefinite, \* self-excluded indefinitely
    day,        \* the clock
    orders,     \* buy orders; one that is filled or cancelled rests nothing
    cost,       \* cost of the position in each market
    pnl,        \* realised result of each market
    bought,     \* what the MarketFills of each day cost
    placing,    \* None, or what a placement has read
    edits       \* bound on the changes of the controls

vars == <<limits, until, indefinite, day, orders, cost, pnl, bought, placing, edits>>
controls == <<limits, until, indefinite>>
holdings == <<orders, cost, pnl, bought>>

Money == 0..(MaxOrders * Max(Sizes) * Max(Prices))
Readings == {"none", "fills", "orders", "positions"}

TypeOK ==
    /\ limits \in [Kinds -> Values \cup {None}]
    /\ until \in [Timers -> 0..(MaxDay + Max(Durations)) \cup {None}]
    /\ indefinite \in BOOLEAN /\ day \in Days
    /\ \A o \in DOMAIN orders : orders[o] \in Orders
    /\ cost \in [Markets -> Money] /\ \A m \in Markets : pnl[m] \in -Max(Money)..Max(Money)
    /\ bought \in [Days -> Money]
    /\ placing # None => placing.at \in Readings
    /\ edits \in 0..MaxEdits

Init ==
    /\ limits = [k \in Kinds |-> None] /\ until = [t \in Timers |-> None]
    /\ indefinite = FALSE /\ day = 0 /\ orders = <<>>
    /\ cost = [m \in Markets |-> 0] /\ pnl = [m \in Markets |-> 0]
    /\ bought = [d \in Days |-> 0] /\ placing = None /\ edits = 0

Tick == day < MaxDay /\ day' = day + 1 /\ UNCHANGED <<controls, holdings, placing, edits>>

-----------------------------------------------------------------------------
(* The row of the participant is free: no placement is under way.          *)
AlwaysFree == TRUE
UserFree == placing = None

Edit == UserFree /\ edits < MaxEdits /\ edits' = edits + 1
        /\ UNCHANGED <<day, holdings, placing>>

(* update_participant_limits: a limit of one's own may only go down.       *)
SetLimit(k, v) ==
    /\ Edit /\ v # limits[k] /\ (limits[k] # None => v <= limits[k])
    /\ limits' = [limits EXCEPT ![k] = v] /\ UNCHANGED <<until, indefinite>>

(* A timer that was ever set ends later with every change.                 *)
Later(t, e) == until[t] # None => e > until[t]

StartCoolingOff(d) ==
    /\ Edit /\ Later("cooling", day + d)
    /\ until' = [until EXCEPT !["cooling"] = day + d] /\ UNCHANGED <<limits, indefinite>>

(* start_self_exclusion, d = None for an indefinite one.                   *)
StartSelfExclusion(d) ==
    /\ Edit /\ ~indefinite /\ UNCHANGED limits
    /\ IF d = None
       THEN indefinite' = TRUE /\ until' = [until EXCEPT !["exclusion"] = None]
       ELSE /\ Later("exclusion", day + d) /\ UNCHANGED indefinite
            /\ until' = [until EXCEPT !["exclusion"] = day + d]

(* update_admin: limits at will, timers only later, a block that is over   *)
(* may be taken back.                                                      *)
Extends(t, e) ==
    IF t = "block"
    THEN /\ e # None => e > day
         /\ (until[t] # None /\ until[t] > day) => e # None /\ e >= until[t]
    ELSE until[t] # None => e # None /\ e >= until[t]

UpdateAdminTimer(t, e) ==
    /\ Edit /\ e # until[t] /\ Extends(t, e)
    /\ until' = [until EXCEPT ![t] = e] /\ UNCHANGED <<limits, indefinite>>
UpdateAdminLimit(k, v) ==
    /\ Edit /\ v # limits[k] /\ limits' = [limits EXCEPT ![k] = v]
    /\ UNCHANGED <<until, indefinite>>
UpdateAdminExclude ==
    /\ Edit /\ ~indefinite /\ indefinite' = TRUE /\ UNCHANGED <<limits, until>>

-----------------------------------------------------------------------------
Active(t) == until[t] # None /\ until[t] > day
Blocked == indefinite \/ \E t \in Timers : Active(t)

(* _limits: the own limit before the configured one.                       *)
Limit(k) == IF limits[k] # None THEN limits[k] ELSE Default[k]
Within(k, v) == k \in Kinds => (Limit(k) # None => v <= Limit(k))

Total(f) == MapThenSumSet(LAMBDA x : f[x], DOMAIN f)
Week == {d \in Days : d \div DaysPerWeek = day \div DaysPerWeek /\ d <= day}
WeekOf(b) == MapThenSumSet(LAMBDA d : b[d], Week)
Commitments(ms) == MapThenSumSet(LAMBDA o : orders[o].rest * orders[o].price,
                                 {o \in DOMAIN orders : orders[o].market \in ms})
Loss == MapThenSumSet(LAMBDA m : IF pnl[m] < 0 THEN -pnl[m] ELSE 0, Markets)

(* What evaluate_order compares with the limits for an order of the amount *)
(* n in market m.                                                          *)
Allowed(m, n, daily, weekly, openAll, openHere, costAll, costHere, loss) ==
    /\ Within("order", n) /\ Within("daily", daily + n) /\ Within("weekly", weekly + n)
    /\ Within("open", openAll + n) /\ Within("market", costHere + openHere + n)
    /\ Within("total", costAll + openAll + n) /\ Within("loss", loss)

AllowedNow(m, n) ==
    Allowed(m, n, bought[day], WeekOf(bought), Commitments(Markets), Commitments({m}),
            Total(cost), cost[m], Loss)

(* place_order of a buy: the locks, then the reads in their order.         *)
Begin(m, p, s) ==
    /\ UserFree /\ Len(orders) < MaxOrders /\ ~Blocked
    /\ placing' = [at |-> "none", order |-> [market |-> m, price |-> p, rest |-> s]]
    /\ UNCHANGED <<controls, day, holdings, edits>>

ReadFills ==
    /\ placing # None /\ placing.at = "none"
    /\ placing' = [at |-> "fills", order |-> placing.order, daily |-> bought[day],
                   weekly |-> WeekOf(bought)]
    /\ UNCHANGED <<controls, day, holdings, edits>>

ReadOrders ==
    /\ placing # None /\ placing.at = "fills"
    /\ placing' = [at |-> "orders", order |-> placing.order, daily |-> placing.daily,
                   weekly |-> placing.weekly, openAll |-> Commitments(Markets),
                   openHere |-> Commitments({placing.order.market})]
    /\ UNCHANGED <<controls, day, holdings, edits>>

(* The positions are read, the check is made and the order created; the    *)
(* other rows that this writes are locked by now.                          *)
ReadPositions ==
    /\ placing # None /\ placing.at = "orders"
    /\ LET o == placing.order IN
       orders' = IF Allowed(o.market, o.rest * o.price, placing.daily, placing.weekly,
                            placing.openAll, placing.openHere, Total(cost),
                            cost[o.market], Loss)
                 THEN Append(orders, o) ELSE orders
    /\ placing' = None
    /\ UNCHANGED <<controls, day, cost, pnl, bought, edits>>

-----------------------------------------------------------------------------
(* A counterparty fills one share of an open order at its price or below.  *)
Fill(o, p) ==
    /\ UserFree /\ o \in DOMAIN orders /\ orders[o].rest > 0 /\ p <= orders[o].price
    /\ orders' = [orders EXCEPT ![o].rest = @ - 1]
    /\ cost' = [cost EXCEPT ![orders[o].market] = @ + p]
    /\ bought' = [bought EXCEPT ![day] = @ + p]
    /\ UNCHANGED <<controls, day, pnl, placing, edits>>

(* A buyer of the complement is met instead: the shares are issued, which  *)
(* costs as much and records an issuance, but no MarketFill.               *)
Issue(o, p) ==
    /\ UserFree /\ o \in DOMAIN orders /\ orders[o].rest > 0 /\ p <= orders[o].price
    /\ orders' = [orders EXCEPT ![o].rest = @ - 1]
    /\ cost' = [cost EXCEPT ![orders[o].market] = @ + p]
    /\ UNCHANGED <<controls, day, pnl, bought, placing, edits>>

(* The rest of an order is cancelled or expires.                           *)
Cancel(o) ==
    /\ UserFree /\ o \in DOMAIN orders /\ orders[o].rest > 0
    /\ orders' = [orders EXCEPT ![o].rest = 0]
    /\ UNCHANGED <<controls, day, cost, pnl, bought, placing, edits>>

(* A sell order of the participant takes the position of a market, at p;   *)
(* a sale is stopped by the timers, the size of the order and the loss.    *)
Sell(m, p) ==
    /\ UserFree /\ cost[m] > 0 /\ ~Blocked /\ Within("order", p) /\ Within("loss", Loss)
    /\ cost' = [cost EXCEPT ![m] = 0] /\ pnl' = [pnl EXCEPT ![m] = @ + p - cost[m]]
    /\ UNCHANGED <<controls, day, orders, bought, placing, edits>>

Controls ==
    \/ \E k \in Kinds, v \in Values : SetLimit(k, v)
    \/ \E k \in Kinds, v \in Values \cup {None} : UpdateAdminLimit(k, v)
    \/ \E d \in Durations : StartCoolingOff(d)
    \/ \E d \in Durations \cup {None} : StartSelfExclusion(d)
    \/ \E t \in Timers, e \in Days \cup {None} : UpdateAdminTimer(t, e)
    \/ UpdateAdminExclude

Next ==
    \/ Tick \/ Controls \/ ReadFills \/ ReadOrders \/ ReadPositions
    \/ \E m \in Markets, p \in Prices, s \in Sizes : Begin(m, p, s)
    \/ \E o \in 1..MaxOrders, p \in Prices : Fill(o, p) \/ Issue(o, p)
    \/ \E o \in 1..MaxOrders : Cancel(o)
    \/ \E m \in Markets, p \in Prices : Sell(m, p)

Spec == Init /\ [][Next]_vars

-----------------------------------------------------------------------------
Created == Len(orders') > Len(orders)
Newest == orders'[Len(orders')]

(* An order that is created keeps to every limit that holds at that moment *)
(* with what is bought, open and owned at that moment, although these were *)
(* read one after another; and nobody shortens an exclusion or a block.    *)
(* The fills of orders that were created are not checked again.            *)
KeepsToLimits ==
    /\ Created => AllowedNow(Newest.market, Newest.rest * Newest.price)
    /\ indefinite => indefinite'
    /\ \A t \in Timers : Active(t) =>
        \/ until'[t] # None /\ until'[t] >= until[t]
        \/ t = "exclusion" /\ indefinite'
LimitsHold == [][KeepsToLimits]_vars

(* What a participant may do to a limit never lets an order through that   *)
(* was refused before.                                                     *)
NoRelaxation == [][\A k \in Kinds : (\E v \in Values : SetLimit(k, v)) =>
    (Limit(k) # None => Limit(k)' <= Limit(k))]_vars

(* What is bought in a day keeps to the daily limit.                       *)
DailyLimitKept == \A d \in {day} : Within("daily", bought[d])
===============================================================================
