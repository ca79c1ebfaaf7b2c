-------------------------- MODULE MCMarketTrading ---------------------------
(***************************************************************************)
(* MarketTrading for TLC: a share pays 3, so that a price leaves 1 or 2 to *)
(* its complement, and improvement is possible on either side.             *)
(***************************************************************************)
EXTENDS MarketTrading, Sums, SequenceTheorems

CONSTANTS ann, bob, treasury

MCUsers == {ann, bob, treasury}
MCOpeningPrice == [o \in Outcomes |-> IF o = "YES" THEN 2 ELSE 1]
MCOpeningAsk == [o \in Outcomes |-> 2]

Asks(u, o, s, q, p, tif, e) ==
    [user |-> u, outcome |-> o, side |-> s, quantity |-> q, price |-> p, tif |-> tif, expires |-> e]

(* The treasury offers one share of each outcome.  The participants trade   *)
(* with it, with each other in the books of both outcomes, and create       *)
(* shares by complementary BUY orders, with and without price improvement.  *)
MCRequests ==
    { Asks(ann, "YES", "BUY", 2, 2, "GTC", 0),
      Asks(ann, "YES", "SELL", 1, 1, "GTD", 1),
      Asks(ann, "YES", "SELL", 1, 2, "GTC", 0),
      Asks(bob, "NO", "BUY", 2, 2, "GTC", 0),
      Asks(bob, "NO", "BUY", 1, 1, "GTD", 1),
      Asks(bob, "YES", "BUY", 1, 2, "IOC", 0),
      Asks(ann, "YES", "BUY", 2, 1, "GTC", 0),
      Asks(treasury, "YES", "BUY", 2, 2, "FOK", 0) }

-----------------------------------------------------------------------------
(* Proofs. Everything a transaction does to the book is done to one order  *)
(* at a time, with the wallet of its owner and one of his positions. A     *)
(* book that was refused is thrown away, so that only its types matter.    *)
Position == [quantity : Nat, reserved : Nat, cost : Nat]
Balance == [available : Nat, reserved : Nat]
Keys == Users \X Outcomes
OrderList == {s \in Seq(OrderRow) : \A i \in DOMAIN s : s[i].filled <= s[i].quantity}
Books == [orders : OrderList, position : [Keys -> Position], wallet : [Users -> Balance],
          locked : Nat, ok : BOOLEAN]

LEMMA OneOrderReplaced ==
    ASSUME NEW s \in OrderList, NEW i \in DOMAIN s, NEW o \in OrderRow, o.filled <= o.quantity
    PROVE  /\ [s EXCEPT ![i] = o] \in OrderList
           /\ DOMAIN [s EXCEPT ![i] = o] = DOMAIN s
           /\ [s EXCEPT ![i] = o][i] = o
           /\ \A j \in DOMAIN s \ {i} : [s EXCEPT ![i] = o][j] = s[j]
  BY LenProperties, ExceptSeq DEF OrderList

LEMMA OrderIsTyped ==
    ASSUME NEW x \in Books, NEW i \in DOMAIN x.orders
    PROVE  /\ x.orders \in OrderList /\ x.position \in [Keys -> Position]
           /\ x.wallet \in [Users -> Balance] /\ x.locked \in Nat /\ x.ok \in BOOLEAN
           /\ x.orders[i] \in OrderRow /\ x.orders[i].filled <= x.orders[i].quantity
           /\ x.orders[i].user \in Users /\ Key(x.orders[i]) \in Keys
           /\ Remaining(x.orders[i]) \in Nat
  <1>1. x.orders \in OrderList /\ x.position \in [Keys -> Position]
        /\ x.wallet \in [Users -> Balance] /\ x.locked \in Nat /\ x.ok \in BOOLEAN
    BY DEF Books
  <1>2. x.orders \in Seq(OrderRow) /\ x.orders[i].filled <= x.orders[i].quantity
    BY <1>1 DEF OrderList
  <1>3. x.orders[i] \in OrderRow BY <1>2, LenProperties, ElementOfSeq
  <1>4. PICK o \in OrderRow : o = x.orders[i] BY <1>3
  <1>5. o.user \in Users /\ o.outcome \in Outcomes /\ o.quantity \in Nat /\ o.filled \in Nat
    BY DEF OrderRow
  <1>6. Key(o) \in Keys BY <1>5 DEF Key, Keys
  <1>7. Remaining(o) \in Nat BY <1>2, <1>4, <1>5 DEF Remaining
  <1> QED BY <1>1, <1>2, <1>4, <1>5, <1>6, <1>7

LEMMA RefusedIsTyped ==
    ASSUME NEW x \in Books
    PROVE  /\ Refused(x) \in Books /\ ~ Refused(x).ok /\ Refused(x).orders = x.orders
           /\ Refused(x).locked = x.locked
  BY DEF Refused, Books

(* What an entry of the ledger for order i changes.                        *)
Posted(x, i, a, r, y) ==
    LET o == x.orders[i]
        w == x.wallet[o.user]
    IN  /\ y \in Books /\ DOMAIN y.orders = DOMAIN x.orders /\ y.locked = x.locked
        /\ \A j \in DOMAIN x.orders \ {i} : y.orders[j] = x.orders[j]
        /\ \/ y.orders[i] = [o EXCEPT !.held = o.held + r]
           \/ y.orders[i] = o
        /\ y.ok => /\ x.ok /\ y.position = x.position
                   /\ y.orders[i] = [o EXCEPT !.held = o.held + r]
                   /\ y.wallet = [x.wallet EXCEPT ![o.user] =
                                      [available |-> w.available + a, reserved |-> w.reserved + r]]
                   /\ w.available + a >= 0 /\ w.reserved + r >= 0

LEMMA PostIs ==
    ASSUME NEW x \in Books, NEW i \in DOMAIN x.orders, NEW a \in Int, NEW r \in Int
    PROVE  Posted(x, i, a, r, Post(x, i, a, r))
  <1> DEFINE y == Post(x, i, a, r)
             o == x.orders[i]
             w == x.wallet[o.user]
  <1>1. /\ x.orders \in OrderList /\ x.position \in [Keys -> Position]
        /\ x.wallet \in [Users -> Balance] /\ x.locked \in Nat /\ x.ok \in BOOLEAN
        /\ o \in OrderRow /\ o.filled <= o.quantity /\ o.user \in Users
    BY OrderIsTyped
  <1>2. w \in Balance BY <1>1
  <1>3. ASSUME w.available + a < 0 \/ w.reserved + r < 0 PROVE Posted(x, i, a, r, y)
    <2>1. y = Refused(x) BY <1>3 DEF Post
    <2> HIDE DEF y
    <2>2. y \in Books /\ ~ y.ok /\ y.orders = x.orders /\ y.locked = x.locked
      BY <2>1, RefusedIsTyped
    <2> QED BY <2>2 DEF Posted
  <1>4. ASSUME ~(w.available + a < 0 \/ w.reserved + r < 0) PROVE Posted(x, i, a, r, y)
    <2> DEFINE n == [o EXCEPT !.held = o.held + r]
               v == [available |-> w.available + a, reserved |-> w.reserved + r]
    <2>1. n \in OrderRow /\ n.filled <= n.quantity BY <1>1 DEF OrderRow
    <2>2. v \in Balance /\ w.available + a >= 0 /\ w.reserved + r >= 0 BY <1>2, <1>4 DEF Balance
    <2>3. y = [x EXCEPT !.wallet[o.user] = v, !.orders[i].held = @ + r] BY <1>4 DEF Post
    <2>4. y = [x EXCEPT !.wallet = [x.wallet EXCEPT ![o.user] = v],
                        !.orders = [x.orders EXCEPT ![i] = n]]
      BY <2>3 DEF Books
    <2> HIDE DEF n, v, y
    <2>5. [x.wallet EXCEPT ![o.user] = v] \in [Users -> Balance] BY <1>1, <2>2
    <2>6. /\ y.orders = [x.orders EXCEPT ![i] = n] /\ y.position = x.position
          /\ y.wallet = [x.wallet EXCEPT ![o.user] = v] /\ y.locked = x.locked /\ y.ok = x.ok
      BY <2>4 DEF Books
    <2>7. /\ [x.orders EXCEPT ![i] = n] \in OrderList
          /\ DOMAIN [x.orders EXCEPT ![i] = n] = DOMAIN x.orders
          /\ [x.orders EXCEPT ![i] = n][i] = n
          /\ \A j \in DOMAIN x.orders \ {i} : [x.orders EXCEPT ![i] = n][j] = x.orders[j]
      BY <1>1, <2>1, OneOrderReplaced
    <2>8. y \in Books BY <1>1, <2>4, <2>5, <2>7 DEF Books
    <2>9. /\ DOMAIN y.orders = DOMAIN x.orders /\ y.orders[i] = n
          /\ \A j \in DOMAIN x.orders \ {i} : y.orders[j] = x.orders[j]
      BY <2>6, <2>7
    <2> QED BY <2>2, <2>6, <2>8, <2>9 DEF n, v, Posted
  <1> QED BY <1>3, <1>4

(* What is added to position k.                                            *)
Adjusted(x, k, s, r, c, y) ==
    LET p == x.position[k]
    IN  /\ y \in Books /\ y.orders = x.orders /\ y.locked = x.locked
        /\ y.ok => /\ x.ok /\ y.wallet = x.wallet
                   /\ y.position = [x.position EXCEPT ![k] =
                                        [quantity |-> p.quantity + s, reserved |-> p.reserved + r,
                                         cost |-> p.cost + c]]
                   /\ p.reserved + r >= 0 /\ p.reserved + r <= p.quantity + s

CostStays(x, k, s, r, c) ==
    x.position[k].reserved + r \in 0..x.position[k].quantity + s
        => c \in Int /\ x.position[k].cost + c >= 0

LEMMA AdjustIs ==
    ASSUME NEW x \in Books, NEW k \in Keys, NEW s \in Int, NEW r \in Int, NEW c,
           CostStays(x, k, s, r, c)
    PROVE  Adjusted(x, k, s, r, c, Adjust(x, k, s, r, c))
  <1> DEFINE p == x.position[k]
             y == Adjust(x, k, s, r, c)
  <1>1. /\ x.orders \in OrderList /\ x.position \in [Keys -> Position]
        /\ x.wallet \in [Users -> Balance] /\ x.locked \in Nat /\ x.ok \in BOOLEAN
    BY DEF Books
  <1>2. p \in Position /\ p.quantity \in Nat /\ p.reserved \in Nat /\ p.cost \in Nat
    BY <1>1 DEF Position
  <1>3. ASSUME p.reserved + r \notin 0..p.quantity + s PROVE Adjusted(x, k, s, r, c, y)
    <2>1. y = Refused(x) BY <1>3 DEF Adjust
    <2> HIDE DEF y
    <2>2. y \in Books /\ ~ y.ok /\ y.orders = x.orders /\ y.locked = x.locked
      BY <2>1, RefusedIsTyped
    <2> QED BY <2>2 DEF Adjusted
  <1>4. ASSUME p.reserved + r \in 0..p.quantity + s PROVE Adjusted(x, k, s, r, c, y)
    <2> DEFINE v == [quantity |-> p.quantity + s, reserved |-> p.reserved + r,
                     cost |-> p.cost + c]
    <2>1. /\ p.reserved + r >= 0 /\ p.reserved + r <= p.quantity + s
          /\ c \in Int /\ p.cost + c >= 0
      BY <1>2, <1>4 DEF CostStays
    <2>2. v \in Position BY <1>2, <2>1 DEF Position
    <2>3. y = [x EXCEPT !.position[k] = v] BY <1>4 DEF Adjust
    <2> HIDE DEF v, y
    <2>4. y = [x EXCEPT !.position = [x.position EXCEPT ![k] = v]] BY <2>3 DEF Books
    <2>5. [x.position EXCEPT ![k] = v] \in [Keys -> Position] BY <1>1, <2>2
    <2>6. /\ y.orders = x.orders /\ y.position = [x.position EXCEPT ![k] = v]
          /\ y.wallet = x.wallet /\ y.locked = x.locked /\ y.ok = x.ok
      BY <2>4 DEF Books
    <2>7. y \in Books BY <1>1, <2>4, <2>5 DEF Books
    <2> QED BY <2>1, <2>6, <2>7 DEF v, Adjusted
  <1> QED BY <1>3, <1>4

(* A fill of order i.                                                      *)
AfterFill(o, q, p) ==
    [o EXCEPT !.filled = o.filled + q, !.value = o.value + q * p,
              !.status = IF Remaining(o) = q THEN "FILLED" ELSE "PARTIALLY_FILLED"]

OrderFilled(x, i, q, p, y) ==
    /\ y \in Books /\ DOMAIN y.orders = DOMAIN x.orders
    /\ y.orders[i] = AfterFill(x.orders[i], q, p) /\ y.orders[i] \in OrderRow
    /\ \A j \in DOMAIN x.orders \ {i} : y.orders[j] = x.orders[j]
    /\ y.ok = x.ok /\ y.position = x.position /\ y.wallet = x.wallet
    /\ y.locked = x.locked

LEMMA FillOrderIs ==
    ASSUME NEW x \in Books, NEW i \in DOMAIN x.orders,
           NEW q \in Nat, q <= Remaining(x.orders[i]), NEW p \in Nat
    PROVE  OrderFilled(x, i, q, p, FillOrder(x, i, q, p))
  <1> DEFINE o == x.orders[i]
             n == AfterFill(o, q, p)
             y == FillOrder(x, i, q, p)
  <1>1. /\ x.orders \in OrderList /\ x.position \in [Keys -> Position]
        /\ x.wallet \in [Users -> Balance] /\ x.locked \in Nat /\ x.ok \in BOOLEAN
        /\ o \in OrderRow /\ o.filled <= o.quantity
    BY OrderIsTyped
  <1>2. n \in OrderRow /\ n.filled <= n.quantity
    <2>1. o.filled \in Nat /\ o.quantity \in Nat /\ o.value \in Nat /\ q * p \in Nat
      BY <1>1 DEF OrderRow
    <2>2. o.filled + q <= o.quantity /\ o.value + q * p \in Nat BY <2>1 DEF Remaining
    <2>3. PICK s \in OrderStatuses :
              s = IF Remaining(o) = q THEN "FILLED" ELSE "PARTIALLY_FILLED"
      BY DEF OrderStatuses, FILLABLE_STATUSES
    <2>4. PICK v \in Nat : v = o.value + q * p BY <2>2
    <2>5. n = [o EXCEPT !.filled = o.filled + q, !.value = v, !.status = s]
      BY <2>3, <2>4 DEF AfterFill
    <2>6. PICK f \in Nat : f = o.filled + q BY <2>1
    <2>7. n = [o EXCEPT !.filled = f, !.value = v, !.status = s] BY <2>5, <2>6
    <2>8. n \in OrderRow BY <1>1, <2>7 DEF OrderRow
    <2>9. n.filled = f /\ n.quantity = o.quantity BY <1>1, <2>7 DEF OrderRow
    <2> QED BY <2>2, <2>6, <2>8, <2>9
  <1>3. y = [x EXCEPT !.orders[i] = n] BY DEF FillOrder, AfterFill
  <1> HIDE DEF n, y
  <1>4. y = [x EXCEPT !.orders = [x.orders EXCEPT ![i] = n]] BY <1>3 DEF Books
  <1>5. /\ [x.orders EXCEPT ![i] = n] \in OrderList
        /\ DOMAIN [x.orders EXCEPT ![i] = n] = DOMAIN x.orders
        /\ [x.orders EXCEPT ![i] = n][i] = n
        /\ \A j \in DOMAIN x.orders \ {i} : [x.orders EXCEPT ![i] = n][j] = x.orders[j]
    BY <1>1, <1>2, OneOrderReplaced
  <1>6. /\ y.orders = [x.orders EXCEPT ![i] = n] /\ y.position = x.position
        /\ y.wallet = x.wallet /\ y.locked = x.locked /\ y.ok = x.ok
    BY <1>4 DEF Books
  <1>7. y \in Books BY <1>1, <1>4, <1>5 DEF Books
  <1> QED BY <1>2, <1>5, <1>6, <1>7 DEF OrderFilled, n, y

-----------------------------------------------------------------------------
(* The sums of a book: the shares of an outcome, the money in the wallets, *)
(* what the orders offer of a position and hold of a wallet.               *)
Shares(p, o) == SumOf([u \in Users |-> p[<<u, o>>].quantity], Users)
Money(w) == SumOf([u \in Users |-> w[u].available + w[u].reserved], Users)
Offers(s, k) == SumOf([i \in DOMAIN s |-> Offered(s[i], k)], DOMAIN s)
Holds(s, u) == SumOf([i \in DOMAIN s |-> HeldFor(s[i], u)], DOMAIN s)

LEMMA SumFunctionIsSum == \A f : SumFunction(f) = SumOf(f, DOMAIN f)
  BY DEF SumFunction, SumFunctionOnSet, FoldFunctionOnSet, MapThenFoldSet, SumOf, Some

LEMMA MoneyMoves ==
    ASSUME NEW w \in [Users -> Balance], NEW v \in Balance, NEW u \in Users
    PROVE  Money([w EXCEPT ![u] = v]) =
               Money(w) + ((v.available + v.reserved) - (w[u].available + w[u].reserved))
  <1> DEFINE z == [w EXCEPT ![u] = v]
             f == [t \in Users |-> w[t].available + w[t].reserved]
             h == [t \in Users |-> z[t].available + z[t].reserved]
  <1>1. z \in [Users -> Balance] /\ z[u] = v /\ \A t \in Users \ {u} : z[t] = w[t] OBVIOUS
  <1> HIDE DEF z
  <1>2. \A t \in Users : f[t] \in Int /\ h[t] \in Int BY <1>1 DEF Balance
  <1>3. \A t \in Users \ {u} : h[t] = f[t] BY <1>1
  <1>4. h[u] = v.available + v.reserved /\ f[u] = w[u].available + w[u].reserved BY <1>1
  <1>5. Money(w) = SumOf(f, Users) /\ Money(z) = SumOf(h, Users) BY DEF Money
  <1>6. IsFiniteSet(Users) BY TradingAssumption
  <1> HIDE DEF f, h
  <1>7. SumOf(h, Users) = SumOf(f, Users) + (h[u] - f[u]) BY <1>2, <1>3, <1>6, SumChanges
  <1> QED BY <1>4, <1>5, <1>7 DEF z

LEMMA SharesMove ==
    ASSUME NEW p \in [Keys -> Position], NEW v \in Position, NEW u \in Users, NEW o \in Outcomes
    PROVE  /\ Shares([p EXCEPT ![<<u, o>>] = v], o) =
                  Shares(p, o) + (v.quantity - p[<<u, o>>].quantity)
           /\ \A e \in Outcomes \ {o} : Shares([p EXCEPT ![<<u, o>>] = v], e) = Shares(p, e)
  <1> DEFINE z == [p EXCEPT ![<<u, o>>] = v]
             f(e) == [t \in Users |-> p[<<t, e>>].quantity]
             h(e) == [t \in Users |-> z[<<t, e>>].quantity]
  <1>0. \A t \in Users, e \in Outcomes : <<t, e>> \in Keys BY DEF Keys
  <1>1. /\ z \in [Keys -> Position] /\ z[<<u, o>>] = v
        /\ \A t \in Users, e \in Outcomes : t # u \/ e # o => z[<<t, e>>] = p[<<t, e>>]
    BY <1>0
  <1> HIDE DEF z
  <1>2. \A e \in Outcomes, t \in Users : f(e)[t] \in Int /\ h(e)[t] \in Int
    BY <1>0, <1>1 DEF Position
  <1>3. /\ \A t \in Users \ {u} : h(o)[t] = f(o)[t]
        /\ \A e \in Outcomes \ {o}, t \in Users : h(e)[t] = f(e)[t]
    BY <1>1
  <1>4. h(o)[u] = v.quantity /\ f(o)[u] = p[<<u, o>>].quantity BY <1>1
  <1>5. \A e : Shares(p, e) = SumOf(f(e), Users) /\ Shares(z, e) = SumOf(h(e), Users) BY DEF Shares
  <1>6. IsFiniteSet(Users) BY TradingAssumption
  <1> HIDE DEF f, h
  <1>7. SumOf(h(o), Users) = SumOf(f(o), Users) + (h(o)[u] - f(o)[u])
    BY <1>2, <1>3, <1>6, SumChanges
  <1>8. ASSUME NEW e \in Outcomes \ {o} PROVE SumOf(h(e), Users) = SumOf(f(e), Users)
    BY <1>2, <1>3, <1>6, SumsAgree
  <1> QED BY <1>4, <1>5, <1>7, <1>8 DEF z

LEMMA OrdersAreFinite ==
    ASSUME NEW s \in OrderList
    PROVE  /\ IsFiniteSet(DOMAIN s) /\ DOMAIN s \subseteq Nat
           /\ Len(s) \in Nat /\ DOMAIN s = 1..Len(s)
           /\ \A i \in DOMAIN s : s[i] \in OrderRow /\ s[i].filled <= s[i].quantity
  <1>1. s \in Seq(OrderRow) /\ DOMAIN s = 1..Len(s) /\ Len(s) \in Nat BY LenProperties DEF OrderList
  <1>2. IsFiniteSet(1..Len(s)) BY <1>1, FS_Interval
  <1>3. \A i \in DOMAIN s : s[i] \in OrderRow BY <1>1, ElementOfSeq
  <1> QED BY <1>1, <1>2, <1>3 DEF OrderList

LEMMA PartsAreIntegers ==
    ASSUME NEW o \in OrderRow
    PROVE  /\ \A k : Offered(o, k) \in Int
           /\ \A u : HeldFor(o, u) \in Int
  <1>1. o.quantity \in Nat /\ o.filled \in Nat /\ o.held \in Int BY DEF OrderRow
  <1>2. Remaining(o) \in Int BY <1>1 DEF Remaining
  <1> QED BY <1>1, <1>2 DEF Offered, HeldFor

(* One order of a list is replaced by another.                             *)
LEMMA OffersMove ==
    ASSUME NEW s \in OrderList, NEW z \in OrderList, DOMAIN z = DOMAIN s,
           NEW i \in DOMAIN s, \A j \in DOMAIN s \ {i} : z[j] = s[j]
    PROVE  /\ \A k : Offers(z, k) = Offers(s, k) + (Offered(z[i], k) - Offered(s[i], k))
           /\ \A u : Holds(z, u) = Holds(s, u) + (HeldFor(z[i], u) - HeldFor(s[i], u))
  <1>1. IsFiniteSet(DOMAIN s) /\ \A j \in DOMAIN s : s[j] \in OrderRow /\ z[j] \in OrderRow
    BY OrdersAreFinite
  <1>2. ASSUME NEW k PROVE Offers(z, k) = Offers(s, k) + (Offered(z[i], k) - Offered(s[i], k))
    <2> DEFINE f == [j \in DOMAIN s |-> Offered(s[j], k)]
               h == [j \in DOMAIN s |-> Offered(z[j], k)]
    <2>1. \A j \in DOMAIN s : f[j] \in Int /\ h[j] \in Int BY <1>1, PartsAreIntegers
    <2>2. \A j \in DOMAIN s \ {i} : h[j] = f[j] OBVIOUS
    <2>3. h[i] = Offered(z[i], k) /\ f[i] = Offered(s[i], k) OBVIOUS
    <2>4. Offers(s, k) = SumOf(f, DOMAIN s) /\ Offers(z, k) = SumOf(h, DOMAIN s) BY DEF Offers
    <2> HIDE DEF f, h
    <2>5. SumOf(h, DOMAIN s) = SumOf(f, DOMAIN s) + (h[i] - f[i])
      BY <1>1, <2>1, <2>2, SumChanges, SMTT(30)
    <2> QED BY <2>3, <2>4, <2>5
  <1>3. ASSUME NEW u PROVE Holds(z, u) = Holds(s, u) + (HeldFor(z[i], u) - HeldFor(s[i], u))
    <2> DEFINE f == [j \in DOMAIN s |-> HeldFor(s[j], u)]
               h == [j \in DOMAIN s |-> HeldFor(z[j], u)]
    <2>1. \A j \in DOMAIN s : f[j] \in Int /\ h[j] \in Int BY <1>1, PartsAreIntegers
    <2>2. \A j \in DOMAIN s \ {i} : h[j] = f[j] OBVIOUS
    <2>3. h[i] = HeldFor(z[i], u) /\ f[i] = HeldFor(s[i], u) OBVIOUS
    <2>4. Holds(s, u) = SumOf(f, DOMAIN s) /\ Holds(z, u) = SumOf(h, DOMAIN s) BY DEF Holds
    <2> HIDE DEF f, h
    <2>5. SumOf(h, DOMAIN s) = SumOf(f, DOMAIN s) + (h[i] - f[i])
      BY <1>1, <2>1, <2>2, SumChanges, SMTT(30)
    <2> QED BY <2>3, <2>4, <2>5
  <1> QED BY <1>2, <1>3

LEMMA MoneyIsInteger ==
    ASSUME NEW x \in Books
    PROVE  Money(x.wallet) \in Int /\ \A o \in Outcomes : Shares(x.position, o) \in Int
  <1>1. IsFiniteSet(Users) BY TradingAssumption
  <1>2. x.wallet \in [Users -> Balance] /\ x.position \in [Keys -> Position] BY DEF Books
  <1>3. Money(x.wallet) \in Int
    <2> DEFINE f == [u \in Users |-> x.wallet[u].available + x.wallet[u].reserved]
    <2>1. \A u \in Users : f[u] \in Int BY <1>2 DEF Balance
    <2> HIDE DEF f
    <2>2. SumOf(f, Users) \in Int BY <1>1, <2>1, SumIsInteger
    <2> QED BY <2>2 DEF Money, f
  <1>4. ASSUME NEW o \in Outcomes PROVE Shares(x.position, o) \in Int
    <2> DEFINE f == [u \in Users |-> x.position[<<u, o>>].quantity]
    <2>1. \A u \in Users : f[u] \in Int BY <1>2 DEF Position, Keys
    <2> HIDE DEF f
    <2>2. SumOf(f, Users) \in Int BY <1>1, <2>1, SumIsInteger
    <2> QED BY <2>2 DEF Shares, f
  <1> QED BY <1>3, <1>4

-----------------------------------------------------------------------------
(* What a book has to keep, and what an operation on one order leaves.     *)
HeldAsNeeded(o) ==
    o.held = IF o.side = "BUY" /\ Fillable(o) THEN Remaining(o) * o.price ELSE 0
WithinLimit(o) ==
    IF o.side = "BUY" THEN o.value <= o.filled * o.price ELSE o.value >= o.filled * o.price

OffersBacked(x) ==
    \A k \in Keys : /\ x.position[k].reserved <= x.position[k].quantity
                    /\ x.position[k].reserved = Offers(x.orders, k)
FundsBacked(x) ==
    /\ \A u \in Users : x.wallet[u].reserved = Holds(x.orders, u)
    /\ \A i \in DOMAIN x.orders : HeldAsNeeded(x.orders[i]) /\ WithinLimit(x.orders[i])

SameTerms(n, o) ==
    /\ n.user = o.user /\ n.outcome = o.outcome /\ n.side = o.side
    /\ n.quantity = o.quantity /\ n.price = o.price /\ n.tif = o.tif /\ n.expires = o.expires

(* Between x and y no order but i has changed; neither has a wallet but    *)
(* that of its owner, nor a position but his in its outcome.               *)
Touched(x, y, i) ==
    /\ x \in Books /\ y \in Books /\ i \in DOMAIN x.orders /\ DOMAIN y.orders = DOMAIN x.orders
    /\ y.locked = x.locked /\ (y.ok => x.ok)
    /\ SameTerms(y.orders[i], x.orders[i])
    /\ \A j \in DOMAIN x.orders \ {i} : y.orders[j] = x.orders[j]

OnlyOrder(x, y, i) ==
    LET o == x.orders[i]
    IN  /\ Touched(x, y, i)
        /\ y.wallet = [x.wallet EXCEPT ![o.user] = y.wallet[o.user]]
        /\ y.position = [x.position EXCEPT ![Key(o)] = y.position[Key(o)]]

LEMMA OneOrderMoves ==
    ASSUME NEW x, NEW y, NEW i, OnlyOrder(x, y, i), NEW o, o = x.orders[i]
    PROVE  /\ Money(y.wallet) = Money(x.wallet)
                + ((y.wallet[o.user].available + y.wallet[o.user].reserved)
                    - (x.wallet[o.user].available + x.wallet[o.user].reserved))
           /\ Shares(y.position, o.outcome) = Shares(x.position, o.outcome)
                + (y.position[Key(o)].quantity - x.position[Key(o)].quantity)
           /\ \A e \in Outcomes \ {o.outcome} : Shares(y.position, e) = Shares(x.position, e)
  <1>1. /\ x \in Books /\ y \in Books /\ i \in DOMAIN x.orders
        /\ y.wallet = [x.wallet EXCEPT ![o.user] = y.wallet[o.user]]
        /\ y.position = [x.position EXCEPT ![Key(o)] = y.position[Key(o)]]
    BY DEF OnlyOrder, Touched
  <1>2. /\ x.wallet \in [Users -> Balance] /\ y.wallet \in [Users -> Balance]
        /\ x.position \in [Keys -> Position] /\ y.position \in [Keys -> Position]
    BY <1>1 DEF Books
  <1>3. o \in OrderRow /\ Key(o) \in Keys BY <1>1, OrderIsTyped
  <1>4. o.user \in Users /\ o.outcome \in Outcomes /\ Key(o) = <<o.user, o.outcome>>
    BY <1>3 DEF OrderRow, Key
  <1>5. PICK v \in Balance, p \in Position : v = y.wallet[o.user] /\ p = y.position[Key(o)]
    BY <1>2, <1>3, <1>4
  <1>6. Money([x.wallet EXCEPT ![o.user] = v]) = Money(x.wallet)
            + ((v.available + v.reserved)
                - (x.wallet[o.user].available + x.wallet[o.user].reserved))
    BY <1>2, <1>4, MoneyMoves
  <1>7. PICK u \in Users, e \in Outcomes : u = o.user /\ e = o.outcome /\ Key(o) = <<u, e>> BY <1>4
  <1>8. /\ Shares([x.position EXCEPT ![<<u, e>>] = p], e) =
              Shares(x.position, e) + (p.quantity - x.position[<<u, e>>].quantity)
        /\ \A d \in Outcomes \ {e} : Shares([x.position EXCEPT ![<<u, e>>] = p], d) =
                                        Shares(x.position, d)
    BY <1>2, SharesMove
  <1>9. /\ y.wallet = [x.wallet EXCEPT ![o.user] = v]
        /\ y.position = [x.position EXCEPT ![<<u, e>>] = p]
    BY <1>1, <1>5, <1>7
  <1> QED BY <1>5, <1>6, <1>7, <1>8, <1>9

LEMMA OneOrderKeepsOffers ==
    ASSUME NEW x, NEW y, NEW i, OnlyOrder(x, y, i), OffersBacked(x),
           NEW o, o = x.orders[i], NEW n, n = y.orders[i],
           NEW p, p = x.position[Key(o)], NEW v, v = y.position[Key(o)],
           v.reserved <= v.quantity,
           v.reserved - p.reserved = Offered(n, Key(o)) - Offered(o, Key(o))
    PROVE  OffersBacked(y)
  <1>1. /\ x \in Books /\ y \in Books /\ i \in DOMAIN x.orders /\ DOMAIN y.orders = DOMAIN x.orders
        /\ SameTerms(n, o)
        /\ \A j \in DOMAIN x.orders \ {i} : y.orders[j] = x.orders[j]
        /\ y.position = [x.position EXCEPT ![Key(o)] = v]
    BY DEF OnlyOrder, Touched
  <1>2. /\ x.orders \in OrderList /\ y.orders \in OrderList
        /\ x.position \in [Keys -> Position] /\ y.position \in [Keys -> Position]
    BY <1>1 DEF Books
  <1>3. Key(o) \in Keys /\ o \in OrderRow /\ n \in OrderRow BY <1>1, OrderIsTyped
  <1>4. \A k : Offers(y.orders, k) = Offers(x.orders, k) + (Offered(n, k) - Offered(o, k))
    BY <1>1, <1>2, OffersMove
  <1>5. \A k : Offered(n, k) \in Int /\ Offered(o, k) \in Int BY <1>3, PartsAreIntegers
  <1>6. ASSUME NEW k \in Keys
        PROVE  /\ y.position[k].reserved <= y.position[k].quantity
               /\ y.position[k].reserved = Offers(y.orders, k)
    <2>1. /\ x.position[k].reserved <= x.position[k].quantity
          /\ x.position[k].reserved = Offers(x.orders, k)
          /\ x.position[k].reserved \in Nat /\ v.reserved \in Nat /\ p.reserved \in Nat
      BY <1>2, <1>3 DEF OffersBacked, Position
    <2>2. CASE k = Key(o)
      <3>1. y.position[k] = v /\ x.position[k] = p BY <1>1, <1>2, <2>2
      <3>2. PICK a \in Int, b \in Int : a = Offered(n, k) /\ b = Offered(o, k) BY <1>5
      <3>3. v.reserved - p.reserved = a - b BY <2>2, <3>2
      <3>4. Offers(y.orders, k) = p.reserved + (a - b) BY <1>4, <2>1, <3>1, <3>2
      <3>5. v.reserved = p.reserved + (a - b) BY <2>1, <3>2, <3>3
      <3> QED BY <3>1, <3>4, <3>5
    <2>3. CASE k # Key(o)
      <3>1. y.position[k] = x.position[k] BY <1>1, <1>2, <2>3
      <3>2. Offered(o, k) = 0 /\ Offered(n, k) = 0 BY <1>1, <2>3 DEF Offered, Key, SameTerms
      <3>3. Offers(y.orders, k) = Offers(x.orders, k) BY <1>4, <2>1, <3>2
      <3> QED BY <2>1, <3>1, <3>3
    <2> QED BY <2>2, <2>3
  <1> QED BY <1>6 DEF OffersBacked

LEMMA OneOrderKeepsFunds ==
    ASSUME NEW x, NEW y, NEW i, OnlyOrder(x, y, i), FundsBacked(x),
           NEW o, o = x.orders[i], NEW n, n = y.orders[i],
           y.wallet[o.user].reserved - x.wallet[o.user].reserved = n.held - o.held,
           HeldAsNeeded(n), WithinLimit(n)
    PROVE  FundsBacked(y)
  <1>1. /\ x \in Books /\ y \in Books /\ i \in DOMAIN x.orders /\ DOMAIN y.orders = DOMAIN x.orders
        /\ SameTerms(n, o)
        /\ \A j \in DOMAIN x.orders \ {i} : y.orders[j] = x.orders[j]
        /\ y.wallet = [x.wallet EXCEPT ![o.user] = y.wallet[o.user]]
    BY DEF OnlyOrder, Touched
  <1>2. /\ x.orders \in OrderList /\ y.orders \in OrderList
        /\ x.wallet \in [Users -> Balance] /\ y.wallet \in [Users -> Balance]
    BY <1>1 DEF Books
  <1>3. o.user \in Users /\ o \in OrderRow /\ n \in OrderRow BY <1>1, OrderIsTyped
  <1>4. \A u : Holds(y.orders, u) = Holds(x.orders, u) + (HeldFor(n, u) - HeldFor(o, u))
    BY <1>1, <1>2, OffersMove
  <1>5. n.held \in Int /\ o.held \in Int /\ n.user = o.user BY <1>1, <1>3 DEF OrderRow, SameTerms
  <1>6. ASSUME NEW u \in Users PROVE y.wallet[u].reserved = Holds(y.orders, u)
    <2>1. /\ x.wallet[u].reserved = Holds(x.orders, u)
          /\ x.wallet[u].reserved \in Nat /\ y.wallet[u].reserved \in Nat
      BY <1>2 DEF FundsBacked, Balance
    <2>2. CASE u = o.user
      <3>1. HeldFor(n, u) = n.held /\ HeldFor(o, u) = o.held BY <1>5, <2>2 DEF HeldFor
      <3>2. y.wallet[u].reserved - x.wallet[u].reserved = n.held - o.held BY <2>2
      <3> QED BY <1>4, <1>5, <2>1, <3>1, <3>2
    <2>3. CASE u # o.user
      <3>1. y.wallet[u] = x.wallet[u] BY <1>1, <1>2, <2>3
      <3>2. HeldFor(n, u) = 0 /\ HeldFor(o, u) = 0 BY <1>5, <2>3 DEF HeldFor
      <3> QED BY <1>4, <2>1, <3>1, <3>2
    <2> QED BY <2>2, <2>3
  <1>7. ASSUME NEW j \in DOMAIN y.orders
        PROVE  HeldAsNeeded(y.orders[j]) /\ WithinLimit(y.orders[j])
    BY <1>1 DEF FundsBacked
  <1> QED BY <1>6, <1>7 DEF FundsBacked

-----------------------------------------------------------------------------
(* What an operation adds to the order (filled, value and held), to the    *)
(* balances of its owner (available and reserved) and to his position      *)
(* (shares, offered shares and cost).                                      *)
Moved(x, y, i, f, v, h, a, r, s, e, c) ==
    LET o == x.orders[i]
        n == y.orders[i]
        w == x.wallet[o.user]
        z == y.wallet[o.user]
        p == x.position[Key(o)]
        t == y.position[Key(o)]
    IN  /\ OnlyOrder(x, y, i) /\ x.ok
        /\ n.filled = o.filled + f /\ n.value = o.value + v /\ n.held = o.held + h
        /\ z.available = w.available + a /\ z.reserved = w.reserved + r
        /\ t.quantity = p.quantity + s /\ t.reserved = p.reserved + e /\ t.cost = p.cost + c

SameStatus(x, y, i) == y.orders[i].status = x.orders[i].status
NotOversold(y, k) == y.position[k].reserved <= y.position[k].quantity

LEMMA TouchedTwice ==
    ASSUME NEW x, NEW y, NEW z, NEW i, Touched(x, y, i), Touched(y, z, i)
    PROVE  Touched(x, z, i)
  BY DEF Touched, SameTerms

LEMMA SameOwner ==
    ASSUME NEW x, NEW y, NEW i, Touched(x, y, i)
    PROVE  y.orders[i].user = x.orders[i].user /\ Key(y.orders[i]) = Key(x.orders[i])
  BY DEF Touched, SameTerms, Key

LEMMA OnlyOrderTwice ==
    ASSUME NEW x, NEW y, NEW z, NEW i, OnlyOrder(x, y, i), OnlyOrder(y, z, i)
    PROVE  OnlyOrder(x, z, i)
  BY TouchedTwice, SameOwner DEF OnlyOrder

LEMMA PartsAreTyped ==
    ASSUME NEW x, NEW y, NEW i, Touched(x, y, i), NEW o, o = x.orders[i]
    PROVE  /\ o.filled \in Int /\ o.value \in Int /\ o.held \in Int
           /\ x.wallet[o.user].available \in Int /\ x.wallet[o.user].reserved \in Int
           /\ x.position[Key(o)].quantity \in Int /\ x.position[Key(o)].reserved \in Int
           /\ x.position[Key(o)].cost \in Int
  <1>1. /\ x.position \in [Keys -> Position] /\ x.wallet \in [Users -> Balance]
        /\ o \in OrderRow /\ o.user \in Users /\ Key(o) \in Keys
    BY OrderIsTyped DEF Touched
  <1>2. x.position[Key(o)] \in Position /\ x.wallet[o.user] \in Balance BY <1>1
  <1> QED BY <1>1, <1>2 DEF OrderRow, Position, Balance

LEMMA MovedTwice ==
    ASSUME NEW x, NEW y, NEW z, NEW i,
           NEW f \in Int, NEW v \in Int, NEW h \in Int, NEW a \in Int, NEW r \in Int,
           NEW s \in Int, NEW e \in Int, NEW c \in Int,
           NEW ff \in Int, NEW vv \in Int, NEW hh \in Int, NEW aa \in Int, NEW rr \in Int,
           NEW ss \in Int, NEW ee \in Int, NEW cc \in Int,
           Moved(x, y, i, f, v, h, a, r, s, e, c), Moved(y, z, i, ff, vv, hh, aa, rr, ss, ee, cc)
    PROVE  Moved(x, z, i, f + ff, v + vv, h + hh, a + aa, r + rr, s + ss, e + ee, c + cc)
  <1>1. OnlyOrder(x, y, i) /\ OnlyOrder(y, z, i) /\ OnlyOrder(x, z, i) BY OnlyOrderTwice DEF Moved
  <1>2. PICK o, n, m : o = x.orders[i] /\ n = y.orders[i] /\ m = z.orders[i] OBVIOUS
  <1>3. PICK u, k : u = o.user /\ k = Key(o) OBVIOUS
  <1>4. n.user = u /\ Key(n) = k BY <1>1, <1>2, <1>3, SameOwner DEF OnlyOrder
  <1>5. /\ o.filled \in Int /\ o.value \in Int /\ o.held \in Int
        /\ x.wallet[u].available \in Int /\ x.wallet[u].reserved \in Int
        /\ x.position[k].quantity \in Int /\ x.position[k].reserved \in Int
        /\ x.position[k].cost \in Int
    BY <1>1, <1>2, <1>3, PartsAreTyped DEF OnlyOrder
  <1>6. /\ x.ok
        /\ n.filled = o.filled + f /\ n.value = o.value + v /\ n.held = o.held + h
        /\ y.wallet[u].available = x.wallet[u].available + a
        /\ y.wallet[u].reserved = x.wallet[u].reserved + r
        /\ y.position[k].quantity = x.position[k].quantity + s
        /\ y.position[k].reserved = x.position[k].reserved + e
        /\ y.position[k].cost = x.position[k].cost + c
    BY <1>2, <1>3 DEF Moved
  <1>7. /\ m.filled = n.filled + ff /\ m.value = n.value + vv /\ m.held = n.held + hh
        /\ z.wallet[u].available = y.wallet[u].available + aa
        /\ z.wallet[u].reserved = y.wallet[u].reserved + rr
        /\ z.position[k].quantity = y.position[k].quantity + ss
        /\ z.position[k].reserved = y.position[k].reserved + ee
        /\ z.position[k].cost = y.position[k].cost + cc
    BY <1>2, <1>4 DEF Moved
  <1>8. /\ m.filled = o.filled + (f + ff) /\ m.value = o.value + (v + vv)
        /\ m.held = o.held + (h + hh)
        /\ z.wallet[u].available = x.wallet[u].available + (a + aa)
        /\ z.wallet[u].reserved = x.wallet[u].reserved + (r + rr)
        /\ z.position[k].quantity = x.position[k].quantity + (s + ss)
        /\ z.position[k].reserved = x.position[k].reserved + (e + ee)
        /\ z.position[k].cost = x.position[k].cost + (c + cc)
    BY <1>5, <1>6, <1>7
  <1> QED BY <1>1, <1>2, <1>3, <1>6, <1>8 DEF Moved

LEMMA PostMoves ==
    ASSUME NEW x \in Books, NEW i \in DOMAIN x.orders, NEW a \in Int, NEW r \in Int,
           NEW y, y = Post(x, i, a, r)
    PROVE  /\ Touched(x, y, i) /\ SameStatus(x, y, i)
           /\ y.ok => Moved(x, y, i, 0, 0, r, a, r, 0, 0, 0)
  <1>1. Posted(x, i, a, r, y) BY PostIs
  <1>2. PICK o, u, k : o = x.orders[i] /\ u = o.user /\ k = Key(o) OBVIOUS
  <1>3. /\ o \in OrderRow /\ u \in Users /\ k \in Keys
        /\ x.position \in [Keys -> Position] /\ x.wallet \in [Users -> Balance]
    BY <1>2, OrderIsTyped
  <1>4. y.orders[i] = [o EXCEPT !.held = o.held + r] \/ y.orders[i] = o BY <1>1, <1>2 DEF Posted
  <1>5. PICK n : n = y.orders[i] OBVIOUS
  <1>6. /\ SameTerms(n, o) /\ n.status = o.status /\ n.filled = o.filled /\ n.value = o.value
        /\ n = [o EXCEPT !.held = o.held + r] => n.held = o.held + r
    BY <1>3, <1>4, <1>5 DEF OrderRow, SameTerms
  <1>7. Touched(x, y, i) BY <1>1, <1>2, <1>5, <1>6 DEF Posted, Touched
  <1>8. ASSUME y.ok PROVE Moved(x, y, i, 0, 0, r, a, r, 0, 0, 0)
    <2> DEFINE v == [available |-> x.wallet[u].available + a, reserved |-> x.wallet[u].reserved + r]
    <2>1. /\ x.ok /\ y.position = x.position /\ n = [o EXCEPT !.held = o.held + r]
          /\ y.wallet = [x.wallet EXCEPT ![u] = v]
      BY <1>1, <1>2, <1>5, <1>8 DEF Posted
    <2>2. v.available = x.wallet[u].available + a /\ v.reserved = x.wallet[u].reserved + r OBVIOUS
    <2> HIDE DEF v
    <2>3. y.wallet[u] = v /\ y.wallet = [x.wallet EXCEPT ![u] = y.wallet[u]] BY <1>3, <2>1
    <2>4. y.position = [x.position EXCEPT ![k] = y.position[k]] BY <1>3, <2>1
    <2>5. OnlyOrder(x, y, i) BY <1>2, <1>7, <2>3, <2>4 DEF OnlyOrder
    <2>6. n.held = o.held + r /\ n.filled = o.filled + 0 /\ n.value = o.value + 0
      BY <1>3, <1>6, <2>1 DEF OrderRow
    <2>7. /\ y.position[k].quantity = x.position[k].quantity + 0
          /\ y.position[k].reserved = x.position[k].reserved + 0
          /\ y.position[k].cost = x.position[k].cost + 0
      BY <1>3, <2>1 DEF Position
    <2> QED BY <1>2, <1>5, <2>1, <2>2, <2>3, <2>5, <2>6, <2>7 DEF Moved
  <1> QED BY <1>2, <1>5, <1>6, <1>7, <1>8 DEF SameStatus

LEMMA AdjustMoves ==
    ASSUME NEW x \in Books, NEW i \in DOMAIN x.orders, NEW s \in Int, NEW e \in Int, NEW c,
           NEW k, k = Key(x.orders[i]),
           CostStays(x, k, s, e, c),
           NEW y, y = Adjust(x, k, s, e, c)
    PROVE  /\ Touched(x, y, i) /\ SameStatus(x, y, i)
           /\ y.ok => /\ Moved(x, y, i, 0, 0, 0, 0, 0, s, e, c)
                      /\ NotOversold(y, k)
  <1>1. /\ k \in Keys /\ x.orders[i] \in OrderRow
        /\ x.position \in [Keys -> Position] /\ x.wallet \in [Users -> Balance]
    BY OrderIsTyped
  <1>2. Adjusted(x, k, s, e, c, y) BY <1>1, AdjustIs
  <1>3. Touched(x, y, i) /\ SameStatus(x, y, i) BY <1>2 DEF Adjusted, Touched, SameTerms, SameStatus
  <1>4. ASSUME y.ok
        PROVE  /\ Moved(x, y, i, 0, 0, 0, 0, 0, s, e, c)
               /\ NotOversold(y, k)
    <2> DEFINE p == x.position[k]
               v == [quantity |-> p.quantity + s, reserved |-> p.reserved + e, cost |-> p.cost + c]
    <2>1. /\ x.ok /\ y.wallet = x.wallet /\ y.orders = x.orders
          /\ y.position = [x.position EXCEPT ![k] = v]
          /\ p.reserved + e <= p.quantity + s
      BY <1>2, <1>4 DEF Adjusted
    <2>2. /\ v.quantity = p.quantity + s /\ v.reserved = p.reserved + e /\ v.cost = p.cost + c
      OBVIOUS
    <2> HIDE DEF v, p
    <2>3. y.position[k] = v /\ y.position = [x.position EXCEPT ![k] = y.position[k]] BY <1>1, <2>1
    <2>4. PICK o, u : o = x.orders[i] /\ u = o.user OBVIOUS
    <2>5. u \in Users /\ o \in OrderRow BY <1>1, <2>4 DEF OrderRow
    <2>6. y.wallet = [x.wallet EXCEPT ![u] = y.wallet[u]] BY <1>1, <2>1, <2>5
    <2>7. OnlyOrder(x, y, i) BY <1>3, <2>3, <2>4, <2>6 DEF OnlyOrder
    <2>8. o.filled = o.filled + 0 /\ o.value = o.value + 0 /\ o.held = o.held + 0
      BY <2>5 DEF OrderRow
    <2>9. /\ y.wallet[u].available = x.wallet[u].available + 0
          /\ y.wallet[u].reserved = x.wallet[u].reserved + 0
      BY <1>1, <2>1, <2>5 DEF Balance
    <2>10. Moved(x, y, i, 0, 0, 0, 0, 0, s, e, c)
      BY <2>1, <2>2, <2>3, <2>4, <2>7, <2>8, <2>9 DEF Moved, p
    <2> QED BY <2>1, <2>2, <2>3, <2>10 DEF NotOversold
  <1> QED BY <1>3, <1>4

LEMMA FillMoves ==
    ASSUME NEW x \in Books, NEW i \in DOMAIN x.orders, NEW o, o = x.orders[i],
           NEW q \in Nat, q <= Remaining(o), NEW p \in Nat, NEW y, y = FillOrder(x, i, q, p)
    PROVE  /\ Touched(x, y, i)
           /\ y.orders[i].status = IF Remaining(o) = q THEN "FILLED" ELSE "PARTIALLY_FILLED"
           /\ x.ok => y.ok /\ Moved(x, y, i, q, q * p, 0, 0, 0, 0, 0, 0)
  <1>1. OrderFilled(x, i, q, p, y) BY FillOrderIs
  <1>2. PICK n, u, k : n = y.orders[i] /\ u = o.user /\ k = Key(o) OBVIOUS
  <1>3. /\ o \in OrderRow /\ u \in Users /\ k \in Keys
        /\ x.position \in [Keys -> Position] /\ x.wallet \in [Users -> Balance]
    BY <1>2, OrderIsTyped
  <1>4. n = AfterFill(o, q, p) BY <1>1, <1>2 DEF OrderFilled
  <1>5. /\ SameTerms(n, o) /\ n.held = o.held /\ n.filled = o.filled + q
        /\ n.value = o.value + q * p
        /\ n.status = IF Remaining(o) = q THEN "FILLED" ELSE "PARTIALLY_FILLED"
    BY <1>3, <1>4 DEF AfterFill, OrderRow, SameTerms
  <1>6. /\ y \in Books /\ DOMAIN y.orders = DOMAIN x.orders
        /\ \A j \in DOMAIN x.orders \ {i} : y.orders[j] = x.orders[j]
        /\ y.ok = x.ok /\ y.position = x.position /\ y.wallet = x.wallet
        /\ y.locked = x.locked
    BY <1>1 DEF OrderFilled
  <1>7. Touched(x, y, i) BY <1>2, <1>5, <1>6 DEF Touched
  <1>8. /\ y.wallet = [x.wallet EXCEPT ![u] = y.wallet[u]]
        /\ y.position = [x.position EXCEPT ![k] = y.position[k]]
    BY <1>3, <1>6
  <1>9. OnlyOrder(x, y, i) BY <1>2, <1>7, <1>8 DEF OnlyOrder
  <1>10. /\ n.held = o.held + 0
         /\ y.wallet[u].available = x.wallet[u].available + 0
         /\ y.wallet[u].reserved = x.wallet[u].reserved + 0
         /\ y.position[k].quantity = x.position[k].quantity + 0
         /\ y.position[k].reserved = x.position[k].reserved + 0
         /\ y.position[k].cost = x.position[k].cost + 0
    BY <1>3, <1>5, <1>6 DEF OrderRow, Balance, Position
  <1>11. x.ok => Moved(x, y, i, q, q * p, 0, 0, 0, 0, 0, 0) BY <1>2, <1>5, <1>9, <1>10 DEF Moved
  <1> QED BY <1>2, <1>5, <1>6, <1>7, <1>11

-----------------------------------------------------------------------------
(* What follows for the money, the shares and what backs the orders.       *)
Balanced(x, y, o, a, s) ==
    /\ Money(y.wallet) = Money(x.wallet) + a
    /\ Shares(y.position, o) = Shares(x.position, o) + s
    /\ \A e \in Outcomes \ {o} : Shares(y.position, e) = Shares(x.position, e)

LEMMA MovedSums ==
    ASSUME NEW x, NEW y, NEW i, NEW o, o = x.orders[i],
           NEW f, NEW v, NEW h, NEW a \in Int, NEW r \in Int, NEW s \in Int, NEW e, NEW c,
           Moved(x, y, i, f, v, h, a, r, s, e, c)
    PROVE  Balanced(x, y, o.outcome, a + r, s)
  <1>1. OnlyOrder(x, y, i) /\ Touched(x, y, i) BY DEF Moved, OnlyOrder
  <1>2. PICK u, k : u = o.user /\ k = Key(o) OBVIOUS
  <1>3. /\ x.wallet[u].available \in Int /\ x.wallet[u].reserved \in Int
        /\ x.position[k].quantity \in Int
    BY <1>1, <1>2, PartsAreTyped
  <1>4. /\ y.wallet[u].available = x.wallet[u].available + a
        /\ y.wallet[u].reserved = x.wallet[u].reserved + r
        /\ y.position[k].quantity = x.position[k].quantity + s
    BY <1>2 DEF Moved
  <1>5. /\ (y.wallet[u].available + y.wallet[u].reserved)
              - (x.wallet[u].available + x.wallet[u].reserved) = a + r
        /\ y.position[k].quantity - x.position[k].quantity = s
    BY <1>3, <1>4
  <1>6. /\ Money(y.wallet) = Money(x.wallet)
             + ((y.wallet[u].available + y.wallet[u].reserved)
                 - (x.wallet[u].available + x.wallet[u].reserved))
        /\ Shares(y.position, o.outcome) = Shares(x.position, o.outcome)
             + (y.position[k].quantity - x.position[k].quantity)
        /\ \A d \in Outcomes \ {o.outcome} : Shares(y.position, d) = Shares(x.position, d)
    BY <1>1, <1>2, OneOrderMoves
  <1> QED BY <1>5, <1>6 DEF Balanced

LEMMA MovedFunds ==
    ASSUME NEW x, NEW y, NEW i, NEW n, n = y.orders[i],
           NEW f, NEW v, NEW h \in Int, NEW a, NEW r, NEW s, NEW e, NEW c,
           Moved(x, y, i, f, v, h, a, r, s, e, c), r = h,
           FundsBacked(x), HeldAsNeeded(n), WithinLimit(n)
    PROVE  FundsBacked(y)
  <1>1. OnlyOrder(x, y, i) /\ Touched(x, y, i) BY DEF Moved, OnlyOrder
  <1>2. PICK o, u : o = x.orders[i] /\ u = o.user OBVIOUS
  <1>3. o.held \in Int /\ x.wallet[u].reserved \in Int BY <1>1, <1>2, PartsAreTyped
  <1>4. n.held = o.held + h /\ y.wallet[u].reserved = x.wallet[u].reserved + h BY <1>2 DEF Moved
  <1>5. y.wallet[u].reserved - x.wallet[u].reserved = n.held - o.held BY <1>3, <1>4
  <1> QED BY <1>1, <1>2, <1>5, OneOrderKeepsFunds

LEMMA MovedOffers ==
    ASSUME NEW x, NEW y, NEW i, NEW o, o = x.orders[i], NEW n, n = y.orders[i],
           NEW f, NEW v, NEW h, NEW a, NEW r, NEW s, NEW e \in Int, NEW c,
           NEW k, k = Key(o),
           Moved(x, y, i, f, v, h, a, r, s, e, c), OffersBacked(x),
           NotOversold(y, k),
           Offered(n, k) - Offered(o, k) = e
    PROVE  OffersBacked(y)
  <1>1. OnlyOrder(x, y, i) /\ Touched(x, y, i) BY DEF Moved, OnlyOrder
  <1>2. x.position[k].reserved \in Int BY <1>1, PartsAreTyped
  <1>3. y.position[k].reserved = x.position[k].reserved + e BY DEF Moved
  <1>4. y.position[k].reserved - x.position[k].reserved = Offered(n, k) - Offered(o, k)
    BY <1>2, <1>3
  <1>5. PICK p, t : p = x.position[k] /\ t = y.position[k] OBVIOUS
  <1> QED BY <1>1, <1>4, <1>5, OneOrderKeepsOffers DEF NotOversold

(* What an operation on order i leaves of a sound book.                    *)
Keeps(x, y, i) ==
    /\ Touched(x, y, i)
    /\ y.ok => /\ OffersBacked(x) => OffersBacked(y)
               /\ FundsBacked(x) => FundsBacked(y)

LEMMA ProductsAreTyped ==
    /\ \A q \in Int, p \in Int : q * p \in Int
    /\ \A q \in Nat, p \in Nat : q * p \in Nat
  OBVIOUS

LEMMA CostsAdd ==
    ASSUME NEW F \in Int, NEW q \in Nat, NEW P \in Int, NEW p \in Int
    PROVE  /\ (F + q) * P = F * P + q * P
           /\ (F - q) * P = F * P - q * P
           /\ q * (P - p) = q * P - q * p
           /\ p <= P => q * p <= q * P
           /\ p >= P => q * p >= q * P
  <1>1. (F + q) * P = F * P + q * P /\ (F - q) * P = F * P - q * P OBVIOUS
  <1>2. q * (P - p) = q * P - q * p OBVIOUS
  <1>3. ASSUME p <= P PROVE q * p <= q * P
    <2>1. PICK d \in Nat : P = p + d BY <1>3
    <2>2. q * P = q * p + q * d /\ q * d \in Nat BY <2>1
    <2>3. q * p \in Int OBVIOUS
    <2> QED BY <2>2, <2>3
  <1>4. ASSUME p >= P PROVE q * p >= q * P
    <2>1. PICK d \in Nat : p = P + d BY <1>4
    <2>2. q * p = q * P + q * d /\ q * d \in Nat BY <2>1
    <2>3. q * P \in Int OBVIOUS
    <2> QED BY <2>2, <2>3
  <1> QED BY <1>1, <1>2, <1>3, <1>4

(* The buyer pays q * p, of what was reserved at his limit.                *)
LEMMA BuySideMoves ==
    ASSUME NEW x \in Books, NEW i \in DOMAIN x.orders, NEW o, o = x.orders[i],
           NEW q \in Nat, q <= Remaining(o), NEW p \in Nat, NEW y, y = BuySide(x, i, q, p),
           NEW t \in Int, t = q * p, NEW b \in Int, b = q * (o.price - p),
           NEW m \in Int, m = - t - b
    PROVE  /\ Touched(x, y, i)
           /\ y.orders[i].status = IF Remaining(o) = q THEN "FILLED" ELSE "PARTIALLY_FILLED"
           /\ y.ok => Moved(x, y, i, q, t, m, b, m, q, 0, t)
  <1> DEFINE st == IF Remaining(o) = q THEN "FILLED" ELSE "PARTIALLY_FILLED"
  <1>1. PICK k, f, a, c, u, d : /\ k = Key(o) /\ u \in Int /\ u = - t /\ d \in Int /\ d = - b
                                /\ f = FillOrder(x, i, q, p) /\ a = Adjust(f, k, q, 0, t)
                                /\ c = Post(a, i, 0, u)
    OBVIOUS
  <1>2. y = Post(c, i, b, d) BY <1>1 DEF BuySide, Release, ConsumeReserved
  <1>3. Touched(x, f, i) /\ f.orders[i].status = st
        /\ (x.ok => Moved(x, f, i, q, t, 0, 0, 0, 0, 0, 0))
    BY <1>1, FillMoves
  <1>4. f \in Books /\ i \in DOMAIN f.orders /\ k = Key(f.orders[i])
    <2>1. Key(f.orders[i]) = Key(x.orders[i]) BY <1>3, SameOwner
    <2> QED BY <1>1, <1>3, <2>1 DEF Touched
  <1>5. Touched(f, a, i) /\ a.orders[i].status = st
        /\ (a.ok => Moved(f, a, i, 0, 0, 0, 0, 0, q, 0, t))
    <2>1. f.position[k].cost \in Nat BY <1>4, OrderIsTyped DEF Position
    <2>2. t \in Nat BY ProductsAreTyped
    <2>3. f.position[k].cost + t >= 0 BY <2>1, <2>2
    <2>4. PICK z \in Int : z = 0 OBVIOUS
    <2>5. /\ a = Adjust(f, k, q, z, t) /\ q \in Int /\ z \in Int
          /\ CostStays(f, k, q, z, t)
      BY <1>1, <2>3, <2>4 DEF CostStays
    <2>6. Touched(f, a, i) /\ SameStatus(f, a, i) BY <1>4, <2>5, AdjustMoves
    <2>7. a.ok => Moved(f, a, i, 0, 0, 0, 0, 0, q, z, t) BY <1>4, <2>5, AdjustMoves
    <2> QED BY <1>3, <2>4, <2>6, <2>7 DEF SameStatus
  <1>6. Touched(a, c, i) /\ c.orders[i].status = st
        /\ (c.ok => Moved(a, c, i, 0, 0, u, 0, u, 0, 0, 0))
    BY <1>1, <1>5, PostMoves DEF Touched, SameStatus
  <1>7. Touched(c, y, i) /\ y.orders[i].status = st
        /\ (y.ok => Moved(c, y, i, 0, 0, d, b, d, 0, 0, 0))
    <2>1. c \in Books /\ i \in DOMAIN c.orders BY <1>6 DEF Touched
    <2> QED BY <1>1, <1>2, <1>6, <2>1, PostMoves DEF SameStatus
  <1>8. Touched(x, y, i) BY <1>3, <1>5, <1>6, <1>7, TouchedTwice
  <1>9. ASSUME y.ok PROVE Moved(x, y, i, q, t, m, b, m, q, 0, t)
    <2>1. c.ok /\ a.ok /\ f.ok /\ x.ok BY <1>3, <1>5, <1>6, <1>7, <1>9 DEF Touched
    <2>2. PICK z \in Int : z = 0 OBVIOUS
    <2>3. /\ Moved(x, f, i, q, t, z, z, z, z, z, z)
          /\ Moved(f, a, i, z, z, z, z, z, q, z, t)
          /\ Moved(a, c, i, z, z, u, z, u, z, z, z)
          /\ Moved(c, y, i, z, z, d, b, d, z, z, z)
      BY <1>3, <1>5, <1>6, <1>7, <1>9, <2>1, <2>2
    <2>4. Moved(x, a, i, q + z, t + z, z + z, z + z, z + z, z + q, z + z, z + t)
      <3>1. q \in Int /\ t \in Int /\ z \in Int BY <2>2
      <3>2. Moved(x, f, i, q, t, z, z, z, z, z, z) /\ Moved(f, a, i, z, z, z, z, z, q, z, t) BY <2>3
      <3> QED BY <1>1, <2>2, <2>3, <3>1, MovedTwice, SMTT(30)
    <2>5. q + z = q /\ t + z = t /\ z + z = z /\ z + q = q /\ z + t = t /\ q \in Int BY <2>2
    <2>6. Moved(x, a, i, q, t, z, z, z, q, z, t) BY <2>4, <2>5
    <2>7. Moved(x, c, i, q + z, t + z, z + u, z + z, z + u, q + z, z + z, t + z)
      BY <1>1, <2>2, <2>3, <2>5, <2>6, MovedTwice, SMTT(30)
    <2>8. z + u = u /\ z + b = b BY <1>1, <2>2
    <2>9. Moved(x, c, i, q, t, u, z, u, q, z, t) BY <2>5, <2>7, <2>8
    <2>10. Moved(x, y, i, q + z, t + z, u + d, z + b, u + d, q + z, z + z, t + z)
      BY <1>1, <2>2, <2>3, <2>5, <2>9, MovedTwice, SMTT(30)
    <2>11. u + d = m BY <1>1
    <2>12. Moved(x, y, i, q, t, m, b, m, q, z, t) BY <2>5, <2>8, <2>10, <2>11
    <2> QED BY <2>2, <2>12
  <1> QED BY <1>7, <1>8, <1>9

LEMMA BuySideKeeps ==
    ASSUME NEW x \in Books, NEW i \in DOMAIN x.orders, NEW o, o = x.orders[i],
           o.side = "BUY", Fillable(o), NEW q \in Nat, q <= Remaining(o),
           NEW p \in Nat, p <= o.price, NEW y, y = BuySide(x, i, q, p)
    PROVE  /\ Keeps(x, y, i)
           /\ y.ok => Balanced(x, y, o.outcome, - (q * p), q)
  <1>1. /\ o \in OrderRow /\ o.filled <= o.quantity /\ Remaining(o) \in Nat
        /\ o.price \in Nat /\ o.filled \in Nat /\ o.quantity \in Nat /\ o.value \in Nat
    BY OrderIsTyped, TradingAssumption DEF OrderRow
  <1>2. PICK t \in Int, b \in Int, m \in Int : t = q * p /\ b = q * (o.price - p) /\ m = - t - b
    BY <1>1, ProductsAreTyped
  <1>3. /\ Touched(x, y, i)
        /\ y.orders[i].status = IF Remaining(o) = q THEN "FILLED" ELSE "PARTIALLY_FILLED"
        /\ y.ok => Moved(x, y, i, q, t, m, b, m, q, 0, t)
    BY <1>2, BuySideMoves
  <1> SUFFICES ASSUME y.ok
               PROVE  /\ OffersBacked(x) => OffersBacked(y)
                      /\ FundsBacked(x) => FundsBacked(y)
                      /\ Balanced(x, y, o.outcome, - (q * p), q)
    BY <1>3 DEF Keeps
  <1>4. Moved(x, y, i, q, t, m, b, m, q, 0, t) BY <1>3
  <1>5. PICK n, k : n = y.orders[i] /\ k = Key(o) OBVIOUS
  <1>6. /\ n.side = "BUY" /\ n.price = o.price /\ n.quantity = o.quantity
        /\ n.filled = o.filled + q /\ n.value = o.value + t /\ n.held = o.held + m
    BY <1>3, <1>4, <1>5 DEF Moved, Touched, SameTerms
  <1>7. Balanced(x, y, o.outcome, - (q * p), q)
    <2>1. Balanced(x, y, o.outcome, b + m, q) BY <1>2, <1>4, MovedSums
    <2>2. b + m = - t BY <1>2
    <2> QED BY <1>2, <2>1, <2>2
  <1>8. ASSUME OffersBacked(x) PROVE OffersBacked(y)
    <2>1. Offered(n, k) = 0 /\ Offered(o, k) = 0 BY <1>6 DEF Offered
    <2>2. /\ y.position[k].quantity = x.position[k].quantity + q
          /\ y.position[k].reserved = x.position[k].reserved + 0
      BY <1>4, <1>5 DEF Moved
    <2>3. /\ x.position[k].reserved <= x.position[k].quantity
      <3>1. k \in Keys BY <1>5, OrderIsTyped
      <3> QED BY <1>8, <3>1 DEF OffersBacked
    <2>4. x.position[k].reserved \in Int /\ x.position[k].quantity \in Int
      BY <1>3, <1>5, PartsAreTyped
    <2>5. NotOversold(y, k) BY <2>2, <2>3, <2>4 DEF NotOversold
    <2>6. Offered(n, k) - Offered(o, k) = 0 /\ 0 \in Int BY <2>1
    <2>7. PICK z \in Int : z = 0 OBVIOUS
    <2>8. Moved(x, y, i, q, t, m, b, m, q, z, t) /\ Offered(n, k) - Offered(o, k) = z
      BY <1>4, <2>6, <2>7
    <2> QED BY <1>5, <1>8, <2>5, <2>7, <2>8, MovedOffers
  <1>9. ASSUME FundsBacked(x) PROVE FundsBacked(y)
    <2>1. HeldAsNeeded(o) /\ WithinLimit(o) BY <1>9 DEF FundsBacked
    <2>2. /\ o.held = Remaining(o) * o.price /\ o.value <= o.filled * o.price
      BY <2>1 DEF HeldAsNeeded, WithinLimit
    <2>3. /\ (o.filled + q) * o.price = o.filled * o.price + q * o.price
          /\ (Remaining(o) - q) * o.price = Remaining(o) * o.price - q * o.price
          /\ q * (o.price - p) = q * o.price - q * p
          /\ q * p <= q * o.price
      BY <1>1, CostsAdd
    <2>4. PICK A \in Int, B \in Int, C \in Int :
              A = o.filled * o.price /\ B = q * o.price /\ C = Remaining(o) * o.price
      <3>1. o.filled \in Int /\ o.price \in Int /\ q \in Int /\ Remaining(o) \in Int BY <1>1
      <3>2. o.filled * o.price \in Int /\ q * o.price \in Int /\ Remaining(o) * o.price \in Int
        BY <3>1, ProductsAreTyped
      <3> QED BY <3>2
    <2>5. b = B - t /\ t <= B /\ o.held = C BY <1>2, <2>2, <2>3, <2>4
    <2>6. n.held = (Remaining(o) - q) * o.price
      <3>1. n.held = C + m BY <1>6, <2>5
      <3>2. C + m = C - B BY <1>2, <2>4, <2>5
      <3> QED BY <2>3, <2>4, <3>1, <3>2
    <2>7. Remaining(n) = Remaining(o) - q BY <1>1, <1>6 DEF Remaining
    <2>8. HeldAsNeeded(n)
      <3>1. CASE Remaining(o) = q
        <4>1. ~ Fillable(n) BY <1>3, <1>5, <3>1 DEF Fillable, FILLABLE_STATUSES
        <4>2. n.held = 0 BY <1>1, <2>6, <3>1
        <4> QED BY <4>1, <4>2 DEF HeldAsNeeded
      <3>2. CASE Remaining(o) # q
        <4>1. Fillable(n) BY <1>3, <1>5, <3>2 DEF Fillable, FILLABLE_STATUSES
        <4> QED BY <1>6, <2>6, <2>7, <4>1 DEF HeldAsNeeded
      <3> QED BY <3>1, <3>2
    <2>9. WithinLimit(n)
      <3>1. n.value = o.value + t /\ n.filled * n.price = A + B BY <1>6, <2>3, <2>4
      <3>2. o.value + t <= A + B BY <1>1, <2>2, <2>4, <2>5
      <3> QED BY <1>6, <3>1, <3>2 DEF WithinLimit
    <2> QED BY <1>4, <1>5, <1>9, <2>8, <2>9, MovedFunds
  <1> QED BY <1>7, <1>8, <1>9

(* The cost of a part of a position is no more than that of the whole.     *)
LEMMA QuotientIs ==
    ASSUME NEW n \in Int, NEW d \in Nat \ {0}
    PROVE  n \div d \in Int /\ d * (n \div d) <= n /\ n < d * (n \div d) + d
  OBVIOUS

LEMMA CostShare ==
    ASSUME NEW c \in Nat, NEW q \in Nat, NEW Q \in Nat, q < Q
    PROVE  (2 * (c * q) + Q) \div (2 * Q) \in Nat /\ (2 * (c * q) + Q) \div (2 * Q) <= c
  <1>1. PICK t \in Nat, d \in Nat \ {0} : t = c * q /\ d = 2 * Q OBVIOUS
  <1>2. PICK v \in Int : v = (2 * t + Q) \div d /\ d * v <= 2 * t + Q /\ 2 * t + Q < d * v + d
    BY QuotientIs
  <1>3. v >= 0
    <2> SUFFICES ASSUME v < 0 PROVE FALSE OBVIOUS
    <2>1. PICK e \in Nat : v = - 1 - e OBVIOUS
    <2>2. d * v + d = - (d * e) /\ d * e \in Nat BY <2>1
    <2> QED BY <1>2, <2>2
  <1>4. v <= c
    <2> SUFFICES ASSUME v > c PROVE FALSE OBVIOUS
    <2>1. PICK e \in Nat : v = c + 1 + e OBVIOUS
    <2>2. PICK r \in Nat : Q = q + 1 + r OBVIOUS
    <2>3. d * v = 2 * (Q * c) + 2 * Q + 2 * (Q * e) BY <1>1, <2>1
    <2>4. Q * c = c * q + c + r * c BY <2>2
    <2>5. Q * c \in Nat /\ Q * e \in Nat /\ r * c \in Nat OBVIOUS
    <2>6. PICK A \in Nat, B \in Nat, C \in Nat : A = Q * c /\ B = Q * e /\ C = r * c BY <2>5
    <2>7. d * v = 2 * A + 2 * Q + 2 * B /\ A = t + c + C BY <1>1, <2>3, <2>4, <2>6
    <2>8. 2 * A + 2 * Q + 2 * B <= 2 * t + Q BY <1>2, <2>7
    <2> QED BY <2>6, <2>7, <2>8
  <1> QED BY <1>1, <1>2, <1>3, <1>4

(* The seller receives q * p; q shares of his position go, which he had    *)
(* offered.                                                                *)
LEMMA SellSideMoves ==
    ASSUME NEW x \in Books, NEW i \in DOMAIN x.orders, NEW o, o = x.orders[i],
           NEW q \in Nat, q <= Remaining(o), NEW p \in Nat, NEW y, y = SellSide(x, i, q, p),
           NEW t \in Int, t = q * p, NEW j \in Int, j = - q
    PROVE  /\ Touched(x, y, i)
           /\ y.orders[i].status = IF Remaining(o) = q THEN "FILLED" ELSE "PARTIALLY_FILLED"
           /\ y.ok => \E e \in Int : /\ Moved(x, y, i, q, t, 0, t, 0, j, j, e)
                                     /\ NotOversold(y, Key(o))
  <1> DEFINE st == IF Remaining(o) = q THEN "FILLED" ELSE "PARTIALLY_FILLED"
  <1>1. PICK k, g, c, e, f, a : /\ k = Key(o) /\ g = x.position[k] /\ e = - c
                                /\ c = IF g.quantity = q THEN g.cost
                                       ELSE HalfUp(g.cost * q, g.quantity)
                                /\ f = FillOrder(x, i, q, p) /\ a = Adjust(f, k, j, j, e)
    OBVIOUS
  <1>2. y = Post(a, i, t, 0) BY <1>1 DEF SellSide, Credit
  <1>3. Touched(x, f, i) /\ f.orders[i].status = st
        /\ (x.ok => Moved(x, f, i, q, t, 0, 0, 0, 0, 0, 0))
    BY <1>1, FillMoves
  <1>4. f \in Books /\ i \in DOMAIN f.orders /\ k = Key(f.orders[i])
    <2>1. Key(f.orders[i]) = Key(x.orders[i]) BY <1>3, SameOwner
    <2> QED BY <1>1, <1>3, <2>1 DEF Touched
  <1>5. g \in Position /\ f.position[k] = g BY <1>1, OrderIsTyped, FillOrderIs DEF OrderFilled
  <1>6. ASSUME g.reserved + j \in 0..g.quantity + j PROVE c \in Nat /\ c <= g.cost
    <2>1. g.cost \in Nat /\ g.quantity \in Nat /\ g.reserved \in Nat BY <1>5 DEF Position
    <2>2. CASE g.quantity = q BY <1>1, <2>1, <2>2
    <2>3. CASE g.quantity # q
      <3>1. q < g.quantity BY <1>6, <2>1, <2>3
      <3>2. c = (2 * (g.cost * q) + g.quantity) \div (2 * g.quantity) BY <1>1, <2>3 DEF HalfUp
      <3> QED BY <2>1, <3>1, <3>2, CostShare, SMTT(30)
    <2> QED BY <2>2, <2>3
  <1>7. CostStays(f, k, j, j, e)
    <2> SUFFICES ASSUME g.reserved + j \in 0..g.quantity + j PROVE e \in Int /\ g.cost + e >= 0
      BY <1>5 DEF CostStays
    <2>1. g.cost \in Nat /\ c \in Nat /\ c <= g.cost BY <1>5, <1>6 DEF Position
    <2>2. e = - c BY <1>1
    <2> QED BY <2>1, <2>2
  <1>8. Touched(f, a, i) /\ a.orders[i].status = st
        /\ (a.ok => /\ Moved(f, a, i, 0, 0, 0, 0, 0, j, j, e)
                    /\ NotOversold(a, k))
    <2>1. Touched(f, a, i) /\ SameStatus(f, a, i) BY <1>1, <1>4, <1>7, AdjustMoves
    <2>2. a.ok => Moved(f, a, i, 0, 0, 0, 0, 0, j, j, e) BY <1>1, <1>4, <1>7, AdjustMoves
    <2>3. a.ok => NotOversold(a, k) BY <1>1, <1>4, <1>7, AdjustMoves
    <2> QED BY <1>3, <2>1, <2>2, <2>3 DEF SameStatus
  <1>9. Touched(a, y, i) /\ y.orders[i].status = st
        /\ (y.ok => Moved(a, y, i, 0, 0, 0, t, 0, 0, 0, 0))
    BY <1>2, <1>8, PostMoves DEF Touched, SameStatus
  <1>10. Touched(x, y, i) BY <1>3, <1>8, <1>9, TouchedTwice
  <1>11. ASSUME y.ok
         PROVE  /\ e \in Int /\ Moved(x, y, i, q, t, 0, t, 0, j, j, e)
                /\ NotOversold(y, k)
    <2>1. a.ok /\ f.ok /\ x.ok BY <1>3, <1>8, <1>9, <1>11 DEF Touched
    <2>2. PICK z \in Int : z = 0 OBVIOUS
    <2>3. /\ Moved(x, f, i, q, t, z, z, z, z, z, z)
          /\ Moved(f, a, i, z, z, z, z, z, j, j, e)
          /\ Moved(a, y, i, z, z, z, t, z, z, z, z)
      BY <1>3, <1>8, <1>9, <1>11, <2>1, <2>2
    <2>4. e \in Int
      <3>1. k = Key(f.orders[i]) /\ g.reserved \in Int /\ g.quantity \in Int
        BY <1>4, <1>5 DEF Position
      <3>2. /\ a.position[k].reserved = g.reserved + j
            /\ a.position[k].quantity = g.quantity + j
        BY <1>5, <2>3, <3>1 DEF Moved
      <3>3. a.position[k] \in Position BY <1>1, <1>8, OrderIsTyped DEF Touched, Books
      <3>4. g.reserved + j \in 0..g.quantity + j
        BY <1>8, <2>1, <3>1, <3>2, <3>3 DEF Position, NotOversold
      <3>5. c \in Nat BY <1>6, <3>4
      <3> QED BY <1>1, <3>5
    <2>5. Moved(x, a, i, q + z, t + z, z + z, z + z, z + z, z + j, z + j, z + e)
      <3>1. q \in Int OBVIOUS
      <3> QED BY <2>2, <2>3, <2>4, <3>1, MovedTwice, SMTT(30)
    <2>6. q + z = q /\ t + z = t /\ z + z = z /\ z + j = j /\ z + e = e /\ q \in Int
          /\ j + z = j /\ e + z = e /\ z + t = t
      BY <2>2, <2>4
    <2>7. Moved(x, a, i, q, t, z, z, z, j, j, e) BY <2>5, <2>6
    <2>8. Moved(x, y, i, q + z, t + z, z + z, z + t, z + z, j + z, j + z, e + z)
      BY <2>2, <2>3, <2>4, <2>6, <2>7, MovedTwice, SMTT(30)
    <2>9. Moved(x, y, i, q, t, z, t, z, j, j, e) BY <2>6, <2>8
    <2>10. y.position[k] = a.position[k]
      <3>1. Posted(a, i, t, 0, y) BY <1>2, <1>8, PostIs DEF Touched
      <3> QED BY <1>11, <3>1 DEF Posted
    <2> QED BY <1>8, <2>1, <2>2, <2>4, <2>9, <2>10 DEF NotOversold
  <1> QED BY <1>1, <1>9, <1>10, <1>11

LEMMA SellSideKeeps ==
    ASSUME NEW x \in Books, NEW i \in DOMAIN x.orders, NEW o, o = x.orders[i],
           o.side = "SELL", Fillable(o), NEW q \in Nat, q <= Remaining(o),
           NEW p \in Nat, p >= o.price, NEW y, y = SellSide(x, i, q, p)
    PROVE  /\ Keeps(x, y, i)
           /\ y.ok => Balanced(x, y, o.outcome, q * p, - q)
  <1>1. /\ o \in OrderRow /\ o.filled <= o.quantity /\ Remaining(o) \in Nat
        /\ o.price \in Nat /\ o.filled \in Nat /\ o.quantity \in Nat /\ o.value \in Nat
    BY OrderIsTyped, TradingAssumption DEF OrderRow
  <1>2. PICK t \in Int, j \in Int : t = q * p /\ j = - q BY ProductsAreTyped
  <1>3. /\ Touched(x, y, i)
        /\ y.orders[i].status = IF Remaining(o) = q THEN "FILLED" ELSE "PARTIALLY_FILLED"
        /\ y.ok => \E e \in Int : /\ Moved(x, y, i, q, t, 0, t, 0, j, j, e)
                                  /\ NotOversold(y, Key(o))
    BY <1>2, SellSideMoves
  <1> SUFFICES ASSUME y.ok
               PROVE  /\ OffersBacked(x) => OffersBacked(y)
                      /\ FundsBacked(x) => FundsBacked(y)
                      /\ Balanced(x, y, o.outcome, q * p, - q)
    BY <1>3 DEF Keeps
  <1>4. PICK n, k, z : n = y.orders[i] /\ k = Key(o) /\ z \in Int /\ z = 0 OBVIOUS
  <1>4e. PICK e \in Int : Moved(x, y, i, q, t, z, t, z, j, j, e) /\ NotOversold(y, k) BY <1>3, <1>4
  <1>5. /\ n.side = "SELL" /\ n.price = o.price /\ n.quantity = o.quantity
        /\ n.user = o.user /\ n.outcome = o.outcome /\ Key(n) = k
        /\ n.filled = o.filled + q /\ n.value = o.value + t /\ n.held = o.held + z
    BY <1>3, <1>4, <1>4e DEF Moved, Touched, SameTerms, Key
  <1>6. Remaining(n) = Remaining(o) - q BY <1>1, <1>5 DEF Remaining
  <1>7. Balanced(x, y, o.outcome, q * p, - q)
    <2>1. Balanced(x, y, o.outcome, t + z, j) BY <1>2, <1>4, <1>4e, MovedSums
    <2>2. t + z = t BY <1>2, <1>4
    <2> QED BY <1>2, <2>1, <2>2
  <1>8. ASSUME OffersBacked(x) PROVE OffersBacked(y)
    <2>1. Offered(o, k) = Remaining(o) BY <1>4 DEF Offered
    <2>2. Offered(n, k) = Remaining(o) - q
      <3>1. CASE Remaining(o) = q
        <4>1. ~ Fillable(n) BY <1>3, <1>4, <3>1 DEF Fillable, FILLABLE_STATUSES
        <4>2. Offered(n, k) = 0 BY <4>1 DEF Offered
        <4> QED BY <1>1, <3>1, <4>2
      <3>2. CASE Remaining(o) # q
        <4>1. Fillable(n) BY <1>3, <1>4, <3>2 DEF Fillable, FILLABLE_STATUSES
        <4> QED BY <1>5, <1>6, <4>1 DEF Offered
      <3> QED BY <3>1, <3>2
    <2>3. Offered(n, k) - Offered(o, k) = j BY <1>1, <1>2, <2>1, <2>2
    <2> QED BY <1>2, <1>4, <1>4e, <1>8, <2>3, MovedOffers
  <1>9. ASSUME FundsBacked(x) PROVE FundsBacked(y)
    <2>1. HeldAsNeeded(o) /\ WithinLimit(o) BY <1>9 DEF FundsBacked
    <2>2. o.held = 0 /\ o.value >= o.filled * o.price BY <2>1 DEF HeldAsNeeded, WithinLimit
    <2>3. HeldAsNeeded(n) BY <1>4, <1>5, <2>2 DEF HeldAsNeeded
    <2>4. /\ (o.filled + q) * o.price = o.filled * o.price + q * o.price
          /\ q * p >= q * o.price
      BY <1>1, CostsAdd
    <2>5. PICK A \in Int, B \in Int : A = o.filled * o.price /\ B = q * o.price
      BY <1>1, ProductsAreTyped
    <2>6. n.value = o.value + t /\ n.filled * n.price = A + B BY <1>5, <2>4, <2>5
    <2>7. o.value + t >= A + B BY <1>1, <1>2, <2>2, <2>4, <2>5
    <2>8. WithinLimit(n) BY <1>5, <2>6, <2>7 DEF WithinLimit
    <2> QED BY <1>4, <1>4e, <1>9, <2>3, <2>8, MovedFunds
  <1> QED BY <1>7, <1>8, <1>9

(* The end of an active order gives back what it holds.                    *)
LEMMA EndOrderKeeps ==
    ASSUME NEW x \in Books, NEW i \in DOMAIN x.orders, NEW o, o = x.orders[i], Fillable(o),
           NEW s \in OrderStatuses \ FILLABLE_STATUSES, NEW y, y = EndOrder(x, i, s)
    PROVE  /\ Keeps(x, y, i) /\ y.orders[i].status = s
           /\ y.ok => Balanced(x, y, o.outcome, 0, 0)
  <1>1. /\ o \in OrderRow /\ o.filled <= o.quantity /\ Remaining(o) \in Nat
        /\ o.price \in Nat /\ o.filled \in Nat /\ o.quantity \in Nat /\ o.value \in Nat
        /\ Key(o) \in Keys
    BY OrderIsTyped, TradingAssumption DEF OrderRow
  <1>2. PICK r, k : r = ReleaseRemainder(x, i) /\ k = Key(o) OBVIOUS
  <1>z. PICK z \in Int : z = 0 OBVIOUS
  <1>a. PICK a \in Int : a = IF o.side = "BUY" THEN Remaining(o) * o.price ELSE 0
    BY <1>1, ProductsAreTyped
  <1>h. PICK h \in Int : h = - a BY <1>a
  <1>e. PICK e \in Int : e = IF o.side = "BUY" THEN 0 ELSE - Remaining(o) BY <1>1
  <1>4. Touched(x, r, i) /\ SameStatus(x, r, i)
        /\ (r.ok => /\ Moved(x, r, i, z, z, h, a, h, z, e, z)
                    /\ NotOversold(r, k)
                       \/ r.position = x.position)
    <2>1. CASE o.side = "BUY"
      <3>1. r = Post(x, i, a, h)
        <4>1. Remaining(o) * o.price = a BY <1>a, <2>1
        <4> QED BY <1>2, <1>h, <2>1, <4>1 DEF ReleaseRemainder, Release
      <3>2. Touched(x, r, i) /\ SameStatus(x, r, i) /\ (r.ok => Moved(x, r, i, 0, 0, h, a, h, 0, 0, 0))
        BY <1>h, <1>a, <3>1, PostMoves
      <3>3. Posted(x, i, a, h, r) BY <1>h, <1>a, <3>1, PostIs
      <3>4. r.ok => r.position = x.position BY <3>3 DEF Posted
      <3>5. e = z BY <1>z, <1>e, <2>1
      <3> QED BY <1>z, <3>2, <3>4, <3>5
    <2>2. CASE o.side # "BUY"
      <3>1. r = Adjust(x, k, z, e, z) /\ h = z /\ a = z
        <4>1. e = - Remaining(o) /\ a = 0 BY <1>a, <1>e, <2>2
        <4>2. h = 0
          <5>1. h + a = 0 BY <1>h
          <5>2. a = 0 BY <4>1
          <5>3. h \in Int BY <1>h
          <5> QED BY <5>1, <5>2, <5>3
        <4> QED BY <1>2, <1>z, <2>2, <4>1, <4>2 DEF ReleaseRemainder
      <3>2. CostStays(x, k, z, e, z)
        <4>1. x.position[k].cost \in Nat BY <1>1, <1>2, OrderIsTyped DEF Position
        <4> QED BY <1>z, <4>1 DEF CostStays
      <3>3. /\ Touched(x, r, i) /\ SameStatus(x, r, i)
            /\ r.ok => /\ Moved(x, r, i, 0, 0, 0, 0, 0, z, e, z)
                       /\ NotOversold(r, k)
        <4>1. z \in Int /\ e \in Int BY <1>z, <1>e
        <4>2. k = Key(x.orders[i]) /\ r = Adjust(x, k, z, e, z) BY <1>2, <3>1
        <4> QED BY <3>2, <4>1, <4>2, AdjustMoves
      <3> QED BY <1>z, <3>1, <3>3
    <2> QED BY <2>1, <2>2
  <1>5. y = [r EXCEPT !.orders[i].status = s] /\ r \in Books /\ i \in DOMAIN r.orders
    BY <1>2, <1>4 DEF EndOrder, Touched
  <1>6. PICK l, n : l = r.orders[i] /\ n = [l EXCEPT !.status = s] OBVIOUS
  <1>7. /\ r.orders \in OrderList /\ l \in OrderRow /\ l.filled <= l.quantity
        /\ r.position \in [Keys -> Position] /\ r.wallet \in [Users -> Balance]
    BY <1>5, <1>6, OrderIsTyped
  <1>8. /\ n \in OrderRow /\ n.filled <= n.quantity /\ SameTerms(n, l) /\ n.status = s
        /\ n.filled = l.filled /\ n.value = l.value /\ n.held = l.held
    BY <1>6, <1>7 DEF OrderRow, SameTerms
  <1>9. y = [r EXCEPT !.orders = [r.orders EXCEPT ![i] = n]] BY <1>5, <1>6 DEF Books
  <1>10. /\ y.orders = [r.orders EXCEPT ![i] = n] /\ y.position = r.position
         /\ y.wallet = r.wallet /\ y.locked = r.locked /\ y.ok = r.ok
    BY <1>5, <1>9 DEF Books
  <1>11. /\ [r.orders EXCEPT ![i] = n] \in OrderList
         /\ DOMAIN [r.orders EXCEPT ![i] = n] = DOMAIN r.orders
         /\ [r.orders EXCEPT ![i] = n][i] = n
         /\ \A j \in DOMAIN r.orders \ {i} : [r.orders EXCEPT ![i] = n][j] = r.orders[j]
    BY <1>5, <1>7, <1>8, OneOrderReplaced
  <1>12. y \in Books BY <1>5, <1>9, <1>11 DEF Books
  <1>13. y.orders[i] = n BY <1>10, <1>11
  <1>14. Touched(r, y, i) BY <1>5, <1>6, <1>8, <1>10, <1>11, <1>12 DEF Touched
  <1>15. Touched(x, y, i) BY <1>4, <1>14, TouchedTwice
  <1> SUFFICES ASSUME y.ok
               PROVE  /\ OffersBacked(x) => OffersBacked(y)
                      /\ FundsBacked(x) => FundsBacked(y)
                      /\ Balanced(x, y, o.outcome, 0, 0)
    BY <1>8, <1>13, <1>15 DEF Keeps
  <1>16. Moved(x, y, i, z, z, h, a, h, z, e, z)
    <2>1. Moved(x, r, i, z, z, h, a, h, z, e, z) BY <1>4, <1>10
    <2>2. OnlyOrder(x, y, i) BY <1>10, <1>15, <2>1 DEF Moved, OnlyOrder
    <2> QED BY <1>6, <1>8, <1>10, <1>13, <2>1, <2>2 DEF Moved
  <1>17. /\ SameTerms(n, o) /\ n.filled = o.filled /\ n.value = o.value /\ n.held = o.held + h
    <2>1. SameTerms(n, o) BY <1>13, <1>15 DEF Touched
    <2>2. n.filled = o.filled + 0 /\ n.value = o.value + 0 /\ n.held = o.held + h
      BY <1>z, <1>13, <1>16 DEF Moved
    <2> QED BY <1>1, <2>1, <2>2
  <1>18. ~ Fillable(n) BY <1>8 DEF Fillable
  <1>19. Balanced(x, y, o.outcome, 0, 0)
    <2>1. Balanced(x, y, o.outcome, a + h, z) BY <1>z, <1>a, <1>h, <1>16, MovedSums
    <2>2. a + h = 0 BY <1>h
    <2> QED BY <1>z, <2>1, <2>2
  <1>20. ASSUME OffersBacked(x) PROVE OffersBacked(y)
    <2>1. NotOversold(y, k)
      <3>1. x.position[k].reserved <= x.position[k].quantity BY <1>1, <1>2, <1>20 DEF OffersBacked
      <3> QED BY <1>4, <1>10, <3>1 DEF NotOversold
    <2>2. Offered(n, k) = 0 BY <1>18 DEF Offered
    <2>3. Offered(o, k) = - e
      <3>1. CASE o.side = "BUY"
        <4>1. e = 0 /\ Offered(o, k) = 0 BY <1>e, <3>1 DEF Offered
        <4>2. - e = 0 - e BY <1>e
        <4> QED BY <4>1, <4>2
      <3>2. CASE o.side # "BUY"
        <4>1. o.side = "SELL" BY <1>1, <3>2 DEF OrderRow
        <4>2. Offered(o, k) = Remaining(o) BY <1>2, <4>1 DEF Offered
        <4> QED BY <1>1, <1>e, <3>2, <4>2
      <3> QED BY <3>1, <3>2
    <2>4. Offered(n, k) - Offered(o, k) = e BY <1>e, <2>2, <2>3
    <2> QED BY <1>2, <1>e, <1>13, <1>16, <1>20, <2>1, <2>4, MovedOffers
  <1>21. ASSUME FundsBacked(x) PROVE FundsBacked(y)
    <2>1. HeldAsNeeded(o) /\ WithinLimit(o) BY <1>21 DEF FundsBacked
    <2>2. WithinLimit(n) BY <1>17, <2>1 DEF WithinLimit, SameTerms
    <2>3. n.held = 0
      <3>1. o.held = - h BY <2>1, <1>a, <1>h DEF HeldAsNeeded
      <3> QED BY <1>h, <1>17, <3>1
    <2>4. HeldAsNeeded(n) BY <1>18, <2>3 DEF HeldAsNeeded
    <2> QED BY <1>h, <1>13, <1>16, <1>21, <2>2, <2>4, MovedFunds
  <1> QED BY <1>19, <1>20, <1>21

-----------------------------------------------------------------------------
(* A fill and a complete set. Money and collateral together, and shares    *)
(* less collateral, stay what they are.                                    *)
Conserves(x, y) ==
    y.ok => /\ x.ok
            /\ OffersBacked(x) => OffersBacked(y)
            /\ FundsBacked(x) => FundsBacked(y)
            /\ Money(y.wallet) + Unit * y.locked = Money(x.wallet) + Unit * x.locked
            /\ \A o \in Outcomes :
                  Shares(y.position, o) - y.locked = Shares(x.position, o) - x.locked

(* Of the orders that x has those at the indices in I may have changed,    *)
(* and only those that were active.                                        *)
DoneStands(x, y) ==
    \A j \in DOMAIN x.orders : ~ Fillable(x.orders[j]) => y.orders[j] = x.orders[j]

Within(x, y, I) ==
    /\ x \in Books /\ y \in Books /\ DOMAIN y.orders = DOMAIN x.orders
    /\ \A j \in DOMAIN x.orders : SameTerms(y.orders[j], x.orders[j])
    /\ \A j \in DOMAIN x.orders \ I : y.orders[j] = x.orders[j]
    /\ DoneStands(x, y)

LEMMA ConservesTwice ==
    ASSUME NEW x, NEW y, NEW z, Conserves(x, y), Conserves(y, z)
    PROVE  Conserves(x, z)
  BY DEF Conserves

LEMMA ConservesItself ==
    ASSUME NEW x
    PROVE  Conserves(x, x)
  BY DEF Conserves

LEMMA WithinItself ==
    ASSUME NEW x \in Books, NEW I
    PROVE  Within(x, x, I)
  BY DEF Within, SameTerms, DoneStands

LEMMA WithinTwice ==
    ASSUME NEW x, NEW y, NEW z, NEW I, NEW J, NEW K, Within(x, y, I), Within(y, z, J),
           I \subseteq K, J \subseteq K
    PROVE  Within(x, z, K)
  BY DEF Within, DoneStands, SameTerms

LEMMA TouchedIsWithin ==
    ASSUME NEW x \in Books, NEW i \in DOMAIN x.orders, Fillable(x.orders[i]),
           NEW y, Touched(x, y, i)
    PROVE  Within(x, y, {i})
  <1>1. DoneStands(x, y) BY DEF Touched, DoneStands
  <1> QED BY <1>1 DEF Touched, Within, SameTerms

LEMMA SidesOfOutcomes ==
    ASSUME NEW o \in OrderRow
    PROVE  o.side \in {"BUY", "SELL"} /\ o.outcome \in Outcomes /\ o.price \in Nat
           /\ Unit - o.price \in Nat
  BY TradingAssumption DEF OrderRow

LEMMA SmallerIs ==
    ASSUME NEW x \in Books, NEW i \in DOMAIN x.orders, NEW m \in DOMAIN x.orders,
           NEW q, q = SmallerRemainder(x, i, m)
    PROVE  q \in Nat /\ q <= Remaining(x.orders[i]) /\ q <= Remaining(x.orders[m])
  BY OrderIsTyped DEF SmallerRemainder

(* The buyer b and the seller s of a fill at price p.                      *)
LEMMA FillConserves ==
    ASSUME NEW x \in Books, NEW b \in DOMAIN x.orders, NEW s \in DOMAIN x.orders, b # s,
           x.orders[b].side = "BUY", x.orders[s].side = "SELL",
           Fillable(x.orders[b]), Fillable(x.orders[s]),
           x.orders[b].outcome = x.orders[s].outcome,
           NEW q \in Nat, q <= Remaining(x.orders[b]), q <= Remaining(x.orders[s]),
           NEW p \in Nat, p <= x.orders[b].price, p >= x.orders[s].price,
           NEW y, y = SellSide(BuySide(x, b, q, p), s, q, p)
    PROVE  Conserves(x, y) /\ Within(x, y, {b, s})
  <1>0. q * p \in Int BY ProductsAreTyped
  <1>1. PICK z, e, t : /\ z = BuySide(x, b, q, p) /\ e = x.orders[b].outcome
                       /\ t \in Int /\ t = q * p
    BY <1>0
  <1>2. Keeps(x, z, b) /\ (z.ok => Balanced(x, z, e, - t, q)) BY <1>1, BuySideKeeps
  <1>3. /\ z \in Books /\ s \in DOMAIN z.orders /\ z.orders[s] = x.orders[s]
        /\ DOMAIN z.orders = DOMAIN x.orders
        /\ \A j \in DOMAIN x.orders \ {b} : z.orders[j] = x.orders[j]
    BY <1>2 DEF Keeps, Touched
  <1>4. Keeps(z, y, s) /\ (y.ok => Balanced(z, y, e, t, - q)) BY <1>1, <1>3, SellSideKeeps
  <1>5. Within(x, y, {b, s})
    <2>1. Within(x, z, {b}) BY <1>2, TouchedIsWithin DEF Keeps
    <2>2. Within(z, y, {s}) BY <1>3, <1>4, TouchedIsWithin DEF Keeps
    <2> QED BY <2>1, <2>2, WithinTwice
  <1>6. Conserves(x, y)
    <2> SUFFICES ASSUME y.ok
                 PROVE  /\ x.ok
                        /\ OffersBacked(x) => OffersBacked(y)
                        /\ FundsBacked(x) => FundsBacked(y)
                        /\ Money(y.wallet) + Unit * y.locked = Money(x.wallet) + Unit * x.locked
                        /\ \A o \in Outcomes :
                              Shares(y.position, o) - y.locked = Shares(x.position, o) - x.locked
      BY DEF Conserves
    <2>1. z.ok /\ x.ok /\ z.locked = x.locked /\ y.locked = z.locked
      BY <1>2, <1>4 DEF Keeps, Touched
    <2>2. /\ OffersBacked(x) => OffersBacked(y)
          /\ FundsBacked(x) => FundsBacked(y)
      BY <1>2, <1>4, <2>1 DEF Keeps
    <2>3. /\ Money(x.wallet) \in Int /\ \A o \in Outcomes : Shares(x.position, o) \in Int
      BY MoneyIsInteger
    <2>4. Money(z.wallet) = Money(x.wallet) + (- t) /\ Money(y.wallet) = Money(z.wallet) + t
      BY <1>2, <1>4, <2>1 DEF Balanced
    <2>5. Money(y.wallet) = Money(x.wallet) BY <1>1, <2>3, <2>4
    <2>6. ASSUME NEW o \in Outcomes PROVE Shares(y.position, o) = Shares(x.position, o)
      <3>1. PICK a \in Int : a = Shares(x.position, o) BY <2>3
      <3>2. CASE o = e
        <4>1. /\ Shares(z.position, e) = Shares(x.position, e) + q
              /\ Shares(y.position, e) = Shares(z.position, e) + (- q)
          BY <1>2, <1>4, <2>1 DEF Balanced
        <4>2. (a + q) + (- q) = a BY <3>1
        <4> QED BY <3>1, <3>2, <4>1, <4>2
      <3>3. CASE o # e
        <4>1. /\ Shares(z.position, o) = Shares(x.position, o)
              /\ Shares(y.position, o) = Shares(z.position, o)
          BY <1>2, <1>4, <2>1, <3>3 DEF Balanced
        <4> QED BY <4>1
      <3> QED BY <3>2, <3>3
    <2> QED BY <2>1, <2>2, <2>5, <2>6
  <1> QED BY <1>5, <1>6

LEMMA MatchMakerConserves ==
    ASSUME NEW x \in Books, NEW i \in DOMAIN x.orders, NEW m \in DOMAIN x.orders,
           NEW y, y = MatchMaker(x, i, m)
    PROVE  Conserves(x, y) /\ Within(x, y, {i, m})
  <1>1. CASE ~(x.ok /\ Live(x.orders[i]) /\ Eligible(x, i, m))
    <2>1. y = x BY <1>1 DEF MatchMaker
    <2> QED BY <2>1, ConservesItself, WithinItself
  <1>2. CASE x.ok /\ Live(x.orders[i]) /\ Eligible(x, i, m)
    <2>1. PICK t, o, q, p : /\ t = x.orders[i] /\ o = x.orders[m]
                            /\ q = SmallerRemainder(x, i, m) /\ p = o.price
      OBVIOUS
    <2>2. /\ t \in OrderRow /\ o \in OrderRow BY <2>1, OrderIsTyped
    <2>3. /\ Fillable(t) /\ Fillable(o) /\ o.outcome = t.outcome /\ o.side # t.side /\ o.user # t.user
          /\ IF t.side = "BUY" THEN o.price <= t.price ELSE o.price >= t.price
      BY <1>2, <2>1 DEF Live, Eligible
    <2>4. i # m BY <2>1, <2>3
    <2>5. q \in Nat /\ q <= Remaining(t) /\ q <= Remaining(o) BY <2>1, SmallerIs
    <2>6. p \in Nat /\ p <= o.price /\ p >= o.price BY <2>1, <2>2, SidesOfOutcomes
    <2>7. y = IF t.side = "BUY" THEN SellSide(BuySide(x, i, q, p), m, q, p)
                                ELSE SellSide(BuySide(x, m, q, p), i, q, p)
      BY <1>2, <2>1 DEF MatchMaker, ExecuteFill
    <2>8. CASE t.side = "BUY"
      <3>1. o.side = "SELL" /\ p <= t.price BY <2>1, <2>2, <2>3, <2>8, SidesOfOutcomes
      <3>2. Conserves(x, y) /\ Within(x, y, {i, m})
        BY <2>1, <2>3, <2>4, <2>5, <2>6, <2>7, <2>8, <3>1, FillConserves
      <3> QED BY <3>2
    <2>9. CASE t.side # "BUY"
      <3>1. t.side = "SELL" /\ o.side = "BUY" /\ p >= t.price
        BY <2>1, <2>2, <2>3, <2>9, SidesOfOutcomes
      <3>2. Conserves(x, y) /\ Within(x, y, {m, i})
        BY <2>1, <2>3, <2>4, <2>5, <2>6, <2>7, <2>9, <3>1, FillConserves
      <3>3. {m, i} = {i, m} OBVIOUS
      <3> QED BY <3>2, <3>3
    <2> QED BY <2>8, <2>9
  <1> QED BY <1>1, <1>2

LEMMA ComplementConserves ==
    ASSUME NEW x \in Books, NEW i \in DOMAIN x.orders, NEW m \in DOMAIN x.orders,
           x.orders[i].side = "BUY", x.orders[m].side = "BUY", Fillable(x.orders[m]),
           x.orders[i].outcome # x.orders[m].outcome,
           NEW y, y = Complement(x, i, m)
    PROVE  Conserves(x, y) /\ Within(x, y, {i, m})
  <1>1. PICK t, o, q, p, r : /\ t = x.orders[i] /\ o = x.orders[m]
                             /\ q = SmallerRemainder(x, i, m) /\ p = o.price /\ r = Unit - p
    OBVIOUS
  <1>2. CASE ~ x.ok \/ ~ Fillable(t) \/ r > t.price \/ q = 0
    <2>1. y = x BY <1>1, <1>2 DEF Complement
    <2> QED BY <2>1, ConservesItself, WithinItself
  <1>3. CASE ~(~ x.ok \/ ~ Fillable(t) \/ r > t.price \/ q = 0)
    <2>1. t \in OrderRow /\ o \in OrderRow BY <1>1, OrderIsTyped
    <2>2. /\ q \in Nat /\ q <= Remaining(t) /\ q <= Remaining(o) BY <1>1, SmallerIs
    <2>3. p \in Nat /\ r \in Nat /\ t.price \in Nat BY <1>1, <2>1, SidesOfOutcomes
    <2>4. r <= t.price /\ Fillable(t) BY <1>3, <2>3
    <2>5. t.outcome \in Outcomes /\ o.outcome \in Outcomes /\ t.outcome # o.outcome
      BY <1>1, <2>1, SidesOfOutcomes
    <2>6. i # m BY <1>1, <2>5
    <2>7. q * p \in Int /\ q * r \in Int BY <2>2, <2>3, ProductsAreTyped
    <2>8. PICK a, b, z, w : /\ a \in Int /\ a = q * p /\ b \in Int /\ b = q * r
                            /\ z = BuySide(x, m, q, p) /\ w = BuySide(z, i, q, r)
      BY <2>7
    <2>9. y = [w EXCEPT !.locked = w.locked + q] BY <1>1, <1>3, <2>8 DEF Complement
    <2>10. Keeps(x, z, m) /\ (z.ok => Balanced(x, z, o.outcome, - a, q))
      <3>1. p <= o.price BY <1>1, <2>3
      <3> QED BY <1>1, <2>2, <2>3, <2>8, <3>1, BuySideKeeps
    <2>11. /\ z \in Books /\ i \in DOMAIN z.orders /\ z.orders[i] = t
           /\ DOMAIN z.orders = DOMAIN x.orders
           /\ \A j \in DOMAIN x.orders \ {m} : z.orders[j] = x.orders[j]
      BY <1>1, <2>6, <2>10 DEF Keeps, Touched
    <2>12. Keeps(z, w, i) /\ (w.ok => Balanced(z, w, t.outcome, - b, q))
      BY <1>1, <2>2, <2>3, <2>4, <2>8, <2>11, BuySideKeeps
    <2>13. /\ w \in Books /\ DOMAIN w.orders = DOMAIN x.orders
           /\ \A j \in DOMAIN x.orders \ {i, m} : w.orders[j] = x.orders[j]
           /\ \A j \in DOMAIN x.orders : SameTerms(w.orders[j], x.orders[j])
      BY <2>10, <2>11, <2>12 DEF Keeps, Touched, SameTerms
    <2>14. /\ y \in Books /\ y.orders = w.orders /\ y.wallet = w.wallet
           /\ y.position = w.position /\ y.locked = w.locked + q /\ y.ok = w.ok
      BY <2>2, <2>9, <2>13 DEF Books
    <2>15. Within(x, y, {i, m})
      <3>1. DoneStands(x, y) BY <1>1, <2>4, <2>13, <2>14 DEF DoneStands
      <3> QED BY <2>13, <2>14, <3>1 DEF Within
    <2>16. ASSUME y.ok PROVE x.ok /\ z.ok /\ w.ok /\ w.locked = x.locked /\ x.locked \in Int
      BY <2>10, <2>12, <2>14, <2>16 DEF Keeps, Touched, Books
    <2>17. ASSUME y.ok
           PROVE  /\ OffersBacked(x) => OffersBacked(y)
                  /\ FundsBacked(x) => FundsBacked(y)
      <3>1. /\ OffersBacked(x) => OffersBacked(w)
            /\ FundsBacked(x) => FundsBacked(w)
        BY <2>10, <2>12, <2>16, <2>17 DEF Keeps
      <3> QED BY <2>14, <3>1 DEF OffersBacked, FundsBacked
    <2>18. ASSUME y.ok
           PROVE  Money(y.wallet) + Unit * y.locked = Money(x.wallet) + Unit * x.locked
      <3>1. PICK c \in Int : c = Money(x.wallet) BY MoneyIsInteger
      <3>2. Money(y.wallet) = (c + (- a)) + (- b)
        BY <2>10, <2>12, <2>14, <2>16, <2>18, <3>1 DEF Balanced
      <3>3. Unit \in Int /\ Unit * x.locked \in Int /\ Unit * q \in Int
        BY <2>2, <2>16, <2>18, ProductsAreTyped, TradingAssumption
      <3>4. Unit * (x.locked + q) = Unit * x.locked + Unit * q BY <2>2, <2>16, <2>18, <3>3
      <3>5. a + b = Unit * q
        <4>1. b = q * Unit - q * p BY <1>1, <2>2, <2>3, <2>8, <3>3, CostsAdd
        <4>2. q * Unit = Unit * q BY <2>2, <3>3
        <4> QED BY <2>8, <3>3, <4>1, <4>2
      <3>6. y.locked = x.locked + q BY <2>14, <2>16, <2>18
      <3>7. PICK e \in Int, f \in Int : e = Unit * x.locked /\ f = Unit * q BY <3>3
      <3>8. Money(y.wallet) + Unit * y.locked = ((c + (- a)) + (- b)) + (e + f)
        BY <3>2, <3>4, <3>6, <3>7
      <3>9. ((c + (- a)) + (- b)) + (e + f) = c + e BY <2>8, <3>1, <3>5, <3>7
      <3> QED BY <3>1, <3>7, <3>8, <3>9
    <2>19. ASSUME y.ok, NEW e \in Outcomes
           PROVE  Shares(y.position, e) - y.locked = Shares(x.position, e) - x.locked
      <3>1. PICK c \in Int : c = Shares(x.position, e) BY MoneyIsInteger
      <3>2. y.locked = x.locked + q /\ x.locked \in Int BY <2>14, <2>16, <2>19
      <3>3. Shares(y.position, e) = c + q
        <4>1. CASE e = o.outcome
          <5>1. Shares(z.position, e) = c + q BY <2>10, <2>16, <2>19, <3>1, <4>1 DEF Balanced
          <5>2. Shares(w.position, e) = Shares(z.position, e)
            BY <2>5, <2>12, <2>16, <2>19, <4>1 DEF Balanced
          <5> QED BY <2>14, <5>1, <5>2
        <4>2. CASE e # o.outcome
          <5>1. Shares(z.position, e) = c BY <2>10, <2>16, <2>19, <3>1, <4>2 DEF Balanced
          <5>2. e = t.outcome BY <2>5, <4>2 DEF Outcomes
          <5>3. Shares(w.position, e) = Shares(z.position, e) + q
            BY <2>12, <2>16, <2>19, <5>2 DEF Balanced
          <5> QED BY <2>14, <5>1, <5>3
        <4> QED BY <4>1, <4>2
      <3>4. (c + q) - (x.locked + q) = c - x.locked BY <2>2, <3>1, <3>2
      <3> QED BY <3>1, <3>2, <3>3, <3>4
    <2>20. Conserves(x, y) BY <2>16, <2>17, <2>18, <2>19 DEF Conserves
    <2> QED BY <2>15, <2>20
  <1> QED BY <1>2, <1>3

LEMMA EndOrderConserves ==
    ASSUME NEW x \in Books, NEW i \in DOMAIN x.orders, Fillable(x.orders[i]),
           NEW s \in OrderStatuses \ FILLABLE_STATUSES, NEW y, y = EndOrder(x, i, s)
    PROVE  Conserves(x, y) /\ Within(x, y, {i}) /\ ~ Fillable(y.orders[i])
  <1>1. PICK o : o = x.orders[i] OBVIOUS
  <1>2. Keeps(x, y, i) /\ y.orders[i].status = s /\ (y.ok => Balanced(x, y, o.outcome, 0, 0))
    BY <1>1, EndOrderKeeps
  <1>3. Within(x, y, {i}) BY <1>2, TouchedIsWithin DEF Keeps
  <1>4. ~ Fillable(y.orders[i]) BY <1>2 DEF Fillable
  <1>5. Conserves(x, y)
    <2>1. ASSUME y.ok
          PROVE  /\ x.ok /\ y.locked = x.locked
                 /\ OffersBacked(x) => OffersBacked(y)
                 /\ FundsBacked(x) => FundsBacked(y)
      BY <1>2, <2>1 DEF Keeps, Touched
    <2>2. ASSUME y.ok PROVE Money(y.wallet) = Money(x.wallet)
      BY <1>2, <2>2, MoneyIsInteger DEF Balanced
    <2>3. ASSUME y.ok, NEW e \in Outcomes PROVE Shares(y.position, e) = Shares(x.position, e)
      <3>1. Shares(x.position, e) \in Int BY MoneyIsInteger
      <3>2. CASE e = o.outcome
        <4>1. Shares(y.position, e) = Shares(x.position, e) + 0 BY <1>2, <2>3, <3>2 DEF Balanced
        <4> QED BY <3>1, <4>1
      <3>3. CASE e # o.outcome BY <1>2, <2>3, <3>3 DEF Balanced
      <3> QED BY <3>2, <3>3
    <2> QED BY <2>1, <2>2, <2>3 DEF Conserves
  <1> QED BY <1>3, <1>4, <1>5

-----------------------------------------------------------------------------
(* What trading does to an order: it keeps its terms, is not revived, and  *)
(* is over only when its remainder is used up.                             *)
Advances(o, n) ==
    /\ SameTerms(n, o)
    /\ Live(n) => Live(o)
    /\ ~ Fillable(o) => n = o
    /\ Fillable(o) /\ ~ Fillable(n) => Remaining(n) = 0
    /\ Fillable(o) /\ Fillable(n) /\ Remaining(o) > 0 => Remaining(n) > 0

Trades(x, y) ==
    y.ok => /\ x.ok
            /\ \A j \in DOMAIN x.orders :
                  j \in DOMAIN y.orders /\ Advances(x.orders[j], y.orders[j])

LEMMA AdvancesItself ==
    ASSUME NEW o
    PROVE  Advances(o, o)
  BY DEF Advances, SameTerms

LEMMA AdvancesTwice ==
    ASSUME NEW o, NEW n, NEW k, Advances(o, n), Advances(n, k)
    PROVE  Advances(o, k)
  BY DEF Advances, SameTerms

LEMMA TradesItself ==
    ASSUME NEW x
    PROVE  Trades(x, x)
  BY AdvancesItself DEF Trades

LEMMA TradesTwice ==
    ASSUME NEW x, NEW y, NEW z, Trades(x, y), Trades(y, z)
    PROVE  Trades(x, z)
  BY AdvancesTwice DEF Trades

(* Order n is order o after q of its shares were filled.                   *)
FilledBy(o, n, q) ==
    SameTerms(n, o) /\ n.filled = o.filled + q /\ (Fillable(n) <=> q # Remaining(o))

LEMMA FilledAdvances ==
    ASSUME NEW o \in OrderRow, NEW n \in OrderRow, NEW q \in Nat, q <= Remaining(o),
           Fillable(o), FilledBy(o, n, q)
    PROVE  Advances(o, n) /\ Remaining(n) = Remaining(o) - q
  <1>1. PICK f \in Nat, m \in Nat : f = o.filled /\ m = o.quantity BY DEF OrderRow
  <1>2. Remaining(o) = m - f /\ Remaining(n) = m - (f + q)
    BY <1>1 DEF FilledBy, SameTerms, Remaining
  <1>3. /\ Remaining(n) = Remaining(o) - q /\ Remaining(o) \in Int
        /\ Remaining(n) > 0 => Remaining(o) > 0
        /\ q # Remaining(o) => Remaining(n) > 0
        /\ q = Remaining(o) => Remaining(n) = 0
    BY <1>1, <1>2
  <1>4. Live(n) => Live(o) BY <1>3 DEF FilledBy, SameTerms, Live, Elapsed
  <1> QED BY <1>3, <1>4 DEF FilledBy, Advances

LEMMA BuySideFills ==
    ASSUME NEW x \in Books, NEW i \in DOMAIN x.orders, NEW o, o = x.orders[i],
           NEW q \in Nat, q <= Remaining(o), NEW p \in Nat, NEW y, y = BuySide(x, i, q, p)
    PROVE  Touched(x, y, i) /\ (y.ok => FilledBy(o, y.orders[i], q))
  <1>1. o.price \in Nat BY OrderIsTyped DEF OrderRow
  <1>2. PICK t \in Int, b \in Int, m \in Int : t = q * p /\ b = q * (o.price - p) /\ m = - t - b
    BY <1>1, ProductsAreTyped
  <1>3. /\ Touched(x, y, i)
        /\ y.orders[i].status = IF Remaining(o) = q THEN "FILLED" ELSE "PARTIALLY_FILLED"
        /\ y.ok => Moved(x, y, i, q, t, m, b, m, q, 0, t)
    BY <1>2, BuySideMoves
  <1>4. Fillable(y.orders[i]) <=> q # Remaining(o) BY <1>3 DEF Fillable, FILLABLE_STATUSES
  <1>5. y.ok => y.orders[i].filled = o.filled + q BY <1>3 DEF Moved
  <1> QED BY <1>3, <1>4, <1>5 DEF Touched, FilledBy

LEMMA SellSideFills ==
    ASSUME NEW x \in Books, NEW i \in DOMAIN x.orders, NEW o, o = x.orders[i],
           NEW q \in Nat, q <= Remaining(o), NEW p \in Nat, NEW y, y = SellSide(x, i, q, p)
    PROVE  Touched(x, y, i) /\ (y.ok => FilledBy(o, y.orders[i], q))
  <1>1. PICK t \in Int, j \in Int : t = q * p /\ j = - q BY ProductsAreTyped
  <1>2. /\ Touched(x, y, i)
        /\ y.orders[i].status = IF Remaining(o) = q THEN "FILLED" ELSE "PARTIALLY_FILLED"
        /\ y.ok => \E e \in Int : /\ Moved(x, y, i, q, t, 0, t, 0, j, j, e)
                                  /\ NotOversold(y, Key(o))
    BY <1>1, SellSideMoves
  <1>3. Fillable(y.orders[i]) <=> q # Remaining(o) BY <1>2 DEF Fillable, FILLABLE_STATUSES
  <1>4. y.ok => y.orders[i].filled = o.filled + q BY <1>2 DEF Moved
  <1> QED BY <1>2, <1>3, <1>4 DEF Touched, FilledBy

(* A step that fills two orders with the smaller remainder uses up one.    *)
BothFilled(x, y, i, m) ==
    LET q == SmallerRemainder(x, i, m)
    IN  y.ok => /\ x.ok
                /\ FilledBy(x.orders[i], y.orders[i], q) /\ FilledBy(x.orders[m], y.orders[m], q)

LEMMA TwoFilled ==
    ASSUME NEW x \in Books, NEW y \in Books, NEW i \in DOMAIN x.orders, NEW m \in DOMAIN x.orders,
           Within(x, y, {i, m}), Fillable(x.orders[i]), Fillable(x.orders[m]),
           BothFilled(x, y, i, m)
    PROVE  /\ Trades(x, y)
           /\ y.ok => Remaining(y.orders[i]) = 0 \/ Remaining(y.orders[m]) = 0
  <1>1. PICK q, t, o, u, n : /\ q = SmallerRemainder(x, i, m) /\ t = x.orders[i] /\ o = x.orders[m]
                             /\ u = y.orders[i] /\ n = y.orders[m]
    OBVIOUS
  <1>2. /\ q \in Nat /\ q <= Remaining(t) /\ q <= Remaining(o)
        /\ q = Remaining(t) \/ q = Remaining(o)
    BY <1>1, SmallerIs DEF SmallerRemainder
  <1>3. t \in OrderRow /\ o \in OrderRow /\ u \in OrderRow /\ n \in OrderRow
    BY <1>1, OrderIsTyped DEF Within
  <1>4. ASSUME y.ok
        PROVE  /\ x.ok /\ Advances(t, u) /\ Advances(o, n)
               /\ Remaining(u) = Remaining(t) - q /\ Remaining(n) = Remaining(o) - q
    <2>1. x.ok /\ FilledBy(t, u, q) /\ FilledBy(o, n, q) BY <1>1, <1>4 DEF BothFilled
    <2>2. Advances(t, u) /\ Remaining(u) = Remaining(t) - q
      BY <1>1, <1>2, <1>3, <2>1, FilledAdvances
    <2>3. Advances(o, n) /\ Remaining(n) = Remaining(o) - q
      BY <1>1, <1>2, <1>3, <2>1, FilledAdvances
    <2> QED BY <2>1, <2>2, <2>3
  <1>5. Trades(x, y) BY <1>1, <1>4, AdvancesItself DEF Trades, Within
  <1>6. ASSUME y.ok PROVE Remaining(u) = 0 \/ Remaining(n) = 0 BY <1>2, <1>4, <1>6
  <1> QED BY <1>1, <1>5, <1>6

-----------------------------------------------------------------------------
(* Who may trade with whom, by the terms of the orders alone.              *)
Crosses(t, o) ==
    /\ o.outcome = t.outcome /\ o.user # t.user /\ o.side # t.side
    /\ IF t.side = "BUY" THEN o.price <= t.price ELSE o.price >= t.price
Pairs(t, o) ==
    /\ t.side = "BUY" /\ o.side = "BUY" /\ o.outcome # t.outcome /\ o.user # t.user
    /\ t.price + o.price >= Unit
MayTrade(t, o) == Crosses(t, o) \/ Pairs(t, o)

LEMMA EligibleIs ==
    ASSUME NEW x, NEW i, NEW m
    PROVE  Eligible(x, i, m) <=> Live(x.orders[m]) /\ Crosses(x.orders[i], x.orders[m])
  BY DEF Eligible, Crosses

LEMMA TermsDecide ==
    ASSUME NEW t, NEW o, NEW s, NEW n, SameTerms(s, t), SameTerms(n, o)
    PROVE  /\ Crosses(s, n) <=> Crosses(t, o)
           /\ Pairs(s, n) <=> Pairs(t, o)
  BY DEF SameTerms, Crosses, Pairs

(* An order that could trade and no longer can, although nobody cancelled  *)
(* it, is used up.                                                         *)
LEMMA SpentIsUsedUp ==
    ASSUME NEW o \in OrderRow, NEW n \in OrderRow, n.filled <= n.quantity,
           Advances(o, n), Live(o), ~ Live(n)
    PROVE  Remaining(n) = 0
  BY DEF Advances, Live, Elapsed, SameTerms

LEMMA OneIsUsedUp ==
    ASSUME NEW x \in Books, NEW i \in DOMAIN x.orders, NEW m \in DOMAIN x.orders,
           NEW q, q = SmallerRemainder(x, i, m)
    PROVE  q = Remaining(x.orders[i]) \/ q = Remaining(x.orders[m])
  BY DEF SmallerRemainder

(* What one pass of the loop of match_order does: afterwards taker and     *)
(* maker cannot trade any more.                                            *)
Matches(x, y, i, m) ==
    /\ Within(x, y, {i, m}) /\ Trades(x, y)
    /\ y.ok /\ Live(y.orders[i]) => ~ Eligible(y, i, m)
    /\ y # x => x.ok /\ Live(x.orders[i]) /\ Eligible(x, i, m)

LEMMA MatchMakerMatches ==
    ASSUME NEW x \in Books, NEW i \in DOMAIN x.orders, NEW m \in DOMAIN x.orders,
           NEW y, y = MatchMaker(x, i, m)
    PROVE  Matches(x, y, i, m)
  <1>1. CASE ~(x.ok /\ Live(x.orders[i]) /\ Eligible(x, i, m))
    BY <1>1, WithinItself, TradesItself DEF MatchMaker, Matches
  <1>2. CASE x.ok /\ Live(x.orders[i]) /\ Eligible(x, i, m)
    <2>1. PICK t, o, q, p : /\ t = x.orders[i] /\ o = x.orders[m]
                            /\ q = SmallerRemainder(x, i, m) /\ p = o.price
      OBVIOUS
    <2>2. t \in OrderRow /\ o \in OrderRow BY <2>1, OrderIsTyped
    <2>3. Fillable(t) /\ Fillable(o) /\ o.user # t.user BY <1>2, <2>1 DEF Live, Eligible
    <2>4. i # m BY <2>1, <2>3
    <2>5. q \in Nat /\ q <= Remaining(t) /\ q <= Remaining(o) BY <2>1, SmallerIs
    <2>6. p \in Nat BY <2>1, <2>2, SidesOfOutcomes
    <2>7. Within(x, y, {i, m}) BY MatchMakerConserves
    <2>8. BothFilled(x, y, i, m)
      <3>1. CASE t.side = "BUY"
        <4>1. PICK w : w = BuySide(x, i, q, p) OBVIOUS
        <4>2. y = SellSide(w, m, q, p) BY <1>2, <2>1, <3>1, <4>1 DEF MatchMaker, ExecuteFill
        <4>3. Touched(x, w, i) /\ (w.ok => FilledBy(t, w.orders[i], q))
          BY <2>1, <2>5, <2>6, <4>1, BuySideFills
        <4>4. w \in Books /\ m \in DOMAIN w.orders /\ w.orders[m] = o /\ (w.ok => x.ok)
          BY <2>1, <2>4, <4>3 DEF Touched
        <4>5. Touched(w, y, m) /\ (y.ok => FilledBy(o, y.orders[m], q))
          BY <2>5, <2>6, <4>2, <4>4, SellSideFills
        <4>6. y.orders[i] = w.orders[i] /\ (y.ok => w.ok) BY <2>4, <4>3, <4>5 DEF Touched
        <4> QED BY <2>1, <4>3, <4>4, <4>5, <4>6 DEF BothFilled
      <3>2. CASE t.side # "BUY"
        <4>1. PICK w : w = BuySide(x, m, q, p) OBVIOUS
        <4>2. y = SellSide(w, i, q, p) BY <1>2, <2>1, <3>2, <4>1 DEF MatchMaker, ExecuteFill
        <4>3. Touched(x, w, m) /\ (w.ok => FilledBy(o, w.orders[m], q))
          BY <2>1, <2>5, <2>6, <4>1, BuySideFills
        <4>4. w \in Books /\ i \in DOMAIN w.orders /\ w.orders[i] = t /\ (w.ok => x.ok)
          BY <2>1, <2>4, <4>3 DEF Touched
        <4>5. Touched(w, y, i) /\ (y.ok => FilledBy(t, y.orders[i], q))
          BY <2>5, <2>6, <4>2, <4>4, SellSideFills
        <4>6. y.orders[m] = w.orders[m] /\ (y.ok => w.ok) BY <2>4, <4>3, <4>5 DEF Touched
        <4> QED BY <2>1, <4>3, <4>4, <4>5, <4>6 DEF BothFilled
      <3> QED BY <3>1, <3>2
    <2>9. /\ Trades(x, y)
          /\ y.ok => Remaining(y.orders[i]) = 0 \/ Remaining(y.orders[m]) = 0
      <3>1. y \in Books /\ Fillable(x.orders[i]) /\ Fillable(x.orders[m])
        BY <2>1, <2>3, <2>7 DEF Within
      <3> QED BY <2>7, <2>8, <3>1, TwoFilled
    <2>10. y.ok /\ Live(y.orders[i]) => ~ Eligible(y, i, m) BY <2>9 DEF Live, Eligible
    <2> QED BY <1>2, <2>7, <2>9, <2>10 DEF Matches
  <1> QED BY <1>1, <1>2

(* The same for the loop over complements; the taker is known to have a    *)
(* remainder as long as it is open.                                        *)
Completes(x, y, i, m) ==
    /\ Within(x, y, {i, m}) /\ Trades(x, y)
    /\ y.ok /\ Fillable(y.orders[i]) /\ x.orders[i].price + x.orders[m].price >= Unit
          => Remaining(y.orders[m]) = 0
    /\ y # x => x.ok /\ Fillable(x.orders[i])

LEMMA ComplementCompletes ==
    ASSUME NEW x \in Books, NEW i \in DOMAIN x.orders, NEW m \in DOMAIN x.orders,
           x.orders[i].side = "BUY", x.orders[m].side = "BUY", Fillable(x.orders[m]),
           x.orders[i].outcome # x.orders[m].outcome,
           Fillable(x.orders[i]) => Remaining(x.orders[i]) > 0,
           NEW y, y = Complement(x, i, m)
    PROVE  Completes(x, y, i, m)
  <1>1. PICK t, o, q, p, r : /\ t = x.orders[i] /\ o = x.orders[m]
                             /\ q = SmallerRemainder(x, i, m) /\ p = o.price /\ r = Unit - p
    OBVIOUS
  <1>2. t \in OrderRow /\ o \in OrderRow BY <1>1, OrderIsTyped
  <1>3. p \in Nat /\ r \in Nat /\ t.price \in Nat /\ Unit \in Nat
    BY <1>1, <1>2, SidesOfOutcomes, TradingAssumption
  <1>4. /\ q \in Nat /\ q <= Remaining(t) /\ q <= Remaining(o)
        /\ q = Remaining(t) \/ q = Remaining(o)
    BY <1>1, SmallerIs, OneIsUsedUp
  <1>5. Within(x, y, {i, m}) BY ComplementConserves
  <1>6. r > t.price <=> ~(t.price + p >= Unit) BY <1>1, <1>3
  <1>7. CASE ~ x.ok \/ ~ Fillable(t) \/ r > t.price \/ q = 0
    <2>1. y = x BY <1>1, <1>7 DEF Complement
    <2>2. x.ok /\ Fillable(t) /\ t.price + p >= Unit => Remaining(o) = 0
      <3> SUFFICES ASSUME x.ok, Fillable(t), t.price + p >= Unit
                   PROVE  Remaining(o) = 0
        OBVIOUS
      <3>1. q = 0 /\ Remaining(t) > 0 BY <1>1, <1>6, <1>7
      <3> QED BY <1>4, <3>1
    <2>3. Trades(x, y) BY <2>1, TradesItself
    <2> QED BY <1>1, <1>5, <2>1, <2>2, <2>3 DEF Completes
  <1>8. CASE ~(~ x.ok \/ ~ Fillable(t) \/ r > t.price \/ q = 0)
    <2>1. i # m BY <1>1
    <2>2. PICK z, w : z = BuySide(x, m, q, p) /\ w = BuySide(z, i, q, r) OBVIOUS
    <2>3. y = [w EXCEPT !.locked = w.locked + q] BY <1>1, <1>8, <2>2 DEF Complement
    <2>4. Touched(x, z, m) /\ (z.ok => FilledBy(o, z.orders[m], q))
      BY <1>1, <1>3, <1>4, <2>2, BuySideFills
    <2>5. z \in Books /\ i \in DOMAIN z.orders /\ z.orders[i] = t /\ (z.ok => x.ok)
      BY <1>1, <2>1, <2>4 DEF Touched
    <2>6. Touched(z, w, i) /\ (w.ok => FilledBy(t, w.orders[i], q))
      BY <1>3, <1>4, <2>2, <2>5, BuySideFills
    <2>7. w.orders[m] = z.orders[m] /\ (w.ok => z.ok) /\ w \in Books BY <2>1, <2>4, <2>6 DEF Touched
    <2>8. y.orders = w.orders /\ y.ok = w.ok BY <2>3, <2>7 DEF Books
    <2>9. BothFilled(x, y, i, m) BY <1>1, <2>4, <2>5, <2>6, <2>7, <2>8 DEF BothFilled
    <2>10. /\ Trades(x, y)
           /\ y.ok => Remaining(y.orders[i]) = 0 \/ Remaining(y.orders[m]) = 0
      <3>1. y \in Books /\ Fillable(x.orders[i]) /\ Fillable(x.orders[m])
        BY <1>1, <1>5, <1>8 DEF Within
      <3> QED BY <1>5, <2>9, <3>1, TwoFilled
    <2>11. y.ok /\ Fillable(y.orders[i]) => Remaining(y.orders[m]) = 0
      BY <1>1, <1>8, <2>10 DEF Trades, Advances
    <2> QED BY <1>1, <1>5, <1>8, <2>10, <2>11 DEF Completes
  <1> QED BY <1>7, <1>8

-----------------------------------------------------------------------------
(* The loops over orders. The recursion of each has a value in V[s] once   *)
(* it has been through the orders in s.                                    *)
LEMMA MaxIsMember ==
    ASSUME NEW S, IsFiniteSet(S), S \subseteq Int, S # {}
    PROVE  Max(S) \in S /\ \A y \in S : y <= Max(S)
  BY GreatestMember DEF Max

LEMMA IndicesAreFinite ==
    ASSUME NEW x \in Books, NEW S \in SUBSET DOMAIN x.orders
    PROVE  /\ IsFiniteSet(S) /\ S \subseteq Int
           /\ \A s \in SUBSET S : s # {} => Max(s) \in s /\ \A n \in s : n <= Max(s)
  <1>1. IsFiniteSet(DOMAIN x.orders) /\ DOMAIN x.orders \subseteq Nat BY OrdersAreFinite DEF Books
  <1>2. IsFiniteSet(S) /\ S \subseteq Int BY <1>1, FS_Subset
  <1>3. ASSUME NEW s \in SUBSET S, s # {} PROVE Max(s) \in s /\ \A n \in s : n <= Max(s)
    <2>1. IsFiniteSet(s) /\ s \subseteq Int BY <1>2, FS_Subset
    <2> QED BY <1>3, <2>1, MaxIsMember
  <1> QED BY <1>2, <1>3

LEMMA CancelAllConserves ==
    ASSUME NEW x \in Books, NEW y, y = CancelAll(x)
    PROVE  /\ Conserves(x, y) /\ Within(x, y, DOMAIN x.orders)
           /\ \A j \in DOMAIN x.orders : ~ Fillable(y.orders[j])
  <1> DEFINE S == ActiveOrders(x)
             V == [s \in SUBSET S |-> {z \in Books : /\ Conserves(x, z) /\ Within(x, z, s)
                                                     /\ \A j \in s : ~ Fillable(z.orders[j])}]
             W == UNION {V[s] : s \in SUBSET S}
             step == [m \in S |-> [v \in W |-> CancelLockedOrder(v, m)]]
             last == [s \in SUBSET S |-> Max(s)]
             G == CHOOSE g : g = [s \in SUBSET S |->
                      IF s = {} THEN x ELSE CancelLockedOrder(g[s \ {Max(s)}], Max(s))]
  <1>1. S \in SUBSET DOMAIN x.orders /\ \A j \in DOMAIN x.orders : j \in S <=> Fillable(x.orders[j])
    BY DEF ActiveOrders
  <1>2. y = G[S] BY DEF CancelAll, InTurn, MapThenFoldSet
  <1>3. \A s \in SUBSET S : \A z : z \in V[s] <=>
            z \in Books /\ Conserves(x, z) /\ Within(x, z, s) /\ \A j \in s : ~ Fillable(z.orders[j])
    OBVIOUS
  <1>4. \A s \in SUBSET S : last[s] = Max(s) /\ V[s] \subseteq W OBVIOUS
  <1>5. \A m \in S, v \in W : step[m][v] = CancelLockedOrder(v, m) OBVIOUS
  <1> HIDE DEF S, V, W, step, last, G
  <1>6. /\ IsFiniteSet(S)
        /\ \A s \in SUBSET S : s # {} => Max(s) \in s
    BY <1>1, IndicesAreFinite
  <1>7. x \in V[{}] BY <1>3, ConservesItself, WithinItself
  <1>8. ASSUME NEW s \in SUBSET S, s # {}, NEW v \in V[s \ {Max(s)}]
        PROVE  CancelLockedOrder(v, Max(s)) \in V[s]
    <2>1. PICK m, w : m = Max(s) /\ w = EndOrder(v, m, "CANCELLED") OBVIOUS
    <2>2. m \in s /\ m \in S /\ m \in DOMAIN x.orders /\ Fillable(x.orders[m])
      BY <1>1, <1>6, <1>8, <2>1
    <2>3. /\ v \in Books /\ Conserves(x, v) /\ Within(x, v, s \ {m})
          /\ \A j \in s \ {m} : ~ Fillable(v.orders[j])
      BY <1>3, <2>1
    <2>4. m \in DOMAIN v.orders /\ Fillable(v.orders[m]) BY <2>2, <2>3 DEF Within
    <2>5. Conserves(v, w) /\ Within(v, w, {m}) /\ ~ Fillable(w.orders[m])
      <3>1. "CANCELLED" \in OrderStatuses \ FILLABLE_STATUSES
        BY DEF OrderStatuses, FILLABLE_STATUSES
      <3> QED BY <2>1, <2>3, <2>4, <3>1, EndOrderConserves
    <2>6. Conserves(x, w) /\ Within(x, w, s) BY <2>2, <2>3, <2>5, ConservesTwice, WithinTwice
    <2>7. \A j \in s : ~ Fillable(w.orders[j]) BY <1>1, <2>3, <2>5 DEF Within
    <2>8. w \in V[s] BY <1>3, <2>5, <2>6, <2>7 DEF Within
    <2> QED BY <2>1, <2>8 DEF CancelLockedOrder
  <1>9. PICK g : \A s \in SUBSET S : Follows(g, step, last, x, s) /\ g[s] \in V[s]
    <2>1. \A s \in SUBSET S : s # {} => last[s] \in s BY <1>4, <1>6
    <2>2. \A s \in SUBSET S : s # {} => \A v \in V[s \ {last[s]}] : step[last[s]][v] \in V[s]
      <3> SUFFICES ASSUME NEW s \in SUBSET S, s # {}, NEW v \in V[s \ {last[s]}]
                   PROVE  step[last[s]][v] \in V[s]
        OBVIOUS
      <3>1. last[s] = Max(s) /\ last[s] \in S /\ v \in W BY <1>4, <1>6
      <3> QED BY <1>5, <1>8, <3>1
    <2> QED BY <1>6, <1>7, <2>1, <2>2, RecursionIn
  <1>10. \E h : h = [s \in SUBSET S |->
                        IF s = {} THEN x ELSE CancelLockedOrder(h[s \ {Max(s)}], Max(s))]
    <2> DEFINE h == [s \in SUBSET S |-> g[s]]
    <2>1. ASSUME NEW s \in SUBSET S, s # {}
          PROVE  g[s] = CancelLockedOrder(h[s \ {Max(s)}], Max(s))
      <3>1. Max(s) \in S /\ last[s] = Max(s) BY <1>4, <1>6, <2>1
      <3>2. s \ {Max(s)} \in SUBSET S OBVIOUS
      <3>3. h[s \ {Max(s)}] = g[s \ {Max(s)}] /\ g[s \ {Max(s)}] \in W BY <1>4, <1>9, <3>2
      <3>4. g[s] = step[Max(s)][g[s \ {Max(s)}]] BY <1>9, <2>1, <3>1 DEF Follows
      <3> QED BY <1>5, <3>1, <3>3, <3>4
    <2>2. g[{}] = x BY <1>9 DEF Follows
    <2>3. h = [s \in SUBSET S |->
                  IF s = {} THEN x ELSE CancelLockedOrder(h[s \ {Max(s)}], Max(s))]
      BY <2>1, <2>2
    <2> QED BY <2>3
  <1>11. G = [s \in SUBSET S |->
                 IF s = {} THEN x ELSE CancelLockedOrder(G[s \ {Max(s)}], Max(s))]
    BY <1>10, Zenon DEF G
  <1>12. \A s \in SUBSET S : G[s] \in V[s]
    <2>1. G[{}] \in V[{}] BY <1>7, <1>11
    <2>2. \A s \in SUBSET S : s # {} => last[s] \in s BY <1>4, <1>6
    <2>3. \A s \in SUBSET S : s # {} /\ G[s \ {last[s]}] \in V[s \ {last[s]}] => G[s] \in V[s]
      <3> SUFFICES ASSUME NEW s \in SUBSET S, s # {}, G[s \ {last[s]}] \in V[s \ {last[s]}]
                   PROVE  G[s] \in V[s]
        OBVIOUS
      <3>1. G[s] = CancelLockedOrder(G[s \ {Max(s)}], Max(s)) BY <1>11
      <3> QED BY <1>4, <1>8, <3>1
    <2> QED BY <1>6, <2>1, <2>2, <2>3, RecursionStays
  <1>13. y \in V[S] BY <1>2, <1>12
  <1>14. Conserves(x, y) /\ Within(x, y, S) /\ \A j \in S : ~ Fillable(y.orders[j]) BY <1>3, <1>13
  <1>15. \A j \in DOMAIN x.orders : ~ Fillable(y.orders[j]) BY <1>1, <1>14 DEF Within
  <1>16. Within(x, y, DOMAIN x.orders) BY <1>1, <1>14 DEF Within
  <1> QED BY <1>14, <1>15, <1>16

-----------------------------------------------------------------------------
(* The loops. In the book of an outcome n comes before m when its price is *)
(* better for the taker i, or the same and n is older.                     *)
Leads(x, i, n, m) ==
    IF x.orders[n].price = x.orders[m].price THEN n < m
    ELSE IF x.orders[i].side = "BUY" THEN x.orders[n].price < x.orders[m].price
                                     ELSE x.orders[n].price > x.orders[m].price

(* Of an order that changed between x and z every live order that leads it *)
(* is used up.                                                             *)
LeadersAreUsedUp(x, z, i, s) ==
    \A n, m \in s : /\ z.orders[m] # x.orders[m]
                    /\ Live(x.orders[n]) /\ Crosses(x.orders[i], x.orders[n])
                    /\ Leads(x, i, n, m)
                    => Remaining(z.orders[n]) = 0

(* The book z that match_order has made of x once it has been through the  *)
(* makers in s.                                                            *)
Matched(x, z, i, s) ==
    /\ Within(x, z, s \cup {i}) /\ Trades(x, z)
    /\ \A m \in DOMAIN x.orders \ {i} :
          z.orders[m] # x.orders[m] => m \in s /\ Crosses(x.orders[i], x.orders[m])
    /\ z.ok => /\ Live(z.orders[i]) => \A m \in s : ~ Eligible(z, i, m)
               /\ LeadersAreUsedUp(x, z, i, s)

LEMMA NothingMatched ==
    ASSUME NEW x \in Books, NEW i
    PROVE  Matched(x, x, i, {})
  BY WithinItself, TradesItself DEF Matched, LeadersAreUsedUp

LEMMA MatchedStep ==
    ASSUME NEW x \in Books, NEW i \in DOMAIN x.orders, NEW s \in SUBSET DOMAIN x.orders, i \notin s,
           NEW m \in s, \A n \in s \ {m} : ~ Leads(x, i, m, n),
           NEW v, Matched(x, v, i, s \ {m}), NEW w, Matches(v, w, i, m)
    PROVE  Matched(x, w, i, s)
  <1>1. PICK r : r = s \ {m} OBVIOUS
  <1>2. Within(x, v, r \cup {i}) /\ Trades(x, v) BY <1>1 DEF Matched
  <1>3. Within(v, w, {i, m}) /\ Trades(v, w) BY DEF Matches
  <1>4. Within(x, w, s \cup {i})
    <2>1. r \cup {i} \subseteq s \cup {i} /\ {i, m} \subseteq s \cup {i} BY <1>1
    <2> QED BY <1>2, <1>3, <2>1, WithinTwice
  <1>5. Trades(x, w) BY <1>2, <1>3, TradesTwice
  <1>6. /\ v \in Books /\ w \in Books
        /\ DOMAIN v.orders = DOMAIN x.orders /\ DOMAIN w.orders = DOMAIN x.orders
        /\ \A j \in DOMAIN x.orders \ {i, m} : w.orders[j] = v.orders[j]
        /\ \A j \in DOMAIN x.orders : SameTerms(v.orders[j], x.orders[j])
        /\ \A j \in DOMAIN x.orders : SameTerms(w.orders[j], v.orders[j])
    BY <1>2, <1>3 DEF Within
  <1>7. \A j \in DOMAIN x.orders : Crosses(v.orders[i], v.orders[j]) <=> Crosses(x.orders[i], x.orders[j])
    BY <1>6, TermsDecide
  <1>8. \A j \in DOMAIN x.orders : Crosses(w.orders[i], w.orders[j]) <=> Crosses(v.orders[i], v.orders[j])
    BY <1>6, TermsDecide
  <1>9. w # v => v.ok /\ Live(v.orders[i]) /\ Crosses(x.orders[i], x.orders[m])
    BY <1>7, EligibleIs DEF Matches
  <1>10. \A j \in DOMAIN x.orders \ {i} :
            w.orders[j] # x.orders[j] => j \in s /\ Crosses(x.orders[i], x.orders[j])
    <2> SUFFICES ASSUME NEW j \in DOMAIN x.orders \ {i}, w.orders[j] # x.orders[j]
                 PROVE  j \in s /\ Crosses(x.orders[i], x.orders[j])
      OBVIOUS
    <2>1. CASE v.orders[j] # x.orders[j] BY <2>1 DEF Matched
    <2>2. CASE v.orders[j] = x.orders[j] BY <1>6, <1>9, <2>2
    <2> QED BY <2>1, <2>2
  <1>11. ASSUME w.ok
         PROVE  /\ v.ok
                /\ Live(w.orders[i]) => Live(v.orders[i])
                /\ \A j \in DOMAIN x.orders : Live(w.orders[j]) => Live(v.orders[j])
                /\ Live(v.orders[i]) => \A n \in r : ~ Eligible(v, i, n)
                /\ LeadersAreUsedUp(x, v, i, r)
    <2>1. v.ok /\ \A j \in DOMAIN x.orders : Advances(v.orders[j], w.orders[j])
      BY <1>3, <1>6, <1>11 DEF Trades
    <2> QED BY <1>1, <2>1 DEF Matched, Advances
  <1>12. ASSUME w.ok, Live(w.orders[i]), NEW n \in s PROVE ~ Eligible(w, i, n)
    <2>1. CASE n = m BY <1>12, <2>1 DEF Matches
    <2>2. CASE n # m
      <3>1. n \in r /\ n \in DOMAIN x.orders BY <1>1, <2>2
      <3>2. ~ Eligible(v, i, n) /\ (Live(w.orders[n]) => Live(v.orders[n])) BY <1>11, <1>12, <3>1
      <3> QED BY <1>8, <3>1, <3>2, EligibleIs
    <2> QED BY <2>1, <2>2
  <1>13. ASSUME w.ok PROVE LeadersAreUsedUp(x, w, i, s)
    <2> SUFFICES ASSUME NEW n \in s, NEW k \in s, w.orders[k] # x.orders[k],
                        Live(x.orders[n]), Crosses(x.orders[i], x.orders[n]), Leads(x, i, n, k)
                 PROVE  Remaining(w.orders[n]) = 0
      BY DEF LeadersAreUsedUp
    <2>1. n # k
      <3>1. n \in Int /\ x.orders[n].price = x.orders[n].price BY IndicesAreFinite
      <3> QED BY <3>1 DEF Leads
    <2>2. n # m BY <2>1
    <2>3. n \in r /\ n \in DOMAIN x.orders \ {i, m} /\ k \in DOMAIN x.orders \ {i} BY <1>1, <2>2
    <2>4. w.orders[n] = v.orders[n] BY <1>6, <2>3
    <2>5. CASE v.orders[k] # x.orders[k]
      <3>1. k \in r BY <1>1, <2>3, <2>5 DEF Matched
      <3> QED BY <1>11, <1>13, <2>3, <2>4, <2>5, <3>1 DEF LeadersAreUsedUp
    <2>6. CASE v.orders[k] = x.orders[k]
      <3>1. w # v BY <2>6
      <3>2. Live(v.orders[i]) BY <1>9, <3>1
      <3>3. ~ Eligible(v, i, n) BY <1>11, <1>13, <2>3, <3>2
      <3>4. ~ Live(v.orders[n]) BY <1>7, <2>3, <3>3, EligibleIs
      <3>5. Advances(x.orders[n], v.orders[n]) BY <1>2, <1>11, <1>13, <2>3 DEF Trades
      <3>6. /\ x.orders[n] \in OrderRow /\ v.orders[n] \in OrderRow
            /\ v.orders[n].filled <= v.orders[n].quantity
        BY <1>6, <2>3, OrderIsTyped
      <3> QED BY <2>4, <3>4, <3>5, <3>6, SpentIsUsedUp
    <2> QED BY <2>5, <2>6
  <1> QED BY <1>4, <1>5, <1>10, <1>11, <1>12, <1>13 DEF Matched

(* The same of the loop over complements, which are met in the order of    *)
(* their creation.                                                         *)
ElderAreUsedUp(x, z, i, s) ==
    \A n, m \in s : /\ z.orders[m] # x.orders[m] /\ n < m
                    /\ x.orders[i].price + x.orders[n].price >= Unit
                    => Remaining(z.orders[n]) = 0

Completed(x, z, i, s) ==
    /\ Within(x, z, s \cup {i}) /\ Trades(x, z)
    /\ z.ok => /\ Fillable(z.orders[i]) =>
                     \A m \in s : x.orders[i].price + x.orders[m].price >= Unit
                                      => Remaining(z.orders[m]) = 0
               /\ ElderAreUsedUp(x, z, i, s)

LEMMA NothingCompleted ==
    ASSUME NEW x \in Books, NEW i
    PROVE  Completed(x, x, i, {})
  BY WithinItself, TradesItself DEF Completed, ElderAreUsedUp

LEMMA CompletedStep ==
    ASSUME NEW x \in Books, NEW i \in DOMAIN x.orders, NEW s \in SUBSET DOMAIN x.orders, i \notin s,
           NEW m \in s, \A n \in s : n <= m,
           NEW v, Completed(x, v, i, s \ {m}), NEW w, Completes(v, w, i, m)
    PROVE  Completed(x, w, i, s)
  <1>1. PICK r : r = s \ {m} OBVIOUS
  <1>2. Within(x, v, r \cup {i}) /\ Trades(x, v) BY <1>1 DEF Completed
  <1>3. Within(v, w, {i, m}) /\ Trades(v, w) BY DEF Completes
  <1>4. Within(x, w, s \cup {i})
    <2>1. r \cup {i} \subseteq s \cup {i} /\ {i, m} \subseteq s \cup {i} BY <1>1
    <2> QED BY <1>2, <1>3, <2>1, WithinTwice
  <1>5. Trades(x, w) BY <1>2, <1>3, TradesTwice
  <1>6. /\ DOMAIN v.orders = DOMAIN x.orders
        /\ \A j \in DOMAIN x.orders \ {i, m} : w.orders[j] = v.orders[j]
        /\ \A j \in DOMAIN x.orders : SameTerms(v.orders[j], x.orders[j])
        /\ \A j \in DOMAIN x.orders \ (r \cup {i}) : v.orders[j] = x.orders[j]
    BY <1>2, <1>3 DEF Within
  <1>7. ASSUME w.ok
        PROVE  /\ v.ok /\ (Fillable(w.orders[i]) => Fillable(v.orders[i]))
               /\ Fillable(v.orders[i]) =>
                     \A n \in r : x.orders[i].price + x.orders[n].price >= Unit
                                      => Remaining(v.orders[n]) = 0
               /\ ElderAreUsedUp(x, v, i, r)
    <2>1. v.ok /\ Advances(v.orders[i], w.orders[i]) BY <1>3, <1>6, <1>7 DEF Trades
    <2> QED BY <1>1, <2>1 DEF Completed, Advances
  <1>8. ASSUME w.ok, Fillable(w.orders[i]), NEW n \in s,
               x.orders[i].price + x.orders[n].price >= Unit
        PROVE  Remaining(w.orders[n]) = 0
    <2>1. CASE n = m BY <1>6, <1>8, <2>1 DEF SameTerms, Completes
    <2>2. CASE n # m
      <3>1. n \in r /\ n \in DOMAIN x.orders \ {i, m} BY <1>1, <2>2
      <3> QED BY <1>6, <1>7, <1>8, <3>1
    <2> QED BY <2>1, <2>2
  <1>9. ASSUME w.ok PROVE ElderAreUsedUp(x, w, i, s)
    <2> SUFFICES ASSUME NEW n \in s, NEW k \in s, w.orders[k] # x.orders[k], n < k,
                        x.orders[i].price + x.orders[n].price >= Unit
                 PROVE  Remaining(w.orders[n]) = 0
      BY DEF ElderAreUsedUp
    <2>1. n \in Int /\ k \in Int /\ m \in Int /\ k <= m BY IndicesAreFinite
    <2>2. n # m BY <2>1
    <2>3. n \in r /\ n \in DOMAIN x.orders \ {i, m} BY <1>1, <2>2
    <2>4. w.orders[n] = v.orders[n] BY <1>6, <2>3
    <2>5. CASE k # m
      <3>1. k \in r /\ v.orders[k] # x.orders[k] BY <1>1, <1>6, <2>5
      <3> QED BY <1>7, <1>9, <2>3, <2>4, <3>1 DEF ElderAreUsedUp
    <2>6. CASE k = m
      <3>1. v.orders[k] = x.orders[k] BY <1>1, <1>6, <2>6
      <3>2. w # v BY <3>1
      <3>3. Fillable(v.orders[i]) BY <3>2 DEF Completes
      <3> QED BY <1>7, <1>9, <2>3, <2>4, <3>3
    <2> QED BY <2>5, <2>6
  <1> QED BY <1>4, <1>5, <1>7, <1>8, <1>9 DEF Completed

LEMMA LastMakerIs ==
    ASSUME NEW x \in Books, NEW i, NEW s \in SUBSET DOMAIN x.orders, s # {}
    PROVE  /\ LastMaker(x, i, s) \in s
           /\ \A n \in s : ~ Leads(x, i, LastMaker(x, i, s), n)
  <1> DEFINE price(m) == x.orders[m].price
             T == {m \in s : \A n \in s : IF x.orders[i].side = "BUY" THEN price(n) <= price(m)
                                                                     ELSE price(n) >= price(m)}
  <1>1. IsFiniteSet(s) /\ s \subseteq Int /\ \A m \in s : price(m) \in Int
    <2>1. \A m \in s : x.orders[m] \in OrderRow BY OrderIsTyped
    <2>2. \A m \in s : price(m) \in Int BY <2>1, SidesOfOutcomes
    <2> QED BY <2>2, IndicesAreFinite
  <1>2. \E m \in s : \A n \in s : price(n) <= price(m)
    <2> DEFINE f == [m \in s |-> price(m)]
    <2>1. \A m \in s : f[m] = price(m) /\ f[m] \in Int BY <1>1
    <2> HIDE DEF f, price
    <2>2. PICK m \in s : \A n \in s : f[m] >= f[n] BY <1>1, <2>1, GreatestValue
    <2> QED BY <2>1, <2>2
  <1>3. \E m \in s : \A n \in s : price(n) >= price(m)
    <2> DEFINE f == [m \in s |-> - price(m)]
    <2>1. \A m \in s : f[m] = - price(m) /\ price(m) \in Int BY <1>1
    <2> HIDE DEF f, price
    <2>2. PICK m \in s : \A n \in s : f[m] >= f[n] BY <1>1, <2>1, GreatestValue
    <2> QED BY <2>1, <2>2
  <1>4. T # {} /\ T \subseteq s BY <1>2, <1>3
  <1>5. PICK l : l = LastMaker(x, i, s) /\ l = Max(T) BY DEF LastMaker
  <1>6. \A m \in s : m \in T <=>
            \A n \in s : IF x.orders[i].side = "BUY" THEN price(n) <= price(m)
                                                    ELSE price(n) >= price(m)
    OBVIOUS
  <1> HIDE DEF T
  <1>7. IsFiniteSet(T) /\ T \subseteq Int BY <1>1, <1>4, FS_Subset
  <1>8. l \in T /\ \A n \in T : n <= l BY <1>4, <1>5, <1>7, MaxIsMember
  <1>9. ASSUME NEW n \in s PROVE ~ Leads(x, i, l, n)
    <2>1. l \in s /\ l \in Int /\ n \in Int /\ price(l) \in Int /\ price(n) \in Int
      BY <1>1, <1>4, <1>8
    <2>2. IF x.orders[i].side = "BUY" THEN price(n) <= price(l) ELSE price(n) >= price(l)
      BY <1>6, <1>8, <2>1
    <2>3. ASSUME price(n) = price(l) PROVE n <= l
      <3>1. n \in T BY <1>6, <1>8, <2>1, <2>3
      <3> QED BY <1>8, <3>1
    <2> QED BY <2>1, <2>2, <2>3 DEF Leads
  <1> QED BY <1>4, <1>5, <1>8, <1>9

LEMMA MatchBookConserves ==
    ASSUME NEW x \in Books, NEW i \in DOMAIN x.orders, NEW S \in SUBSET DOMAIN x.orders,
           i \notin S, NEW y, y = MatchBook(x, i, S)
    PROVE  Conserves(x, y) /\ Matched(x, y, i, S)
  <1> DEFINE V == [s \in SUBSET S |-> {z \in Books : Conserves(x, z) /\ Matched(x, z, i, s)}]
             W == UNION {V[s] : s \in SUBSET S}
             step == [m \in S |-> [v \in W |-> MatchMaker(v, i, m)]]
             last == [s \in SUBSET S |-> LastMaker(x, i, s)]
             G == CHOOSE g : g = [s \in SUBSET S |->
                      IF s = {} THEN x
                      ELSE MatchMaker(g[s \ {LastMaker(x, i, s)}], i, LastMaker(x, i, s))]
  <1>1. y = G[S] BY DEF MatchBook, MapThenFoldSet
  <1>2. \A s \in SUBSET S : \A z : z \in V[s] <=>
            z \in Books /\ Conserves(x, z) /\ Matched(x, z, i, s)
    OBVIOUS
  <1>3. \A s \in SUBSET S : last[s] = LastMaker(x, i, s) /\ V[s] \subseteq W OBVIOUS
  <1>4. \A m \in S, v \in W : step[m][v] = MatchMaker(v, i, m) OBVIOUS
  <1> HIDE DEF V, W, step, last, G
  <1>5. /\ IsFiniteSet(S)
        /\ \A s \in SUBSET S : s # {} => LastMaker(x, i, s) \in s
        /\ \A s \in SUBSET S : s # {} => \A n \in s : ~ Leads(x, i, LastMaker(x, i, s), n)
    <2>1. IsFiniteSet(S) BY IndicesAreFinite
    <2>2. ASSUME NEW s \in SUBSET S, s # {}
          PROVE  /\ LastMaker(x, i, s) \in s
                 /\ \A n \in s : ~ Leads(x, i, LastMaker(x, i, s), n)
      BY <2>2, LastMakerIs
    <2> QED BY <2>1, <2>2
  <1>6. x \in V[{}] BY <1>2, ConservesItself, NothingMatched
  <1>7. ASSUME NEW s \in SUBSET S, s # {}, NEW m, m = LastMaker(x, i, s), NEW v \in V[s \ {m}]
        PROVE  MatchMaker(v, i, m) \in V[s]
    <2>1. PICK w : w = MatchMaker(v, i, m) OBVIOUS
    <2>2. m \in s /\ s \ {m} \in SUBSET S /\ \A n \in s \ {m} : ~ Leads(x, i, m, n) BY <1>5, <1>7
    <2>3. v \in Books /\ Conserves(x, v) /\ Matched(x, v, i, s \ {m}) BY <1>2, <1>7, <2>2
    <2>4. m \in DOMAIN v.orders /\ i \in DOMAIN v.orders BY <2>2, <2>3 DEF Matched, Within
    <2>5. Conserves(v, w) /\ Within(v, w, {i, m}) BY <2>1, <2>3, <2>4, MatchMakerConserves
    <2>6. Conserves(x, w) /\ w \in Books BY <2>3, <2>5, ConservesTwice DEF Within
    <2>7. Matched(x, w, i, s)
      <3>1. Matches(v, w, i, m) BY <2>1, <2>3, <2>4, MatchMakerMatches
      <3>2. s \in SUBSET DOMAIN x.orders /\ i \notin s OBVIOUS
      <3> QED BY <2>2, <2>3, <3>1, <3>2, MatchedStep
    <2> QED BY <1>2, <2>1, <2>6, <2>7
  <1>8. PICK g : \A s \in SUBSET S : Follows(g, step, last, x, s) /\ g[s] \in V[s]
    <2>1. \A s \in SUBSET S : s # {} => last[s] \in s BY <1>3, <1>5
    <2>2. \A s \in SUBSET S : s # {} => \A v \in V[s \ {last[s]}] : step[last[s]][v] \in V[s]
      <3> SUFFICES ASSUME NEW s \in SUBSET S, s # {}, NEW v \in V[s \ {last[s]}]
                   PROVE  step[last[s]][v] \in V[s]
        OBVIOUS
      <3>1. last[s] \in s /\ last[s] \in S /\ v \in W /\ last[s] = LastMaker(x, i, s) BY <1>3, <2>1
      <3> QED BY <1>4, <1>7, <3>1
    <2> QED BY <1>5, <1>6, <2>1, <2>2, RecursionIn
  <1>9. \E h : h = [s \in SUBSET S |->
                       IF s = {} THEN x
                       ELSE MatchMaker(h[s \ {LastMaker(x, i, s)}], i, LastMaker(x, i, s))]
    <2> DEFINE h == [s \in SUBSET S |-> g[s]]
    <2>1. ASSUME NEW s \in SUBSET S, s # {}
          PROVE  g[s] = MatchMaker(h[s \ {LastMaker(x, i, s)}], i, LastMaker(x, i, s))
      <3>1. PICK m : m = LastMaker(x, i, s) OBVIOUS
      <3>2. m \in S /\ last[s] = m /\ s \ {m} \in SUBSET S BY <1>3, <1>5, <2>1, <3>1
      <3>3. h[s \ {m}] = g[s \ {m}] /\ g[s \ {m}] \in W BY <1>3, <1>8, <3>2
      <3>4. g[s] = step[m][g[s \ {m}]] BY <1>8, <2>1, <3>2 DEF Follows
      <3> QED BY <1>4, <3>1, <3>2, <3>3, <3>4
    <2>2. g[{}] = x BY <1>8 DEF Follows
    <2>3. h = [s \in SUBSET S |->
                  IF s = {} THEN x
                  ELSE MatchMaker(h[s \ {LastMaker(x, i, s)}], i, LastMaker(x, i, s))]
      BY <2>1, <2>2
    <2> QED BY <2>3
  <1>10. G = [s \in SUBSET S |->
                 IF s = {} THEN x
                 ELSE MatchMaker(G[s \ {LastMaker(x, i, s)}], i, LastMaker(x, i, s))]
    BY <1>9, Zenon DEF G
  <1>11. \A s \in SUBSET S : G[s] \in V[s]
    <2>1. G[{}] \in V[{}] BY <1>6, <1>10
    <2>2. \A s \in SUBSET S : s # {} => last[s] \in s BY <1>3, <1>5
    <2>3. \A s \in SUBSET S : s # {} /\ G[s \ {last[s]}] \in V[s \ {last[s]}] => G[s] \in V[s]
      <3> SUFFICES ASSUME NEW s \in SUBSET S, s # {}, G[s \ {last[s]}] \in V[s \ {last[s]}]
                   PROVE  G[s] \in V[s]
        OBVIOUS
      <3>1. PICK m : m = LastMaker(x, i, s) OBVIOUS
      <3>2. G[s] = MatchMaker(G[s \ {m}], i, m) /\ m \in s /\ m = last[s] BY <1>3, <1>5, <1>10, <3>1
      <3> QED BY <1>7, <3>1, <3>2
    <2> QED BY <1>5, <2>1, <2>2, <2>3, RecursionStays
  <1> QED BY <1>1, <1>2, <1>11

LEMMA MatchComplementsConserves ==
    ASSUME NEW x \in Books, NEW i \in DOMAIN x.orders, Live(x.orders[i]),
           NEW y, y = MatchComplements(x, i)
    PROVE  Conserves(x, y) /\ Completed(x, y, i, Complements(x, i))
  <1> DEFINE S == Complements(x, i)
             V == [s \in SUBSET S |-> {z \in Books : Conserves(x, z) /\ Completed(x, z, i, s)}]
             W == UNION {V[s] : s \in SUBSET S}
             step == [m \in S |-> [v \in W |-> Complement(v, i, m)]]
             last == [s \in SUBSET S |-> Max(s)]
             G == CHOOSE g : g = [s \in SUBSET S |->
                      IF s = {} THEN x ELSE Complement(g[s \ {Max(s)}], i, Max(s))]
  <1>1. /\ S \in SUBSET DOMAIN x.orders
        /\ \A m \in S : /\ x.orders[i].side = "BUY" /\ x.orders[m].side = "BUY"
                        /\ Fillable(x.orders[m]) /\ x.orders[m].outcome # x.orders[i].outcome
    BY DEF Complements
  <1>2. y = G[S] BY DEF MatchComplements, InTurn, MapThenFoldSet
  <1>3. \A s \in SUBSET S : \A z : z \in V[s] <=>
            z \in Books /\ Conserves(x, z) /\ Completed(x, z, i, s)
    OBVIOUS
  <1>4. \A s \in SUBSET S : last[s] = Max(s) /\ V[s] \subseteq W OBVIOUS
  <1>5. \A m \in S, v \in W : step[m][v] = Complement(v, i, m) OBVIOUS
  <1> HIDE DEF S, V, W, step, last, G
  <1>6. /\ IsFiniteSet(S)
        /\ \A s \in SUBSET S : s # {} => Max(s) \in s /\ \A n \in s : n <= Max(s)
    BY <1>1, IndicesAreFinite
  <1>7. x \in V[{}] BY <1>3, ConservesItself, NothingCompleted
  <1>8. ASSUME NEW s \in SUBSET S, s # {}, NEW m, m = Max(s), NEW v \in V[s \ {m}]
        PROVE  Complement(v, i, m) \in V[s]
    <2>1. PICK w, I : w = Complement(v, i, m) /\ I = (s \ {m}) \cup {i} OBVIOUS
    <2>2. m \in s /\ s \ {m} \in SUBSET S /\ \A n \in s : n <= m BY <1>6, <1>8
    <2>3. /\ m \in DOMAIN x.orders /\ x.orders[i].side = "BUY" /\ x.orders[m].side = "BUY"
          /\ Fillable(x.orders[m]) /\ x.orders[m].outcome # x.orders[i].outcome
          /\ i \notin s /\ s \in SUBSET DOMAIN x.orders
      BY <1>1, <2>2
    <2>4. /\ v \in Books /\ Conserves(x, v) /\ Completed(x, v, i, s \ {m})
          /\ Within(x, v, I) /\ Trades(x, v)
      BY <1>3, <1>8, <2>1, <2>2 DEF Completed
    <2>5. m \notin I BY <2>1, <2>3
    <2>6. /\ m \in DOMAIN v.orders /\ i \in DOMAIN v.orders /\ v.orders[m] = x.orders[m]
          /\ SameTerms(v.orders[i], x.orders[i])
      BY <2>3, <2>4, <2>5 DEF Within
    <2>7. /\ v.orders[i].side = "BUY" /\ v.orders[m].side = "BUY" /\ Fillable(v.orders[m])
          /\ v.orders[i].outcome # v.orders[m].outcome
      BY <2>3, <2>6 DEF SameTerms
    <2>8. Conserves(v, w) /\ w \in Books BY <2>1, <2>4, <2>6, <2>7, ComplementConserves DEF Within
    <2>9. Completed(x, w, i, s)
      <3>1. CASE v.ok
        <4>1. Fillable(v.orders[i]) => Remaining(v.orders[i]) > 0
          BY <2>4, <3>1 DEF Trades, Advances, Live
        <4>2. Completes(v, w, i, m) BY <2>1, <2>4, <2>6, <2>7, <4>1, ComplementCompletes
        <4> QED BY <2>2, <2>3, <2>4, <4>2, CompletedStep
      <3>2. CASE ~ v.ok
        <4>1. w = v BY <2>1, <3>2 DEF Complement
        <4>2. Within(x, w, s \cup {i}) BY <2>1, <2>4, <4>1 DEF Within
        <4> QED BY <2>4, <3>2, <4>1, <4>2 DEF Completed
      <3> QED BY <3>1, <3>2
    <2>10. Conserves(x, w) BY <2>4, <2>8, ConservesTwice
    <2> QED BY <1>3, <2>1, <2>8, <2>9, <2>10
  <1>9. PICK g : \A s \in SUBSET S : Follows(g, step, last, x, s) /\ g[s] \in V[s]
    <2>1. \A s \in SUBSET S : s # {} => last[s] \in s BY <1>4, <1>6
    <2>2. \A s \in SUBSET S : s # {} => \A v \in V[s \ {last[s]}] : step[last[s]][v] \in V[s]
      <3> SUFFICES ASSUME NEW s \in SUBSET S, s # {}, NEW v \in V[s \ {last[s]}]
                   PROVE  step[last[s]][v] \in V[s]
        OBVIOUS
      <3>1. last[s] \in s /\ last[s] \in S /\ v \in W /\ last[s] = Max(s) BY <1>4, <2>1
      <3> QED BY <1>5, <1>8, <3>1
    <2> QED BY <1>6, <1>7, <2>1, <2>2, RecursionIn
  <1>10. \E h : h = [s \in SUBSET S |->
                        IF s = {} THEN x ELSE Complement(h[s \ {Max(s)}], i, Max(s))]
    <2> DEFINE h == [s \in SUBSET S |-> g[s]]
    <2>1. ASSUME NEW s \in SUBSET S, s # {}
          PROVE  g[s] = Complement(h[s \ {Max(s)}], i, Max(s))
      <3>1. Max(s) \in S /\ last[s] = Max(s) BY <1>4, <1>6, <2>1
      <3>2. s \ {Max(s)} \in SUBSET S OBVIOUS
      <3>3. h[s \ {Max(s)}] = g[s \ {Max(s)}] /\ g[s \ {Max(s)}] \in W BY <1>4, <1>9, <3>2
      <3>4. g[s] = step[Max(s)][g[s \ {Max(s)}]] BY <1>9, <2>1, <3>1 DEF Follows
      <3> QED BY <1>5, <3>1, <3>3, <3>4
    <2>2. g[{}] = x BY <1>9 DEF Follows
    <2>3. h = [s \in SUBSET S |->
                  IF s = {} THEN x ELSE Complement(h[s \ {Max(s)}], i, Max(s))]
      BY <2>1, <2>2
    <2> QED BY <2>3
  <1>11. G = [s \in SUBSET S |->
                 IF s = {} THEN x ELSE Complement(G[s \ {Max(s)}], i, Max(s))]
    BY <1>10, Zenon DEF G
  <1>12. \A s \in SUBSET S : G[s] \in V[s]
    <2>1. G[{}] \in V[{}] BY <1>7, <1>11
    <2>2. \A s \in SUBSET S : s # {} => last[s] \in s BY <1>4, <1>6
    <2>3. \A s \in SUBSET S : s # {} /\ G[s \ {last[s]}] \in V[s \ {last[s]}] => G[s] \in V[s]
      <3> SUFFICES ASSUME NEW s \in SUBSET S, s # {}, G[s \ {last[s]}] \in V[s \ {last[s]}]
                   PROVE  G[s] \in V[s]
        OBVIOUS
      <3>1. G[s] = Complement(G[s \ {Max(s)}], i, Max(s)) /\ Max(s) \in s /\ last[s] = Max(s)
        BY <1>4, <1>6, <1>11
      <3> QED BY <1>8, <3>1
    <2> QED BY <1>6, <2>1, <2>2, <2>3, RecursionStays
  <1>13. y \in V[S] BY <1>2, <1>12
  <1> QED BY <1>3, <1>13 DEF S

-----------------------------------------------------------------------------
(* A new order. Between its insertion and its reservation it is looked at  *)
(* as one that is over, so that nothing has to back it.                    *)
LEMMA NewOrderIsTyped ==
    ASSUME NEW r \in Requests, NEW o, o = NewOrder(r)
    PROVE  /\ o \in OrderRow /\ o.filled = 0 /\ o.value = 0 /\ o.held = 0 /\ o.status = "OPEN"
           /\ o.quantity = r.quantity /\ o.user = r.user /\ o.side \in {"BUY", "SELL"}
           /\ o.quantity \in Nat /\ o.price \in Nat /\ o.outcome = r.outcome
           /\ Remaining(o) = o.quantity /\ Fillable(o)
           /\ [o EXCEPT !.status = "CANCELLED"] \in OrderRow
  <1>1. /\ r.user \in Users /\ r.outcome \in Outcomes /\ r.side \in {"BUY", "SELL"}
        /\ r.quantity \in Nat /\ r.price \in 1..Unit - 1
        /\ r.tif \in {"GTC", "GTD", "IOC", "FOK"} /\ r.expires \in Nat /\ r.price \in Nat
    BY TradingAssumption
  <1>2. "OPEN" \in OrderStatuses /\ "CANCELLED" \in OrderStatuses /\ "OPEN" \in FILLABLE_STATUSES
    BY DEF OrderStatuses, FILLABLE_STATUSES
  <1>3. o \in OrderRow BY <1>1, <1>2 DEF NewOrder, OrderRow
  <1>4. /\ o.filled = 0 /\ o.value = 0 /\ o.held = 0 /\ o.status = "OPEN"
        /\ o.quantity = r.quantity /\ o.user = r.user /\ o.side = r.side
        /\ o.price = r.price /\ o.outcome = r.outcome
    BY DEF NewOrder
  <1>5. Remaining(o) = o.quantity /\ Fillable(o) BY <1>1, <1>2, <1>4 DEF Remaining, Fillable
  <1>6. [o EXCEPT !.status = "CANCELLED"] \in OrderRow BY <1>2, <1>3 DEF OrderRow
  <1> QED BY <1>1, <1>3, <1>4, <1>5, <1>6

Lengthened(s, z, n, i) ==
    /\ z \in OrderList /\ DOMAIN z = DOMAIN s \cup {i} /\ i \notin DOMAIN s
    /\ Len(z) = i /\ z[i] = n /\ \A j \in DOMAIN s : z[j] = s[j]
    /\ \A k : Offers(z, k) = Offers(s, k) + Offered(n, k)
    /\ \A u : Holds(z, u) = Holds(s, u) + HeldFor(n, u)

LEMMA OrderAppended ==
    ASSUME NEW s \in OrderList, NEW n \in OrderRow, n.filled <= n.quantity,
           NEW z, z = Append(s, n), NEW i, i = Len(s) + 1
    PROVE  Lengthened(s, z, n, i)
  <1>1. s \in Seq(OrderRow) /\ Len(s) \in Nat /\ DOMAIN s = 1..Len(s) /\ IsFiniteSet(DOMAIN s)
    BY OrdersAreFinite DEF OrderList
  <1>2. z \in Seq(OrderRow) /\ Len(z) = i /\ z[i] = n /\ \A j \in 1..Len(s) : z[j] = s[j]
    BY <1>1, AppendProperties
  <1>3. DOMAIN z = DOMAIN s \cup {i} /\ i \notin DOMAIN s BY <1>1, <1>2, LenProperties
  <1>4. z \in OrderList BY <1>1, <1>2, <1>3 DEF OrderList
  <1>5. /\ IsFiniteSet(DOMAIN z) /\ DOMAIN z \ {i} = DOMAIN s
        /\ \A j \in DOMAIN z : z[j] \in OrderRow
    BY <1>3, <1>4, OrdersAreFinite
  <1>6. ASSUME NEW k PROVE Offers(z, k) = Offers(s, k) + Offered(n, k)
    <2> DEFINE f == [j \in DOMAIN s |-> Offered(s[j], k)]
               h == [j \in DOMAIN z |-> Offered(z[j], k)]
    <2>1. /\ \A j \in DOMAIN s : f[j] \in Int /\ h[j] = f[j]
          /\ \A j \in DOMAIN z : h[j] \in Int
      BY <1>1, <1>2, <1>3, <1>5, PartsAreIntegers
    <2>2. h[i] = Offered(n, k) BY <1>2, <1>3
    <2>3. Offers(s, k) = SumOf(f, DOMAIN s) /\ Offers(z, k) = SumOf(h, DOMAIN z) BY DEF Offers
    <2> HIDE DEF f, h
    <2>4. SumOf(h, DOMAIN z) = h[i] + SumOf(h, DOMAIN z \ {i}) BY <1>3, <1>5, <2>1, TakeOut
    <2>5. SumOf(h, DOMAIN s) = SumOf(f, DOMAIN s) /\ SumOf(f, DOMAIN s) \in Int
      BY <1>1, <2>1, SumsAgree, SumIsInteger
    <2>6. h[i] \in Int BY <1>3, <2>1
    <2> QED BY <1>5, <2>2, <2>3, <2>4, <2>5, <2>6
  <1>7. ASSUME NEW u PROVE Holds(z, u) = Holds(s, u) + HeldFor(n, u)
    <2> DEFINE f == [j \in DOMAIN s |-> HeldFor(s[j], u)]
               h == [j \in DOMAIN z |-> HeldFor(z[j], u)]
    <2>1. /\ \A j \in DOMAIN s : f[j] \in Int /\ h[j] = f[j]
          /\ \A j \in DOMAIN z : h[j] \in Int
      BY <1>1, <1>2, <1>3, <1>5, PartsAreIntegers
    <2>2. h[i] = HeldFor(n, u) BY <1>2, <1>3
    <2>3. Holds(s, u) = SumOf(f, DOMAIN s) /\ Holds(z, u) = SumOf(h, DOMAIN z) BY DEF Holds
    <2> HIDE DEF f, h
    <2>4. SumOf(h, DOMAIN z) = h[i] + SumOf(h, DOMAIN z \ {i}) BY <1>3, <1>5, <2>1, TakeOut
    <2>5. SumOf(h, DOMAIN s) = SumOf(f, DOMAIN s) /\ SumOf(f, DOMAIN s) \in Int
      BY <1>1, <2>1, SumsAgree, SumIsInteger
    <2>6. h[i] \in Int BY <1>3, <2>1
    <2> QED BY <1>5, <2>2, <2>3, <2>4, <2>5, <2>6
  <1> QED BY <1>1, <1>2, <1>3, <1>4, <1>6, <1>7 DEF Lengthened

(* y is x with one order more.                                             *)
Extended(x, y, i) ==
    /\ x \in Books /\ y \in Books /\ i = Len(x.orders) + 1 /\ i \notin DOMAIN x.orders
    /\ DOMAIN y.orders = DOMAIN x.orders \cup {i} /\ Len(y.orders) = i
    /\ \A j \in DOMAIN x.orders : y.orders[j] = x.orders[j]

Longer(x, z, n, i) ==
    /\ Extended(x, z, i) /\ z.orders[i] = n
    /\ z.position = x.position /\ z.wallet = x.wallet /\ z.locked = x.locked /\ z.ok = x.ok
    /\ \A k : Offers(z.orders, k) = Offers(x.orders, k) + Offered(n, k)
    /\ \A u : Holds(z.orders, u) = Holds(x.orders, u) + HeldFor(n, u)

LEMMA BookExtended ==
    ASSUME NEW x \in Books, NEW n \in OrderRow, n.filled <= n.quantity,
           NEW z, z = [x EXCEPT !.orders = Append(@, n)], NEW i, i = Len(x.orders) + 1
    PROVE  Longer(x, z, n, i)
  <1>1. x.orders \in OrderList BY DEF Books
  <1>2. PICK t \in OrderList : t = x.orders BY <1>1
  <1>3. PICK s : s = Append(t, n) /\ Lengthened(t, s, n, i) BY <1>2, OrderAppended
  <1>4. z = [x EXCEPT !.orders = s] BY <1>2, <1>3
  <1>5. /\ z.orders = s /\ z.position = x.position /\ z.wallet = x.wallet
        /\ z.locked = x.locked /\ z.ok = x.ok /\ z \in Books
    BY <1>3, <1>4 DEF Books, Lengthened
  <1> QED BY <1>2, <1>3, <1>5 DEF Extended, Longer, Lengthened

OfferGrows(x, y, i, k, e) ==
    k = Key(x.orders[i]) /\ Offered(y.orders[i], k) - Offered(x.orders[i], k) = e

LEMMA OffersFollow ==
    ASSUME NEW x, NEW y, NEW i, NEW k, NEW e \in Int,
           NEW f, NEW v, NEW h, NEW a, NEW r, NEW s, NEW c,
           Moved(x, y, i, f, v, h, a, r, s, e, c), OffersBacked(x),
           NotOversold(y, k), OfferGrows(x, y, i, k, e)
    PROVE  OffersBacked(y)
  <1>1. PICK o, n : o = x.orders[i] /\ n = y.orders[i] OBVIOUS
  <1>2. k = Key(o) /\ Offered(n, k) - Offered(o, k) = e BY <1>1 DEF OfferGrows
  <1> QED BY <1>1, <1>2, MovedOffers

LEMMA InsertConserves ==
    ASSUME NEW x \in Books, NEW r \in Requests, NEW o, o = NewOrder(r), NEW y, y = Insert(x, o),
           NEW i, i = Len(x.orders) + 1
    PROVE  /\ Extended(x, y, i) /\ Conserves(x, y)
           /\ SameTerms(y.orders[i], o) /\ Fillable(y.orders[i])
  <1>1. /\ o \in OrderRow /\ o.filled = 0 /\ o.value = 0 /\ o.held = 0 /\ o.status = "OPEN"
        /\ o.side \in {"BUY", "SELL"} /\ o.quantity \in Nat /\ o.price \in Nat
        /\ Remaining(o) = o.quantity /\ Fillable(o)
    BY NewOrderIsTyped
  <1>2. PICK d : d = [o EXCEPT !.status = "CANCELLED"] OBVIOUS
  <1>3. /\ d \in OrderRow /\ SameTerms(d, o) /\ d.filled = 0 /\ d.value = 0 /\ d.held = 0
        /\ ~ Fillable(d) /\ Key(d) = Key(o)
    <2>1. d \in OrderRow BY <1>2, NewOrderIsTyped
    <2>2. /\ SameTerms(d, o) /\ d.filled = 0 /\ d.value = 0 /\ d.held = 0
          /\ d.status = "CANCELLED"
      BY <1>1, <1>2 DEF OrderRow, SameTerms
    <2>3. Key(d) = Key(o) BY <2>2 DEF Key, SameTerms
    <2>4. ~ Fillable(d) BY <2>2 DEF Fillable, FILLABLE_STATUSES
    <2> QED BY <2>1, <2>2, <2>3, <2>4
  <1>4. PICK z, w : /\ z = [x EXCEPT !.orders = Append(@, o)]
                    /\ w = [x EXCEPT !.orders = Append(@, d)]
    OBVIOUS
  <1>5. /\ Extended(x, z, i) /\ z.orders[i] = o /\ z.ok = x.ok
        /\ z.position = x.position /\ z.wallet = x.wallet /\ z.locked = x.locked
    BY <1>1, <1>4, BookExtended DEF Longer
  <1>6. Longer(x, w, d, i)
    <2>1. d.filled <= d.quantity BY <1>1, <1>3 DEF SameTerms
    <2> QED BY <1>3, <1>4, <2>1, BookExtended
  <1>7. /\ z \in Books /\ w \in Books /\ i \in DOMAIN z.orders
        /\ DOMAIN w.orders = DOMAIN z.orders
        /\ \A j \in DOMAIN z.orders \ {i} : w.orders[j] = z.orders[j]
    BY <1>5, <1>6 DEF Extended, Longer
  <1>8. /\ Extended(x, w, i) /\ w.orders[i] = d /\ w.ok = x.ok
        /\ w.position = x.position /\ w.wallet = x.wallet /\ w.locked = x.locked
        /\ \A k : Offers(w.orders, k) = Offers(x.orders, k) + Offered(d, k)
        /\ \A u : Holds(w.orders, u) = Holds(x.orders, u) + HeldFor(d, u)
    BY <1>6 DEF Longer
  <1>zero. PICK zero \in Int : zero = 0 OBVIOUS
  <1>h. PICK h \in Int : h = IF o.side = "BUY" THEN o.quantity * o.price ELSE 0
    BY <1>1, ProductsAreTyped
  <1>a. PICK a \in Int : a = - h BY <1>h
  <1>e. PICK e \in Int : e = IF o.side = "BUY" THEN 0 ELSE o.quantity BY <1>1
  <1>9. PICK k : k = Key(o) OBVIOUS
  <1>10. /\ Touched(z, y, i) /\ SameStatus(z, y, i)
         /\ y.ok => /\ Moved(z, y, i, zero, zero, h, a, h, zero, e, zero)
                    /\ NotOversold(y, k) \/ y.position = x.position
    <2>1. CASE o.side = "BUY"
      <3>1. y = Post(z, i, a, h)
        <4>1. h = o.quantity * o.price BY <1>zero, <1>h, <1>a, <1>e, <1>9, <2>1
        <4> QED BY <1>4, <1>zero, <1>h, <1>a, <1>e, <1>9, <2>1, <4>1 DEF Insert, Reserve
      <3>2. Touched(z, y, i) /\ SameStatus(z, y, i)
            /\ (y.ok => Moved(z, y, i, 0, 0, h, a, h, 0, 0, 0))
        BY <1>7, <3>1, PostMoves
      <3>3. Posted(z, i, a, h, y) BY <1>7, <3>1, PostIs
      <3>4. y.ok => y.position = x.position BY <1>5, <3>3 DEF Posted
      <3>5. e = zero BY <1>zero, <1>h, <1>a, <1>e, <1>9, <2>1
      <3> QED BY <1>zero, <1>h, <1>a, <1>e, <1>9, <3>2, <3>4, <3>5
    <2>2. CASE o.side # "BUY"
      <3>1. h = zero /\ a = zero /\ e = o.quantity
        <4>1. h = 0 BY <1>zero, <1>h, <1>a, <1>e, <1>9, <2>2
        <4>2. a = 0
          <5>1. a + h = 0 BY <1>a, <1>h
          <5>2. a \in Int BY <1>a
          <5> QED BY <4>1, <5>1, <5>2
        <4> QED BY <1>zero, <1>h, <1>a, <1>e, <1>9, <2>2, <4>1, <4>2
      <3>2. y = Adjust(z, k, zero, e, zero)
        BY <1>4, <1>zero, <1>h, <1>a, <1>e, <1>9, <2>2, <3>1 DEF Insert
      <3>3. k = Key(z.orders[i]) /\ k \in Keys
        BY <1>5, <1>7, <1>zero, <1>h, <1>a, <1>e, <1>9, OrderIsTyped
      <3>4. CostStays(z, k, zero, e, zero)
        <4>1. z.position[k].cost \in Nat BY <1>7, <3>3, OrderIsTyped DEF Position
        <4> QED BY <1>zero, <1>h, <1>a, <1>e, <1>9, <4>1 DEF CostStays
      <3>5. Touched(z, y, i) /\ SameStatus(z, y, i)
        BY <1>7, <1>zero, <1>h, <1>a, <1>e, <1>9, <3>2, <3>3, <3>4, AdjustMoves
      <3>6. y.ok => Moved(z, y, i, 0, 0, 0, 0, 0, zero, e, zero)
        BY <1>7, <1>zero, <1>h, <1>a, <1>e, <1>9, <3>2, <3>3, <3>4, AdjustMoves
      <3>7. ASSUME y.ok PROVE NotOversold(y, k)
        <4>1. z \in Books /\ i \in DOMAIN z.orders /\ zero \in Int /\ e \in Int
          BY <1>7, <1>zero, <1>e
        <4> QED BY <3>2, <3>3, <3>4, <3>7, <4>1, AdjustMoves
      <3> QED BY <1>zero, <1>h, <1>a, <1>e, <1>9, <3>1, <3>5, <3>6, <3>7
    <2> QED BY <2>1, <2>2
  <1>11. PICK n : n = y.orders[i] OBVIOUS
  <1>12. /\ SameTerms(n, o) /\ n.status = "OPEN" /\ Fillable(n) /\ Extended(x, y, i)
    <2>1. SameTerms(n, o) /\ n.status = "OPEN" BY <1>1, <1>5, <1>10, <1>11 DEF Touched, SameStatus
    <2>2. Fillable(n) BY <2>1 DEF Fillable, FILLABLE_STATUSES
    <2>3. /\ y \in Books /\ DOMAIN y.orders = DOMAIN z.orders
          /\ \A j \in DOMAIN z.orders \ {i} : y.orders[j] = z.orders[j]
      BY <1>10 DEF Touched
    <2>4. Len(y.orders) = Len(z.orders) BY <1>7, <2>3, OrdersAreFinite DEF Books
    <2> QED BY <1>5, <2>1, <2>2, <2>3, <2>4 DEF Extended
  <1>13. ASSUME y.ok
         PROVE  /\ Moved(w, y, i, zero, zero, h, a, h, zero, e, zero)
                /\ n.filled = 0 /\ n.value = 0 /\ n.held = h
    <2>1. Moved(z, y, i, zero, zero, h, a, h, zero, e, zero) BY <1>10, <1>13
    <2>2. OnlyOrder(z, y, i) /\ z.ok BY <2>1 DEF Moved
    <2>3. SameTerms(n, d) /\ d.user = o.user BY <1>3, <1>12 DEF SameTerms
    <2>4. Touched(w, y, i) BY <1>5, <1>8, <1>7, <1>11, <2>2, <2>3 DEF Touched, OnlyOrder
    <2>5. OnlyOrder(w, y, i) BY <1>3, <1>5, <1>8, <2>2, <2>3, <2>4 DEF OnlyOrder
    <2>6. /\ n.filled = 0 + zero /\ n.value = 0 + zero /\ n.held = 0 + h
      BY <1>1, <1>5, <1>11, <2>1 DEF Moved
    <2>7. n.filled = 0 /\ n.value = 0 /\ n.held = h BY <1>zero, <1>h, <1>a, <1>e, <1>9, <2>6
    <2>8. n.filled = d.filled + zero /\ n.value = d.value + zero /\ n.held = d.held + h
      BY <1>3, <2>6
    <2>9. PICK u : u = o.user OBVIOUS
    <2>10. /\ y.wallet[u].available = x.wallet[u].available + a
           /\ y.wallet[u].reserved = x.wallet[u].reserved + h
           /\ y.position[k].quantity = x.position[k].quantity + zero
           /\ y.position[k].reserved = x.position[k].reserved + e
           /\ y.position[k].cost = x.position[k].cost + zero
      BY <1>5, <1>zero, <1>h, <1>a, <1>e, <1>9, <2>1, <2>9 DEF Moved
    <2>11. Moved(w, y, i, zero, zero, h, a, h, zero, e, zero)
      BY <1>3, <1>5, <1>8, <1>zero, <1>h, <1>a, <1>e, <1>9, <1>11, <2>2, <2>3, <2>5, <2>8, <2>9, <2>10 DEF Moved
    <2> QED BY <2>7, <2>11
  <1>14. ASSUME y.ok PROVE x.ok /\ y.locked = x.locked BY <1>5, <1>10, <1>14 DEF Touched
  <1>15. ASSUME y.ok, OffersBacked(x) PROVE OffersBacked(y)
    <2>1. OffersBacked(w)
      <3> SUFFICES ASSUME NEW g \in Keys
                   PROVE  /\ w.position[g].reserved <= w.position[g].quantity
                          /\ w.position[g].reserved = Offers(w.orders, g)
        BY DEF OffersBacked
      <3>1. /\ x.position[g].reserved <= x.position[g].quantity
            /\ x.position[g].reserved = Offers(x.orders, g)
        BY <1>15 DEF OffersBacked
      <3>2. Offered(d, g) = 0 BY <1>3 DEF Offered
      <3>3. x.position[g].reserved \in Nat BY DEF Books, Position
      <3> QED BY <1>8, <3>1, <3>2, <3>3
    <2>2. NotOversold(y, k)
      <3>1. CASE y.position = x.position
        <4>1. k \in Keys BY <1>5, <1>7, <1>zero, <1>h, <1>a, <1>e, <1>9, OrderIsTyped
        <4> QED BY <1>15, <3>1, <4>1 DEF OffersBacked, NotOversold
      <3> QED BY <1>10, <1>15, <3>1
    <2>3. Offered(d, k) = 0 /\ k = Key(d) BY <1>3, <1>9 DEF Offered
    <2>4. Offered(n, k) = e
      <3>1. CASE o.side = "BUY"
        BY <1>zero, <1>h, <1>a, <1>e, <1>9, <1>12, <3>1 DEF Offered, SameTerms
      <3>2. CASE o.side # "BUY"
        <4>1. n.side = "SELL" /\ Key(n) = k
          BY <1>1, <1>zero, <1>h, <1>a, <1>e, <1>9, <1>12, <3>2 DEF SameTerms, Key
        <4>2. Remaining(n) = o.quantity BY <1>1, <1>12, <1>13, <1>15 DEF Remaining, SameTerms
        <4> QED BY <1>zero, <1>h, <1>a, <1>e, <1>9, <1>12, <3>2, <4>1, <4>2 DEF Offered
      <3> QED BY <3>1, <3>2
    <2>5. Offered(n, k) - Offered(d, k) = e BY <1>zero, <1>h, <1>a, <1>e, <1>9, <2>3, <2>4
    <2>6. Moved(w, y, i, zero, zero, h, a, h, zero, e, zero) /\ d = w.orders[i]
      BY <1>8, <1>13, <1>15
    <2>7. e \in Int /\ n = y.orders[i] /\ k = Key(d) BY <1>e, <1>11, <2>3
    <2>8. OfferGrows(w, y, i, k, e) BY <2>5, <2>6, <2>7 DEF OfferGrows
    <2> QED BY <2>1, <2>2, <2>6, <2>7, <2>8, OffersFollow
  <1>16. ASSUME y.ok, FundsBacked(x) PROVE FundsBacked(y)
    <2>1. FundsBacked(w)
      <3>1. ASSUME NEW u \in Users PROVE w.wallet[u].reserved = Holds(w.orders, u)
        <4>1. x.wallet[u].reserved = Holds(x.orders, u) /\ x.wallet[u].reserved \in Nat
          BY <1>16 DEF FundsBacked, Books, Balance
        <4>2. HeldFor(d, u) = 0 BY <1>3 DEF HeldFor
        <4> QED BY <1>8, <4>1, <4>2
      <3>2. HeldAsNeeded(d) /\ WithinLimit(d) BY <1>1, <1>3 DEF HeldAsNeeded, SameTerms, WithinLimit
      <3>3. ASSUME NEW j \in DOMAIN w.orders
            PROVE  HeldAsNeeded(w.orders[j]) /\ WithinLimit(w.orders[j])
        <4>1. CASE j = i BY <1>8, <3>2, <4>1
        <4>2. CASE j # i BY <1>8, <1>16, <4>2 DEF Extended, FundsBacked
        <4> QED BY <4>1, <4>2
      <3> QED BY <3>1, <3>3 DEF FundsBacked
    <2>2. WithinLimit(n)
      <3>1. n.price \in Nat BY <1>1, <1>12 DEF SameTerms
      <3>2. 0 * n.price = 0 BY <3>1
      <3> QED BY <1>13, <1>16, <3>2 DEF WithinLimit
    <2>3. HeldAsNeeded(n)
      <3>1. Remaining(n) = o.quantity /\ n.price = o.price /\ n.side = o.side
        BY <1>1, <1>12, <1>13, <1>16 DEF Remaining, SameTerms
      <3>2. n.held = h BY <1>13, <1>16
      <3>3. h = IF o.side = "BUY" THEN o.quantity * o.price ELSE 0
        BY <1>zero, <1>h, <1>a, <1>e, <1>9
      <3> QED BY <1>12, <3>1, <3>2, <3>3 DEF HeldAsNeeded
    <2>4. Moved(w, y, i, zero, zero, h, a, h, zero, e, zero) BY <1>13, <1>16
    <2>5. h \in Int /\ n = y.orders[i] /\ h = h BY <1>h, <1>11
    <2> QED BY <2>1, <2>2, <2>3, <2>4, <2>5, MovedFunds
  <1>17. ASSUME y.ok
         PROVE  /\ Money(y.wallet) = Money(x.wallet)
                /\ \A g \in Outcomes : Shares(y.position, g) = Shares(x.position, g)
    <2>1. Balanced(w, y, d.outcome, a + h, zero)
      BY <1>8, <1>zero, <1>h, <1>a, <1>e, <1>9, <1>13, <1>17, MovedSums
    <2>2. a + h = 0 BY <1>zero, <1>h, <1>a, <1>e, <1>9
    <2>3. Money(x.wallet) \in Int /\ \A g \in Outcomes : Shares(x.position, g) \in Int
      BY MoneyIsInteger
    <2>4. Money(y.wallet) = Money(x.wallet)
      <3>1. Money(y.wallet) = Money(x.wallet) + 0 BY <1>8, <2>1, <2>2 DEF Balanced
      <3> QED BY <2>3, <3>1
    <2>5. ASSUME NEW g \in Outcomes PROVE Shares(y.position, g) = Shares(x.position, g)
      <3>1. Shares(x.position, g) \in Int BY <2>3
      <3>2. CASE g = d.outcome
        <4>1. Shares(y.position, g) = Shares(x.position, g) + 0
          BY <1>8, <1>zero, <1>h, <1>a, <1>e, <1>9, <2>1, <3>2 DEF Balanced
        <4> QED BY <3>1, <4>1
      <3>3. CASE g # d.outcome BY <1>8, <2>1, <3>3 DEF Balanced
      <3> QED BY <3>2, <3>3
    <2> QED BY <2>4, <2>5
  <1>18. Conserves(x, y) BY <1>14, <1>15, <1>16, <1>17 DEF Conserves
  <1> QED BY <1>11, <1>12, <1>18

-----------------------------------------------------------------------------
(* A placement.                                                            *)
LEMMA MatchOrderConserves ==
    ASSUME NEW x \in Books, NEW i \in DOMAIN x.orders, txn.makers \subseteq DOMAIN x.orders,
           i \notin txn.makers, NEW y, y = MatchOrder(x, i)
    PROVE  Conserves(x, y) /\ Within(x, y, DOMAIN x.orders)
  <1>1. PICK S, c : S = txn.makers /\ c = MatchBook(x, i, S) OBVIOUS
  <1>2. Conserves(x, c) /\ Within(x, c, DOMAIN x.orders)
    BY <1>1, MatchBookConserves DEF Matched, Within
  <1>3. y = IF ~ txn.matches THEN x
            ELSE IF c.ok /\ Live(c.orders[i]) THEN MatchComplements(c, i) ELSE c
    BY <1>1 DEF MatchOrder
  <1>4. CASE y = x BY <1>4, ConservesItself, WithinItself
  <1>5. CASE y = c BY <1>2, <1>5
  <1>6. CASE Live(c.orders[i]) /\ y = MatchComplements(c, i)
    <2>1. c \in Books /\ DOMAIN c.orders = DOMAIN x.orders BY <1>2 DEF Within
    <2>2. Conserves(c, y) /\ Within(c, y, DOMAIN x.orders)
      <3>1. Conserves(c, y) /\ Within(c, y, Complements(c, i) \cup {i})
        BY <1>6, <2>1, MatchComplementsConserves DEF Completed
      <3>2. Complements(c, i) \cup {i} \subseteq DOMAIN x.orders BY <2>1 DEF Complements
      <3> QED BY <3>1, <3>2 DEF Within
    <2> QED BY <1>2, <2>2, ConservesTwice, WithinTwice
  <1> QED BY <1>3, <1>4, <1>5, <1>6

LEMMA PlacedConserves ==
    ASSUME NEW x \in Books, txn.request \in Requests, txn.makers \subseteq DOMAIN x.orders,
           NEW y, y = Placed(x)
    PROVE  /\ Conserves(x, y) /\ y \in Books /\ DOMAIN x.orders \subseteq DOMAIN y.orders
           /\ DoneStands(x, y)
  <1>1. PICK o, i, z, w : /\ o = NewOrder(txn.request) /\ i = Len(x.orders) + 1
                          /\ z = Insert(x, o) /\ w = MatchOrder(z, i)
    OBVIOUS
  <1>2. Extended(x, z, i) /\ Conserves(x, z) BY <1>1, InsertConserves
  <1>3. z \in Books /\ i \in DOMAIN z.orders /\ DOMAIN x.orders \subseteq DOMAIN z.orders
    BY <1>2 DEF Extended
  <1>4. Conserves(z, w) /\ Within(z, w, DOMAIN z.orders)
    <2>1. txn.makers \subseteq DOMAIN z.orders /\ i \notin txn.makers BY <1>2, <1>3 DEF Extended
    <2> QED BY <1>1, <1>3, <2>1, MatchOrderConserves
  <1>5. w \in Books /\ DOMAIN w.orders = DOMAIN z.orders /\ DoneStands(z, w) BY <1>4 DEF Within
  <1>6. Conserves(x, w) BY <1>2, <1>4, ConservesTwice
  <1>stands. DoneStands(x, w) BY <1>2, <1>5 DEF Extended, Longer, DoneStands
  <1>7. y = IF w.ok /\ o.tif \in {"IOC", "FOK"} /\ Fillable(w.orders[i])
            THEN CancelLockedOrder(w, i) ELSE w
    BY <1>1 DEF Placed
  <1>8. CASE y = w BY <1>3, <1>5, <1>6, <1>stands, <1>8
  <1>9. CASE Fillable(w.orders[i]) /\ y = CancelLockedOrder(w, i)
    <2>1. "CANCELLED" \in OrderStatuses \ FILLABLE_STATUSES BY DEF OrderStatuses, FILLABLE_STATUSES
    <2>2. PICK s : s = "CANCELLED" OBVIOUS
    <2>3. y = EndOrder(w, i, s) /\ s \in OrderStatuses \ FILLABLE_STATUSES
      BY <1>9, <2>1, <2>2 DEF CancelLockedOrder
    <2>4. Conserves(w, y) /\ Within(w, y, {i}) BY <1>3, <1>5, <1>9, <2>3, EndOrderConserves
    <2>5. y \in Books /\ DOMAIN y.orders = DOMAIN w.orders /\ DoneStands(w, y) BY <2>4 DEF Within
    <2>7. DoneStands(x, y) BY <1>3, <1>5, <1>stands, <2>5 DEF DoneStands
    <2>6. Conserves(x, y) BY <1>6, <2>4, ConservesTwice
    <2> QED BY <1>3, <1>5, <2>5, <2>6, <2>7
  <1> QED BY <1>7, <1>8, <1>9

-----------------------------------------------------------------------------
(* The invariant. Until the payout, every operation on the book keeps what *)
(* the three properties say; the payout itself leaves no active order, so  *)
(* that nothing moves afterwards.                                          *)
SharesMatch(x) == \A o \in Outcomes : Shares(x.position, o) = x.locked
MoneyMatches(x) == Money(x.wallet) + Unit * x.locked = InitialFunds * Cardinality(Users)
Sound(x) == OffersBacked(x) /\ FundsBacked(x) /\ SharesMatch(x) /\ MoneyMatches(x)

Placement ==
    [request : Requests, locked : BOOLEAN, matches : BOOLEAN, makers : SUBSET DOMAIN orders]

Over == txn = None /\ status \in {"RESOLVED", "VOIDED"} /\ ActiveOrders(book) = {}

MarketTyped ==
    /\ now \in 0..MaxTime
    /\ status \in {"OPEN", "SUSPENDED", "CLOSED", "RESOLVED", "VOIDED"}
    /\ winner \in Outcomes \cup {None} /\ (status = "RESOLVED" => winner \in Outcomes)
    /\ payout \in {"none", "settled", "refunded"}
    /\ txn = None \/ txn \in Placement

PaidOut ==
    /\ Over /\ FundsBacked(book)
    /\ \A k \in Keys : position[k] = NoPosition
    /\ payout = "settled" => MoneyMatches(book)

TradingInv ==
    /\ MarketTyped /\ book \in Books
    /\ payout = "none" => Sound(book)
    /\ payout # "none" => PaidOut

LEMMA StaysSound ==
    ASSUME NEW x \in Books, NEW y \in Books, Conserves(x, y), y.ok, Sound(x)
    PROVE  Sound(y)
  <1>1. /\ OffersBacked(y) /\ FundsBacked(y)
        /\ Money(y.wallet) + Unit * y.locked = Money(x.wallet) + Unit * x.locked
        /\ \A o \in Outcomes :
              Shares(y.position, o) - y.locked = Shares(x.position, o) - x.locked
    BY DEF Conserves, Sound
  <1>2. MoneyMatches(y) BY <1>1 DEF Sound, MoneyMatches
  <1>3. ASSUME NEW o \in Outcomes PROVE Shares(y.position, o) = y.locked
    BY <1>1, MoneyIsInteger DEF Sound, SharesMatch, Books
  <1> QED BY <1>1, <1>2, <1>3 DEF Sound, SharesMatch

(* A transaction either raises and changes nothing, or replaces the book.  *)
LEMMA CommitIs ==
    ASSUME NEW b \in Books, Commit(b), book \in Books
    PROVE  (b.ok /\ book' = b) \/ (~ b.ok /\ book' = book)
  <1>1. CASE b.ok BY <1>1 DEF Commit, book, Books
  <1>2. CASE ~ b.ok BY <1>2 DEF Commit, book
  <1> QED BY <1>1, <1>2

LEMMA CommitStaysSound ==
    ASSUME NEW b \in Books, Commit(b), book \in Books, Sound(book), Conserves(book, b),
           DOMAIN book.orders \subseteq DOMAIN b.orders
    PROVE  book' \in Books /\ Sound(book)' /\ DOMAIN orders \subseteq DOMAIN orders'
  <1>1. (b.ok /\ book' = b) \/ (~ b.ok /\ book' = book) BY CommitIs
  <1>2. book.orders = orders /\ book'.orders = orders' BY DEF book
  <1>3. Sound(book')
    <2>1. CASE b.ok /\ book' = b BY <2>1, StaysSound
    <2>2. CASE book' = book BY <2>2
    <2> QED BY <1>1, <2>1, <2>2
  <1>4. Sound(book)' BY <1>3 DEF Sound, OffersBacked, FundsBacked, SharesMatch, MoneyMatches
  <1> QED BY <1>1, <1>2, <1>4

(* The new order is live unless its deadline has passed meanwhile.         *)
LEMMA NewOrderIsLive ==
    ASSUME NEW x \in Books, NEW r \in Requests, NEW o, o = NewOrder(r), NEW y, y = Insert(x, o),
           NEW i, i = Len(x.orders) + 1
    PROVE  Live(y.orders[i]) <=> ~ Elapsed(o)
  <1>1. /\ o \in OrderRow /\ o.filled = 0 /\ o.filled <= o.quantity
        /\ o.side \in {"BUY", "SELL"} /\ o.quantity \in Nat \ {0} /\ o.price \in Nat
    <2>1. /\ o \in OrderRow /\ o.filled = 0 /\ o.side \in {"BUY", "SELL"} /\ o.quantity = r.quantity
          /\ o.price \in Nat
      BY NewOrderIsTyped
    <2>2. r.quantity \in Nat \ {0} BY TradingAssumption
    <2> QED BY <2>1, <2>2
  <1>2. PICK z : z = [x EXCEPT !.orders = Append(@, o)] OBVIOUS
  <1>3. z \in Books /\ i \in DOMAIN z.orders /\ z.orders[i] = o
    BY <1>1, <1>2, BookExtended DEF Longer, Extended
  <1>4. y.orders[i].filled = 0
    <2>1. CASE o.side = "BUY"
      <3>1. PICK a \in Int, h \in Int : h = o.quantity * o.price /\ a = - h
        BY <1>1, ProductsAreTyped
      <3>2. y = Post(z, i, a, h) BY <1>2, <2>1, <3>1 DEF Insert, Reserve
      <3>3. Posted(z, i, a, h, y) BY <1>3, <3>2, PostIs
      <3> QED BY <1>1, <1>3, <3>3 DEF Posted, OrderRow
    <2>2. CASE o.side # "BUY"
      <3>k. PICK k : k = Key(o) OBVIOUS
      <3>e. PICK e \in Int : e = o.quantity BY <1>1
      <3>zero. PICK zero \in Int : zero = 0 OBVIOUS
      <3>2. y = Adjust(z, k, zero, e, zero) BY <1>2, <2>2, <3>k, <3>e, <3>zero DEF Insert
      <3>3. k \in Keys /\ z.position \in [Keys -> Position]
        BY <1>3, <3>k, <3>e, <3>zero, OrderIsTyped
      <3>4. CostStays(z, k, zero, e, zero)
        <4>1. z.position[k].cost \in Nat BY <3>3 DEF Position
        <4> QED BY <3>k, <3>e, <3>zero, <4>1 DEF CostStays
      <3>5. Adjusted(z, k, zero, e, zero, y)
        BY <1>3, <3>k, <3>e, <3>zero, <3>2, <3>3, <3>4, AdjustIs
      <3> QED BY <1>1, <1>3, <3>5 DEF Adjusted
    <2> QED BY <2>1, <2>2
  <1>5. SameTerms(y.orders[i], o) /\ Fillable(y.orders[i]) BY InsertConserves
  <1>6. Remaining(y.orders[i]) > 0 BY <1>1, <1>4, <1>5 DEF SameTerms, Remaining
  <1> QED BY <1>5, <1>6 DEF Live, Elapsed, SameTerms

(* The market after a placement: order i can trade with nobody any more,   *)
(* and of an order it was filled against all that come first are used up.  *)
Before(x, i, n, m) ==
    IF x.orders[m].side = x.orders[i].side
    THEN n < m /\ x.orders[i].price + x.orders[n].price >= Unit
    ELSE Leads(x, i, n, m)

NobodyLeft(x, y, i) ==
    Live(y.orders[i]) =>
        \A m \in DOMAIN x.orders \ {i} :
            Live(y.orders[m]) => ~ MayTrade(x.orders[i], x.orders[m])

InOrder(x, y, i) ==
    \A n, m \in DOMAIN x.orders \ {i} :
        /\ y.orders[m] # x.orders[m] /\ Live(x.orders[n])
        /\ x.orders[n].user # x.orders[i].user
        /\ x.orders[n].side = x.orders[m].side /\ x.orders[n].outcome = x.orders[m].outcome
        /\ Before(x, i, n, m)
        => Remaining(y.orders[n]) = 0

(* What LockMakers has found out about a book.                             *)
AllFound(x, t) ==
    \A m \in DOMAIN x.orders : Live(x.orders[m]) /\ Crosses(t, x.orders[m]) => m \in txn.makers

LEMMA LeadersCross ==
    ASSUME NEW x \in Books, NEW i \in DOMAIN x.orders, NEW n \in DOMAIN x.orders,
           NEW m \in DOMAIN x.orders, Crosses(x.orders[i], x.orders[m]),
           x.orders[n].user # x.orders[i].user, x.orders[n].side = x.orders[m].side,
           x.orders[n].outcome = x.orders[m].outcome, Before(x, i, n, m)
    PROVE  Leads(x, i, n, m) /\ Crosses(x.orders[i], x.orders[n])
  <1>1. Leads(x, i, n, m) BY DEF Before, Crosses
  <1>2. /\ x.orders[i].price \in Nat /\ x.orders[n].price \in Nat /\ x.orders[m].price \in Nat
    BY OrderIsTyped, SidesOfOutcomes
  <1>3. PICK a \in Nat, b \in Nat, c \in Nat :
            a = x.orders[i].price /\ b = x.orders[n].price /\ c = x.orders[m].price
    BY <1>2
  <1>4. IF x.orders[i].side = "BUY" THEN b <= c ELSE b >= c BY <1>1, <1>3 DEF Leads
  <1>5. IF x.orders[i].side = "BUY" THEN b <= a ELSE b >= a BY <1>3, <1>4 DEF Crosses
  <1> QED BY <1>1, <1>3, <1>5 DEF Crosses

LEMMA MatchOrderTrades ==
    ASSUME NEW x \in Books, NEW i \in DOMAIN x.orders, txn.makers \subseteq DOMAIN x.orders,
           i \notin txn.makers, txn.matches => AllFound(x, x.orders[i]),
           NEW y, y = MatchOrder(x, i)
    PROVE  /\ Trades(x, y)
           /\ y.ok => InOrder(x, y, i) /\ (txn.matches => NobodyLeft(x, y, i))
  <1>1. PICK S, c : S = txn.makers /\ c = MatchBook(x, i, S) OBVIOUS
  <1>2. y = IF ~ txn.matches THEN x
            ELSE IF c.ok /\ Live(c.orders[i]) THEN MatchComplements(c, i) ELSE c
    BY <1>1 DEF MatchOrder
  <1>3. CASE ~ txn.matches BY <1>2, <1>3, TradesItself DEF InOrder
  <1>4. ASSUME txn.matches
        PROVE  /\ Trades(x, y)
               /\ y.ok => InOrder(x, y, i) /\ NobodyLeft(x, y, i)
    <2>1. S \in SUBSET DOMAIN x.orders /\ i \notin S BY <1>1
    <2>2. Matched(x, c, i, S) BY <1>1, <2>1, MatchBookConserves
    <2>3. Within(x, c, S \cup {i}) /\ Trades(x, c) BY <2>2 DEF Matched
    <2>4. /\ c \in Books /\ DOMAIN c.orders = DOMAIN x.orders
          /\ \A j \in DOMAIN x.orders : SameTerms(c.orders[j], x.orders[j])
      BY <2>3 DEF Within
    <2>5. CASE ~(c.ok /\ Live(c.orders[i]))
      <3>1. y = c BY <1>2, <1>4, <2>5
      <3>2. ASSUME y.ok PROVE NobodyLeft(x, y, i) BY <2>5, <3>1, <3>2 DEF NobodyLeft
      <3>3. ASSUME y.ok PROVE InOrder(x, y, i)
        <4> SUFFICES ASSUME NEW n \in DOMAIN x.orders \ {i}, NEW m \in DOMAIN x.orders \ {i},
                            c.orders[m] # x.orders[m], Live(x.orders[n]),
                            x.orders[n].user # x.orders[i].user,
                            x.orders[n].side = x.orders[m].side,
                            x.orders[n].outcome = x.orders[m].outcome, Before(x, i, n, m)
                     PROVE  Remaining(c.orders[n]) = 0
          BY <3>1 DEF InOrder
        <4>1. m \in S /\ Crosses(x.orders[i], x.orders[m]) BY <2>2 DEF Matched
        <4>2. Leads(x, i, n, m) /\ Crosses(x.orders[i], x.orders[n]) BY <4>1, LeadersCross
        <4>3. n \in S BY <1>1, <1>4, <4>2 DEF AllFound
        <4>4. LeadersAreUsedUp(x, c, i, S) BY <2>2, <3>1, <3>3 DEF Matched
        <4> QED BY <4>1, <4>2, <4>3, <4>4 DEF LeadersAreUsedUp
      <3> QED BY <2>3, <3>1, <3>2, <3>3
    <2>6. CASE c.ok /\ Live(c.orders[i])
      <3>1. PICK T : T = Complements(c, i) OBVIOUS
      <3>2. y = MatchComplements(c, i) BY <1>2, <1>4, <2>6
      <3>3. Completed(c, y, i, T) BY <2>4, <2>6, <3>1, <3>2, MatchComplementsConserves
      <3>4. Within(c, y, T \cup {i}) /\ Trades(c, y) BY <3>3 DEF Completed
      <3>5. Trades(x, y) BY <2>3, <3>4, TradesTwice
      <3>6. /\ i \in DOMAIN c.orders
            /\ \A j \in DOMAIN x.orders \ (T \cup {i}) : y.orders[j] = c.orders[j]
        BY <2>4, <3>4 DEF Within
      <3>7. \A j \in DOMAIN x.orders : j \in T <=>
                /\ c.orders[i].side = "BUY" /\ c.orders[j].side = "BUY"
                /\ c.orders[j].outcome # c.orders[i].outcome /\ c.orders[j].user # c.orders[i].user
                /\ Fillable(c.orders[j]) /\ Remaining(c.orders[j]) > 0
        BY <2>4, <3>1 DEF Complements
      <3>8. \A j \in DOMAIN x.orders : j \in T <=>
                /\ x.orders[i].side = "BUY" /\ x.orders[j].side = "BUY"
                /\ x.orders[j].outcome # x.orders[i].outcome /\ x.orders[j].user # x.orders[i].user
                /\ Fillable(c.orders[j]) /\ Remaining(c.orders[j]) > 0
        BY <2>4, <3>7 DEF SameTerms
      <3>9. ASSUME y.ok PROVE NobodyLeft(x, y, i)
        <4> SUFFICES ASSUME Live(y.orders[i]), NEW m \in DOMAIN x.orders \ {i}, Live(y.orders[m]),
                            MayTrade(x.orders[i], x.orders[m])
                     PROVE  FALSE
          BY DEF NobodyLeft
        <4>1. Live(c.orders[m]) /\ Live(x.orders[m])
          <5>1. Advances(c.orders[m], y.orders[m]) /\ Advances(x.orders[m], c.orders[m])
            BY <2>3, <2>4, <2>6, <3>4, <3>9 DEF Trades
          <5> QED BY <5>1 DEF Advances
        <4>2. CASE Crosses(x.orders[i], x.orders[m])
          <5>1. m \in S BY <1>1, <1>4, <4>1, <4>2 DEF AllFound
          <5>2. ~ Eligible(c, i, m) BY <2>2, <2>6, <5>1 DEF Matched
          <5>3. Crosses(c.orders[i], c.orders[m]) BY <2>4, <4>2, TermsDecide
          <5> QED BY <4>1, <5>2, <5>3, EligibleIs
        <4>3. CASE Pairs(x.orders[i], x.orders[m])
          <5>1. m \in T BY <3>8, <4>1, <4>3 DEF Pairs, Live
          <5>2. c.orders[i].price + c.orders[m].price >= Unit BY <2>4, <4>3 DEF Pairs, SameTerms
          <5>3. Remaining(y.orders[m]) = 0 BY <3>3, <3>9, <5>1, <5>2 DEF Completed, Live
          <5> QED BY <5>3 DEF Live
        <4> QED BY <4>2, <4>3 DEF MayTrade
      <3>10. ASSUME y.ok PROVE InOrder(x, y, i)
        <4> SUFFICES ASSUME NEW n \in DOMAIN x.orders \ {i}, NEW m \in DOMAIN x.orders \ {i},
                            y.orders[m] # x.orders[m], Live(x.orders[n]),
                            x.orders[n].user # x.orders[i].user,
                            x.orders[n].side = x.orders[m].side,
                            x.orders[n].outcome = x.orders[m].outcome, Before(x, i, n, m)
                     PROVE  Remaining(y.orders[n]) = 0
          BY DEF InOrder
        <4>1. CASE c.orders[m] # x.orders[m]
          <5>1. m \in S /\ Crosses(x.orders[i], x.orders[m]) BY <2>2, <4>1 DEF Matched
          <5>2. Leads(x, i, n, m) /\ Crosses(x.orders[i], x.orders[n]) BY <5>1, LeadersCross
          <5>3. n \in S BY <1>1, <1>4, <5>2 DEF AllFound
          <5>4. LeadersAreUsedUp(x, c, i, S) BY <2>2, <2>6 DEF Matched
          <5>5. Remaining(c.orders[n]) = 0 BY <4>1, <5>1, <5>2, <5>3, <5>4 DEF LeadersAreUsedUp
          <5>6. n \notin T BY <3>8, <5>2 DEF Crosses
          <5> QED BY <3>6, <5>5, <5>6
        <4>2. CASE c.orders[m] = x.orders[m]
          <5>1. m \in T BY <3>6, <4>2
          <5>2. /\ x.orders[i].side = "BUY" /\ x.orders[m].side = "BUY"
                /\ x.orders[m].outcome # x.orders[i].outcome
            BY <3>8, <5>1
          <5>3. n < m /\ x.orders[i].price + x.orders[n].price >= Unit BY <5>2 DEF Before
          <5>4. c.orders[n] = x.orders[n] BY <2>2, <5>2 DEF Matched, Crosses
          <5>5. n \in T BY <3>8, <5>2, <5>4 DEF Live
          <5>6. c.orders[i].price + c.orders[n].price >= Unit BY <2>4, <5>3 DEF SameTerms
          <5>7. ElderAreUsedUp(c, y, i, T) BY <3>3, <3>10 DEF Completed
          <5> QED BY <4>2, <5>1, <5>3, <5>5, <5>6, <5>7 DEF ElderAreUsedUp
        <4> QED BY <4>1, <4>2
      <3> QED BY <3>5, <3>9, <3>10
    <2> QED BY <2>5, <2>6
  <1> QED BY <1>3, <1>4

(* Orders only become less live.                                           *)
Wanes(x, y) ==
    /\ DOMAIN y.orders = DOMAIN x.orders
    /\ \A j \in DOMAIN x.orders : /\ SameTerms(y.orders[j], x.orders[j])
                                  /\ Live(y.orders[j]) => Live(x.orders[j])

LEMMA TradesWane ==
    ASSUME NEW x, NEW y, Trades(x, y), y.ok, DOMAIN y.orders = DOMAIN x.orders
    PROVE  Wanes(x, y)
  BY DEF Trades, Advances, Wanes

LEMMA WanesTwice ==
    ASSUME NEW x, NEW y, NEW z, Wanes(x, y), Wanes(y, z)
    PROVE  Wanes(x, z)
  BY DEF Wanes, SameTerms

LEMMA PlacedTrades ==
    ASSUME NEW x \in Books, txn.request \in Requests, txn.makers \subseteq DOMAIN x.orders,
           NEW o, o = NewOrder(txn.request), txn.matches => AllFound(x, o),
           ~ txn.matches => o.tif = "FOK" \/ Elapsed(o) \/ now >= ClosesAt,
           now \in Int, NEW y, y = Placed(x), y.ok, NEW i, i = Len(x.orders) + 1
    PROVE  \E z : /\ Extended(x, z, i) /\ SameTerms(z.orders[i], o) /\ Wanes(z, y)
                  /\ InOrder(z, y, i) /\ (now < ClosesAt => NobodyLeft(z, y, i))
  <1>1. PICK z, w : z = Insert(x, o) /\ w = MatchOrder(z, i) OBVIOUS
  <1>2. Extended(x, z, i) /\ SameTerms(z.orders[i], o) BY <1>1, InsertConserves
  <1>3. /\ z \in Books /\ i \in DOMAIN z.orders /\ i \notin DOMAIN x.orders
        /\ \A j \in DOMAIN x.orders : j \in DOMAIN z.orders /\ z.orders[j] = x.orders[j]
        /\ DOMAIN z.orders = DOMAIN x.orders \cup {i}
    BY <1>2 DEF Extended
  <1>4. txn.makers \subseteq DOMAIN z.orders /\ i \notin txn.makers BY <1>3
  <1>5. ASSUME txn.matches PROVE AllFound(z, z.orders[i])
    BY <1>2, <1>3, <1>5 DEF AllFound, Crosses, SameTerms
  <1>6. /\ Trades(z, w)
        /\ w.ok => InOrder(z, w, i) /\ (txn.matches => NobodyLeft(z, w, i))
    BY <1>1, <1>3, <1>4, <1>5, MatchOrderTrades
  <1>7. w \in Books /\ DOMAIN w.orders = DOMAIN z.orders
    BY <1>1, <1>3, <1>4, MatchOrderConserves DEF Within
  <1>8. y = IF w.ok /\ o.tif \in {"IOC", "FOK"} /\ Fillable(w.orders[i])
            THEN CancelLockedOrder(w, i) ELSE w
    BY <1>1 DEF Placed
  <1>9. CASE y = w /\ ~(w.ok /\ o.tif \in {"IOC", "FOK"} /\ Fillable(w.orders[i]))
    <2>1. ASSUME now < ClosesAt PROVE NobodyLeft(z, y, i)
      <3>1. CASE txn.matches BY <1>6, <1>9, <3>1
      <3>2. CASE ~ txn.matches
        <4>1. w = z BY <1>1, <3>2 DEF MatchOrder
        <4>2. o.tif = "FOK" \/ Elapsed(o) BY <2>1, <3>2, TradingAssumption
        <4>3. ~ Live(y.orders[i]) BY <1>2, <1>9, <4>1, <4>2 DEF Live, Elapsed, SameTerms
        <4> QED BY <4>3 DEF NobodyLeft
      <3> QED BY <3>1, <3>2
    <2>2. y.ok /\ Wanes(z, y) BY <1>6, <1>7, <1>9, TradesWane
    <2> QED BY <1>2, <1>6, <1>9, <2>1, <2>2
  <1>10. CASE Fillable(w.orders[i]) /\ y = CancelLockedOrder(w, i)
    <2>1. "CANCELLED" \in OrderStatuses \ FILLABLE_STATUSES BY DEF OrderStatuses, FILLABLE_STATUSES
    <2>2. y = EndOrder(w, i, "CANCELLED") BY <1>10 DEF CancelLockedOrder
    <2>3. Conserves(w, y) /\ Within(w, y, {i}) /\ ~ Fillable(y.orders[i])
      BY <1>3, <1>7, <1>10, <2>1, <2>2, EndOrderConserves
    <2>4. /\ w.ok /\ DOMAIN y.orders = DOMAIN w.orders
          /\ \A j \in DOMAIN w.orders \ {i} : y.orders[j] = w.orders[j]
      BY <2>3 DEF Conserves, Within
    <2>5. InOrder(z, y, i) BY <1>6, <1>7, <2>4 DEF InOrder
    <2>6. NobodyLeft(z, y, i) BY <2>3 DEF NobodyLeft, Live
    <2>7. Wanes(z, y)
      <3>1. Wanes(z, w) BY <1>6, <1>7, <2>4, TradesWane
      <3>2. \A j \in DOMAIN w.orders : /\ SameTerms(y.orders[j], w.orders[j])
                                       /\ Live(y.orders[j]) => Live(w.orders[j])
        BY <2>3, <2>4 DEF Within, Live
      <3>3. Wanes(w, y) BY <2>4, <3>2 DEF Wanes
      <3> QED BY <3>1, <3>3, WanesTwice
    <2> QED BY <1>2, <2>5, <2>6, <2>7
  <1> QED BY <1>8, <1>9, <1>10

LEMMA BookIs ==
    /\ book.orders = orders /\ book.position = position /\ book.wallet = wallet
    /\ book.locked = locked /\ book.ok
    /\ book \in Books <=>
          /\ orders \in OrderList /\ position \in [Keys -> Position]
          /\ wallet \in [Users -> Balance] /\ locked \in Nat
  BY DEF book, Books

LEMMA HeldIs ==
    ASSUME NEW o
    PROVE  Held(o, book) = Shares(position, o)
  <1> DEFINE f == [u \in Users |-> position[<<u, o>>].quantity]
  <1>1. Held(o, book) = SumFunction(f) BY BookIs DEF Held
  <1>2. SumFunction(f) = SumOf(f, DOMAIN f) /\ DOMAIN f = Users BY SumFunctionIsSum
  <1> QED BY <1>1, <1>2 DEF Shares

(* Settlement pays the winning shares out of what the pool holds.          *)
LEMMA SettlePays ==
    ASSUME TradingInv, Settle
    PROVE  /\ position' \in [Keys -> Position] /\ wallet' \in [Users -> Balance] /\ locked' = 0
           /\ \A u \in Users : wallet'[u].reserved = wallet[u].reserved
           /\ \A k \in Keys : position'[k] = NoPosition
           /\ Money(wallet') = InitialFunds * Cardinality(Users)
  <1>1. /\ winner \in Outcomes /\ Sound(book) /\ book \in Books
    BY DEF TradingInv, MarketTyped, Settle
  <1>2. /\ position \in [Keys -> Position] /\ wallet \in [Users -> Balance] /\ locked \in Nat
    BY <1>1, BookIs
  <1>3. /\ wallet' = [u \in Users |-> [wallet[u] EXCEPT !.available =
                                          @ + Unit * position[<<u, winner>>].quantity]]
        /\ position' = [k \in DOMAIN position |-> NoPosition]
        /\ locked' = locked - Shares(position, winner)
    BY HeldIs DEF Settle
  <1>4. Shares(position, winner) = locked BY <1>1, BookIs DEF Sound, SharesMatch
  <1>5. locked' = 0 BY <1>2, <1>3, <1>4
  <1>6. position' \in [Keys -> Position] /\ \A k \in Keys : position'[k] = NoPosition
    BY <1>2, <1>3 DEF NoPosition, Position
  <1>7. \A u \in Users : /\ <<u, winner>> \in Keys
                         /\ position[<<u, winner>>].quantity \in Nat
                         /\ wallet[u] \in Balance
    BY <1>1, <1>2 DEF Keys, Position
  <1>8. Unit \in Nat /\ IsFiniteSet(Users) BY TradingAssumption
  <1>9. \A u \in Users : /\ wallet'[u] \in Balance /\ wallet'[u].reserved = wallet[u].reserved
                         /\ wallet'[u].available =
                                wallet[u].available + Unit * position[<<u, winner>>].quantity
    BY <1>3, <1>7, <1>8 DEF Balance
  <1>10. wallet' \in [Users -> Balance] BY <1>3, <1>9
  <1>11. Money(wallet') = Money(wallet) + Unit * Shares(position, winner)
    <2> DEFINE f == [u \in Users |-> wallet[u].available + wallet[u].reserved]
               g == [u \in Users |-> position[<<u, winner>>].quantity]
               h == [u \in Users |-> wallet'[u].available + wallet'[u].reserved]
    <2>1. ASSUME NEW u \in Users PROVE f[u] \in Int /\ g[u] \in Int /\ h[u] = f[u] + Unit * g[u]
      BY <1>7, <1>8, <1>9 DEF Balance
    <2>2. /\ Money(wallet) = SumOf(f, Users) /\ Money(wallet') = SumOf(h, Users)
          /\ Shares(position, winner) = SumOf(g, Users)
      BY DEF Money, Shares
    <2> HIDE DEF f, g, h
    <2>3. PICK c \in Int : c = Unit BY <1>8
    <2>4. SumOf(h, Users) = SumOf(f, Users) + c * SumOf(g, Users) BY <1>8, <2>1, <2>3, SumIsLinear
    <2> QED BY <2>2, <2>3, <2>4
  <1>12. Money(wallet) + Unit * locked = InitialFunds * Cardinality(Users)
    BY <1>1, BookIs DEF Sound, MoneyMatches
  <1> QED BY <1>4, <1>5, <1>6, <1>9, <1>10, <1>11, <1>12

LEMMA SettleKeeps ==
    ASSUME TradingInv, Settle
    PROVE  TradingInv'
  <1>1. /\ position' \in [Keys -> Position] /\ wallet' \in [Users -> Balance] /\ locked' = 0
        /\ \A u \in Users : wallet'[u].reserved = wallet[u].reserved
        /\ \A k \in Keys : position'[k] = NoPosition
        /\ Money(wallet') = InitialFunds * Cardinality(Users)
    BY SettlePays
  <1>2. /\ txn = None /\ status = "RESOLVED" /\ payout' = "settled" /\ ActiveOrders(book) = {}
        /\ UNCHANGED <<now, status, winner, orders, txn>> /\ payout = "none"
    BY DEF Settle
  <1>3. book \in Books /\ MarketTyped /\ FundsBacked(book) BY <1>2 DEF TradingInv, Sound
  <1>4. MarketTyped' BY <1>2, <1>3 DEF MarketTyped
  <1>5. (book \in Books)'
    <2>1. orders' \in OrderList BY <1>2, <1>3, BookIs
    <2> QED BY <1>1, <2>1 DEF book, Books
  <1>6. book'.orders = book.orders /\ book'.wallet = wallet' /\ book'.locked = 0
    BY <1>1, <1>2 DEF book
  <1>7. FundsBacked(book)'
    <2>1. \A u \in Users : wallet[u].reserved = Holds(book.orders, u)
      BY <1>3, BookIs DEF FundsBacked
    <2>2. \A i \in DOMAIN book.orders : HeldAsNeeded(book.orders[i]) /\ WithinLimit(book.orders[i])
      BY <1>3 DEF FundsBacked
    <2> QED BY <1>1, <1>6, <2>1, <2>2 DEF FundsBacked
  <1>8. ActiveOrders(book)' = {} BY <1>2, <1>6 DEF ActiveOrders
  <1>9. MoneyMatches(book)'
    <2>1. Money(book'.wallet) + Unit * book'.locked = InitialFunds * Cardinality(Users)
      <3>1. Unit * 0 = 0 BY TradingAssumption
      <3>2. Money(wallet') \in Int BY <1>5, <1>6, MoneyIsInteger
      <3>3. Money(wallet') + 0 = InitialFunds * Cardinality(Users) BY <1>1, <3>2
      <3> QED BY <1>6, <3>1, <3>3
    <2> QED BY <2>1 DEF MoneyMatches
  <1>10. PaidOut'
    <2>1. Over' BY <1>2, <1>8 DEF Over
    <2> QED BY <1>1, <1>7, <1>9, <2>1 DEF PaidOut
  <1> QED BY <1>2, <1>4, <1>5, <1>10 DEF TradingInv

(* A refund cancels what is left of the orders and returns the cost of     *)
(* every position.                                                         *)
LEMMA RefundKeeps ==
    ASSUME TradingInv, Refund
    PROVE  TradingInv'
  <1>1. PICK b : b = CancelAll(book) OBVIOUS
  <1>2. /\ txn = None /\ status = "VOIDED" /\ payout = "none" /\ payout' = "refunded" /\ b.ok
        /\ orders' = b.orders /\ locked' = 0
        /\ wallet' = [u \in Users |-> [b.wallet[u] EXCEPT !.available =
                         @ + b.position[<<u, "YES">>].cost + b.position[<<u, "NO">>].cost]]
        /\ position' = [k \in DOMAIN position |-> NoPosition]
        /\ UNCHANGED <<now, status, winner, txn>>
    BY <1>1 DEF Refund
  <1>3. book \in Books /\ MarketTyped /\ FundsBacked(book) BY <1>2 DEF TradingInv, Sound
  <1>4. Conserves(book, b) /\ Within(book, b, DOMAIN book.orders)
        /\ \A j \in DOMAIN book.orders : ~ Fillable(b.orders[j])
    BY <1>1, <1>3, CancelAllConserves
  <1>5. b \in Books /\ DOMAIN b.orders = DOMAIN book.orders /\ FundsBacked(b)
    BY <1>2, <1>3, <1>4 DEF Conserves, Within
  <1>6. /\ b.orders \in OrderList /\ b.wallet \in [Users -> Balance]
        /\ b.position \in [Keys -> Position] /\ position \in [Keys -> Position]
    BY <1>3, <1>5, BookIs DEF Books
  <1>7. MarketTyped' BY <1>2, <1>3 DEF MarketTyped
  <1>8. position' \in [Keys -> Position] /\ \A k \in Keys : position'[k] = NoPosition
    BY <1>2, <1>6 DEF NoPosition, Position
  <1>9. ASSUME NEW u \in Users
        PROVE  wallet'[u] \in Balance /\ wallet'[u].reserved = b.wallet[u].reserved
    <2>1. <<u, "YES">> \in Keys /\ <<u, "NO">> \in Keys BY DEF Keys, Outcomes
    <2>2. PICK w \in Balance, c \in Nat, d \in Nat :
              w = b.wallet[u] /\ c = b.position[<<u, "YES">>].cost /\ d = b.position[<<u, "NO">>].cost
      BY <1>6, <2>1 DEF Position
    <2>3. wallet'[u] = [w EXCEPT !.available = w.available + c + d] BY <1>2, <2>2
    <2> QED BY <2>2, <2>3 DEF Balance
  <1>10. wallet' \in [Users -> Balance] BY <1>2, <1>9
  <1>11. (book \in Books)' BY <1>2, <1>6, <1>8, <1>10 DEF book, Books
  <1>12. book'.orders = b.orders /\ book'.wallet = wallet' BY <1>2 DEF book
  <1>13. FundsBacked(book)' BY <1>5, <1>9, <1>12 DEF FundsBacked
  <1>14. ActiveOrders(book)' = {} BY <1>4, <1>5, <1>12 DEF ActiveOrders
  <1>15. PaidOut'
    <2>1. Over' BY <1>2, <1>14 DEF Over
    <2> QED BY <1>2, <1>8, <1>13, <2>1 DEF PaidOut
  <1> QED BY <1>2, <1>7, <1>11, <1>15 DEF TradingInv

(* The opening: what the provider offers is what it holds, and it has paid *)
(* for it into the pool.                                                   *)
LEMMA OpeningOrderIs ==
    ASSUME NEW o \in Outcomes, NEW n, n = OpeningOrder(o)
    PROVE  /\ n \in OrderRow /\ n.filled <= n.quantity /\ HeldAsNeeded(n) /\ WithinLimit(n)
           /\ \A u : HeldFor(n, u) = 0
           /\ \A k : Offered(n, k) = IF k = <<Provider, o>> THEN OpeningLiquidity ELSE 0
  <1>1. /\ Provider \in Users /\ OpeningAsk[o] \in 1..Unit - 1 /\ OpeningAsk[o] \in Nat
        /\ OpeningLiquidity \in Nat
    BY TradingAssumption
  <1>2. n = [user |-> Provider, outcome |-> o, side |-> "SELL", quantity |-> OpeningLiquidity,
             price |-> OpeningAsk[o], tif |-> "GTC", expires |-> 0,
             filled |-> 0, value |-> 0, held |-> 0, status |-> "OPEN"]
    BY DEF OpeningOrder, NewOrder
  <1>3. "OPEN" \in OrderStatuses /\ "OPEN" \in FILLABLE_STATUSES
    BY DEF OrderStatuses, FILLABLE_STATUSES
  <1>4. n \in OrderRow BY <1>1, <1>2, <1>3 DEF OrderRow
  <1>5. /\ n.side = "SELL" /\ n.quantity = OpeningLiquidity /\ n.price = OpeningAsk[o]
        /\ n.filled = 0 /\ n.value = 0 /\ n.held = 0 /\ n.status = "OPEN"
        /\ n.user = Provider /\ n.outcome = o
    BY <1>2
  <1>6. HeldAsNeeded(n) /\ WithinLimit(n) BY <1>1, <1>5 DEF HeldAsNeeded, WithinLimit
  <1>7. Remaining(n) = OpeningLiquidity /\ Fillable(n) /\ Key(n) = <<Provider, o>>
    BY <1>1, <1>3, <1>5 DEF Remaining, Fillable, Key
  <1>8. \A u : HeldFor(n, u) = 0 BY <1>5 DEF HeldFor
  <1>9. \A k : Offered(n, k) = IF k = <<Provider, o>> THEN OpeningLiquidity ELSE 0
    BY <1>5, <1>7 DEF Offered
  <1> QED BY <1>1, <1>4, <1>5, <1>6, <1>8, <1>9

LEMMA OpeningOrders ==
    ASSUME Init
    PROVE  /\ orders \in OrderList
           /\ \A i \in DOMAIN orders : HeldAsNeeded(orders[i]) /\ WithinLimit(orders[i])
           /\ \A u : Holds(orders, u) = 0
           /\ \A o \in Outcomes, u \in Users :
                 Offers(orders, <<u, o>>) = IF u = Provider THEN OpeningLiquidity ELSE 0
  <1>1. PICK s : s = <<>> OBVIOUS
  <1>2. /\ s \in OrderList /\ DOMAIN s = {} /\ Len(s) = 0
        /\ (\A u : Holds(s, u) = 0) /\ (\A k : Offers(s, k) = 0)
    BY <1>1, SumOfNothing DEF OrderList, Holds, Offers
  <1>3. CASE OpeningLiquidity = 0 BY <1>1, <1>2, <1>3 DEF Init
  <1>4. CASE OpeningLiquidity # 0
    <2>1. PICK a, b, t, z : /\ a = OpeningOrder("YES") /\ b = OpeningOrder("NO")
                            /\ t = Append(s, a) /\ z = Append(t, b)
      OBVIOUS
    <2>2. "YES" \in Outcomes /\ "NO" \in Outcomes /\ Outcomes = {"YES", "NO"} BY DEF Outcomes
    <2>3. /\ a \in OrderRow /\ a.filled <= a.quantity /\ HeldAsNeeded(a) /\ WithinLimit(a)
          /\ \A u : HeldFor(a, u) = 0
          /\ \A k : Offered(a, k) = IF k = <<Provider, "YES">> THEN OpeningLiquidity ELSE 0
      BY <2>1, <2>2, OpeningOrderIs
    <2>4. /\ b \in OrderRow /\ b.filled <= b.quantity /\ HeldAsNeeded(b) /\ WithinLimit(b)
          /\ \A u : HeldFor(b, u) = 0
          /\ \A k : Offered(b, k) = IF k = <<Provider, "NO">> THEN OpeningLiquidity ELSE 0
      BY <2>1, <2>2, OpeningOrderIs
    <2>5. PICK i, j : i = Len(s) + 1 /\ j = Len(t) + 1 OBVIOUS
    <2>6. Lengthened(s, t, a, i) BY <1>2, <2>1, <2>3, <2>5, OrderAppended
    <2>7. t \in OrderList /\ DOMAIN t = DOMAIN s \cup {i} /\ t[i] = a BY <2>6 DEF Lengthened
    <2>8. Lengthened(t, z, b, j) BY <2>1, <2>4, <2>5, <2>7, OrderAppended
    <2>9. /\ z \in OrderList /\ DOMAIN z = DOMAIN t \cup {j} /\ z[j] = b
          /\ \A m \in DOMAIN t : z[m] = t[m]
      BY <2>8 DEF Lengthened
    <2>10. orders = z
      <3>1. orders = <<a, b>> BY <1>4, <2>1 DEF Init
      <3>2. z = <<a, b>>
        <4>1. i = 1 /\ j = 2 /\ Len(z) = 2
          <5>1. Len(t) = i /\ Len(z) = j BY <2>6, <2>8 DEF Lengthened
          <5>2. i = 1 BY <1>2, <2>5
          <5>3. j = 2 BY <2>5, <5>1, <5>2
          <5> QED BY <5>1, <5>2, <5>3
        <4>2. z[1] = a /\ z[2] = b BY <1>2, <2>7, <2>9, <4>1
        <4>3. PICK y : y = <<a, b>> OBVIOUS
        <4>4. y \in Seq(OrderRow) /\ Len(y) = 2 /\ y[1] = a /\ y[2] = b BY <2>3, <2>4, <4>3
        <4>5. z \in Seq(OrderRow) BY <2>9 DEF OrderList
        <4>6. \A m \in 1..Len(z) : z[m] = y[m] BY <4>1, <4>2, <4>4
        <4>7. z = y BY <4>1, <4>4, <4>5, <4>6, SeqEqual
        <4> QED BY <4>3, <4>7
      <3> QED BY <3>1, <3>2
    <2>11. \A m \in DOMAIN z : HeldAsNeeded(z[m]) /\ WithinLimit(z[m])
      BY <1>2, <2>3, <2>4, <2>7, <2>9
    <2>12. ASSUME NEW u PROVE Holds(z, u) = 0
      <3>1. Holds(t, u) = Holds(s, u) + HeldFor(a, u) /\ Holds(z, u) = Holds(t, u) + HeldFor(b, u)
        BY <2>6, <2>8 DEF Lengthened
      <3> QED BY <1>2, <2>3, <2>4, <3>1
    <2>13. ASSUME NEW o \in Outcomes, NEW u \in Users
           PROVE  Offers(z, <<u, o>>) = IF u = Provider THEN OpeningLiquidity ELSE 0
      <3>1. PICK k : k = <<u, o>> OBVIOUS
      <3>2. Offers(t, k) = Offers(s, k) + Offered(a, k) /\ Offers(z, k) = Offers(t, k) + Offered(b, k)
        BY <2>6, <2>8 DEF Lengthened
      <3>3. Offers(z, k) = (0 + Offered(a, k)) + Offered(b, k) BY <1>2, <3>2
      <3>4. /\ Offered(a, k) = IF k = <<Provider, "YES">> THEN OpeningLiquidity ELSE 0
            /\ Offered(b, k) = IF k = <<Provider, "NO">> THEN OpeningLiquidity ELSE 0
        BY <2>3, <2>4
      <3>5. OpeningLiquidity \in Nat BY TradingAssumption
      <3>6. CASE u = Provider /\ o = "YES"
        <4>1. k = <<Provider, "YES">> /\ k # <<Provider, "NO">> BY <3>1, <3>6
        <4> QED BY <3>1, <3>3, <3>4, <3>5, <3>6, <4>1
      <3>7. CASE u = Provider /\ o = "NO"
        <4>1. k = <<Provider, "NO">> /\ k # <<Provider, "YES">> BY <3>1, <3>7
        <4> QED BY <3>1, <3>3, <3>4, <3>5, <3>7, <4>1
      <3>8. CASE u # Provider
        <4>1. k # <<Provider, "NO">> /\ k # <<Provider, "YES">> BY <3>1, <3>8
        <4> QED BY <3>1, <3>3, <3>4, <3>8, <4>1
      <3> QED BY <2>2, <3>6, <3>7, <3>8
    <2> QED BY <2>9, <2>10, <2>11, <2>12, <2>13
  <1> QED BY <1>3, <1>4

LEMMA OpeningSums ==
    ASSUME Init
    PROVE  /\ position \in [Keys -> Position] /\ wallet \in [Users -> Balance]
           /\ \A o \in Outcomes : Shares(position, o) = OpeningLiquidity
           /\ Money(wallet) + Unit * OpeningLiquidity = InitialFunds * Cardinality(Users)
  <1>1. /\ Provider \in Users /\ IsFiniteSet(Users) /\ OpeningLiquidity \in Nat
        /\ InitialFunds \in Nat /\ Unit \in Nat /\ OpeningLiquidity * Unit <= InitialFunds
        /\ \A o \in Outcomes : OpeningPrice[o] \in Nat
    BY TradingAssumption
  <1>2. PICK cost \in Nat : cost = OpeningLiquidity * Unit BY <1>1, ProductsAreTyped
  <1>3. \A o \in Outcomes : OpeningLiquidity * OpeningPrice[o] \in Nat BY <1>1, ProductsAreTyped
  <1>4. position \in [Keys -> Position]
    <2>1. position = [k \in Keys |->
                         IF k[1] = Provider
                         THEN [quantity |-> OpeningLiquidity, reserved |-> OpeningLiquidity,
                               cost |-> OpeningLiquidity * OpeningPrice[k[2]]]
                         ELSE NoPosition]
      BY DEF Init, Keys
    <2>2. \A k \in Keys : k[2] \in Outcomes BY DEF Keys
    <2> QED BY <1>1, <1>3, <2>1, <2>2 DEF NoPosition, Position
  <1>5. wallet = [u \in Users |->
                     [available |-> IF u = Provider THEN InitialFunds - cost ELSE InitialFunds,
                      reserved |-> 0]]
    BY <1>2 DEF Init
  <1>6. InitialFunds - cost \in Nat BY <1>1, <1>2
  <1>7. wallet \in [Users -> Balance] BY <1>1, <1>5, <1>6 DEF Balance
  <1>8. ASSUME NEW o \in Outcomes PROVE Shares(position, o) = OpeningLiquidity
    <2> DEFINE f == [u \in Users |-> 0]
               h == [u \in Users |-> position[<<u, o>>].quantity]
    <2>1. \A u \in Users : h[u] = IF u = Provider THEN OpeningLiquidity ELSE 0
      BY DEF Init, NoPosition
    <2>2. /\ \A u \in Users : f[u] = 0
          /\ Shares(position, o) = SumOf(h, Users)
      BY DEF Shares
    <2> HIDE DEF f, h
    <2>3. PICK z \in Int : z = 0 OBVIOUS
    <2>4. SumOf(f, Users) = z * Cardinality(Users) BY <1>1, <2>2, <2>3, SumOfConstant
    <2>5. SumOf(f, Users) = 0
      <3>1. Cardinality(Users) \in Nat BY <1>1, FS_CardinalityType
      <3> QED BY <2>3, <2>4, <3>1
    <2>6. SumOf(h, Users) = SumOf(f, Users) + (h[Provider] - f[Provider])
      <3>1. \A u \in Users : f[u] \in Int /\ h[u] \in Int BY <1>1, <2>1, <2>2
      <3>2. \A u \in Users \ {Provider} : h[u] = f[u] BY <2>1, <2>2
      <3> QED BY <1>1, <3>1, <3>2, SumChanges
    <2> QED BY <1>1, <2>1, <2>2, <2>5, <2>6
  <1>9. Money(wallet) + Unit * OpeningLiquidity = InitialFunds * Cardinality(Users)
    <2> DEFINE f == [u \in Users |-> InitialFunds]
               h == [u \in Users |-> wallet[u].available + wallet[u].reserved]
    <2>1. \A u \in Users : h[u] = IF u = Provider THEN InitialFunds - cost ELSE InitialFunds
      BY <1>1, <1>5, <1>6
    <2>2. /\ \A u \in Users : f[u] = InitialFunds
          /\ Money(wallet) = SumOf(h, Users)
      BY DEF Money
    <2> HIDE DEF f, h
    <2>3. PICK c \in Int : c = InitialFunds BY <1>1
    <2>4. SumOf(f, Users) = c * Cardinality(Users) BY <1>1, <2>2, <2>3, SumOfConstant
    <2>5. SumOf(h, Users) = SumOf(f, Users) + (h[Provider] - f[Provider])
      <3>1. \A u \in Users : f[u] \in Int /\ h[u] \in Int BY <1>1, <1>6, <2>1, <2>2
      <3>2. \A u \in Users \ {Provider} : h[u] = f[u] BY <2>1, <2>2
      <3> QED BY <1>1, <3>1, <3>2, SumChanges
    <2>6. h[Provider] - f[Provider] = - cost BY <1>1, <2>1, <2>2
    <2>7. PICK t \in Int : t = InitialFunds * Cardinality(Users)
      BY <1>1, FS_CardinalityType, ProductsAreTyped
    <2>8. Money(wallet) = t + (- cost) BY <2>2, <2>3, <2>4, <2>5, <2>6, <2>7
    <2>9. Unit * OpeningLiquidity = cost BY <1>1, <1>2
    <2> QED BY <2>7, <2>8, <2>9
  <1> QED BY <1>4, <1>7, <1>8, <1>9

LEMMA OpeningIsSound ==
    ASSUME Init
    PROVE  TradingInv
  <1>1. /\ orders \in OrderList
        /\ \A i \in DOMAIN orders : HeldAsNeeded(orders[i]) /\ WithinLimit(orders[i])
        /\ \A u : Holds(orders, u) = 0
        /\ \A o \in Outcomes, u \in Users :
              Offers(orders, <<u, o>>) = IF u = Provider THEN OpeningLiquidity ELSE 0
    BY OpeningOrders
  <1>2. /\ position \in [Keys -> Position] /\ wallet \in [Users -> Balance]
        /\ \A o \in Outcomes : Shares(position, o) = OpeningLiquidity
        /\ Money(wallet) + Unit * OpeningLiquidity = InitialFunds * Cardinality(Users)
    BY OpeningSums
  <1>3. /\ now = 0 /\ status = "OPEN" /\ winner = None /\ locked = OpeningLiquidity
        /\ payout = "none" /\ txn = None /\ locked \in Nat
    BY TradingAssumption DEF Init
  <1>4. book \in Books BY <1>1, <1>2, <1>3, BookIs
  <1>5. MarketTyped BY <1>3, TradingAssumption DEF MarketTyped
  <1>6. OffersBacked(book)
    <2>1. ASSUME NEW u \in Users, NEW o \in Outcomes
          PROVE  /\ position[<<u, o>>].reserved = IF u = Provider THEN OpeningLiquidity ELSE 0
                 /\ position[<<u, o>>].quantity = IF u = Provider THEN OpeningLiquidity ELSE 0
      BY DEF Init, NoPosition
    <2>2. OpeningLiquidity <= OpeningLiquidity BY TradingAssumption
    <2>3. ASSUME NEW k \in Keys
          PROVE  position[k].reserved <= position[k].quantity
                 /\ position[k].reserved = Offers(orders, k)
      BY <1>1, <2>1, <2>2 DEF Keys
    <2> QED BY <2>3, BookIs DEF OffersBacked
  <1>7. FundsBacked(book) BY <1>1, BookIs DEF Init, FundsBacked
  <1>8. SharesMatch(book) /\ MoneyMatches(book) BY <1>2, <1>3, BookIs DEF SharesMatch, MoneyMatches
  <1> QED BY <1>3, <1>4, <1>5, <1>6, <1>7, <1>8 DEF TradingInv, Sound

-----------------------------------------------------------------------------
(* What can trade has traded. Who is live at a time t, and a list of       *)
(* orders none of which can trade with another.                            *)
LiveAt(o, t) == Fillable(o) /\ Remaining(o) > 0 /\ ~(o.tif = "GTD" /\ o.expires <= t)

QuietAt(s, t) ==
    t < ClosesAt =>
        \A i, m \in DOMAIN s : LiveAt(s[i], t) /\ LiveAt(s[m], t) => ~ MayTrade(s[i], s[m])

(* What placement p has found out, when it locked its makers in s.         *)
FoundAt(p, s, t) ==
    LET o == NewOrder(p.request)
    IN  p # None /\ p.locked =>
            /\ p.matches =>
                  \A m \in DOMAIN s : LiveAt(s[m], t) /\ Crosses(o, s[m]) => m \in p.makers
            /\ ~ p.matches =>
                  o.tif = "FOK" \/ (o.tif = "GTD" /\ o.expires <= t) \/ t >= ClosesAt

(* The makers a placement holds are still all that it could meet, and no   *)
(* two orders could trade.                                                 *)
Quiet == QuietAt(orders, now)
Found == FoundAt(txn, orders, now)

(* Nothing but a placement adds an order or brings one to life.            *)
Calmer(s, t, z, v) ==
    /\ t \in Int /\ v \in Int /\ t <= v
    /\ DOMAIN z = DOMAIN s
    /\ \A j \in DOMAIN s : SameTerms(z[j], s[j]) /\ (LiveAt(z[j], v) => LiveAt(s[j], t))

LEMMA LiveIs ==
    ASSUME NEW o
    PROVE  Live(o) <=> LiveAt(o, now)
  BY DEF Live, LiveAt, Elapsed

LEMMA LaterIsLessLive ==
    ASSUME NEW o \in OrderRow, NEW t \in Int, NEW v \in Int, t <= v, LiveAt(o, v)
    PROVE  LiveAt(o, t)
  BY DEF OrderRow, LiveAt

LEMMA StaysQuiet ==
    ASSUME NEW s, NEW t, NEW z, NEW v, Calmer(s, t, z, v), QuietAt(s, t)
    PROVE  QuietAt(z, v)
  BY TradingAssumption, TermsDecide DEF QuietAt, Calmer, MayTrade

LEMMA StaysFound ==
    ASSUME NEW s, NEW t, NEW z, NEW v, Calmer(s, t, z, v),
           NEW p, p = None \/ p.request \in Requests, FoundAt(p, s, t)
    PROVE  FoundAt(p, z, v)
  <1> SUFFICES ASSUME p # None, p.locked, NEW o, o = NewOrder(p.request)
               PROVE  /\ p.matches => \A m \in DOMAIN z :
                                LiveAt(z[m], v) /\ Crosses(o, z[m]) => m \in p.makers
                      /\ ~ p.matches =>
                            o.tif = "FOK" \/ (o.tif = "GTD" /\ o.expires <= v) \/ v >= ClosesAt
    BY DEF FoundAt
  <1>1. t \in Int /\ v \in Int /\ t <= v /\ ClosesAt \in Int BY TradingAssumption DEF Calmer
  <1>2. o.expires \in Int BY <1>1, TradingAssumption DEF NewOrder
  <1>3. ASSUME p.matches, NEW m \in DOMAIN z, LiveAt(z[m], v), Crosses(o, z[m])
        PROVE  m \in p.makers
    <2>1. m \in DOMAIN s /\ LiveAt(s[m], t) /\ SameTerms(z[m], s[m]) BY <1>3 DEF Calmer
    <2>2. Crosses(o, s[m]) BY <1>3, <2>1 DEF Crosses, SameTerms
    <2> QED BY <1>3, <2>1, <2>2 DEF FoundAt
  <1>4. ASSUME ~ p.matches
        PROVE  o.tif = "FOK" \/ (o.tif = "GTD" /\ o.expires <= v) \/ v >= ClosesAt
    BY <1>1, <1>2, <1>4 DEF FoundAt
  <1> QED BY <1>3, <1>4

(* Every step but the commit of a placement.                               *)
LEMMA OthersCalm ==
    ASSUME TradingInv, [Next]_vars, ~ CommitPlacement
    PROVE  Calmer(orders, now, orders', now')
  <1>1. MarketTyped /\ book \in Books /\ book.orders = orders /\ now \in Int
    BY BookIs, TradingAssumption DEF TradingInv, MarketTyped
  <1>2. \A j \in DOMAIN orders : orders[j] \in OrderRow BY <1>1, OrderIsTyped
  <1>3. ASSUME orders' = orders, now' \in Int, now <= now'
        PROVE  Calmer(orders, now, orders', now')
    <2>1. \A j \in DOMAIN orders : LiveAt(orders[j], now') => LiveAt(orders[j], now)
      BY <1>1, <1>2, <1>3, LaterIsLessLive
    <2> QED BY <1>1, <1>3, <2>1 DEF Calmer, SameTerms
  <1>4. ASSUME NEW b, Within(book, b, DOMAIN orders), now' = now,
               orders' = b.orders \/ orders' = orders,
               \A j \in DOMAIN orders : LiveAt(b.orders[j], now) => LiveAt(orders[j], now)
        PROVE  Calmer(orders, now, orders', now')
    BY <1>1, <1>3, <1>4 DEF Within, Calmer
  <1>5. ASSUME NEW i \in DOMAIN orders, CancelOrder(i) \/ ExpireOrder(i)
        PROVE  Calmer(orders, now, orders', now')
    <2>1. {"CANCELLED", "EXPIRED"} \subseteq OrderStatuses \ FILLABLE_STATUSES
      BY DEF OrderStatuses, FILLABLE_STATUSES
    <2>2. PICK s \in {"CANCELLED", "EXPIRED"} :
              Fillable(orders[i]) /\ Commit(EndOrder(book, i, s)) /\ now' = now
      BY <1>5 DEF CancelOrder, ExpireOrder, CancelLockedOrder
    <2>3. PICK b : b = EndOrder(book, i, s) OBVIOUS
    <2>4. Within(book, b, {i}) /\ ~ Fillable(b.orders[i])
      BY <1>1, <2>1, <2>2, <2>3, EndOrderConserves
    <2>5. \A j \in DOMAIN orders \ {i} : b.orders[j] = orders[j] BY <1>1, <2>4 DEF Within
    <2>6. Within(book, b, DOMAIN orders) BY <1>1, <2>4 DEF Within
    <2>7. \A j \in DOMAIN orders : LiveAt(b.orders[j], now) => LiveAt(orders[j], now)
      BY <2>4, <2>5 DEF LiveAt
    <2>8. orders' = b.orders \/ orders' = orders BY <2>2, <2>3 DEF Commit
    <2> QED BY <1>4, <2>2, <2>6, <2>7, <2>8
  <1>6. CASE Close \/ Refund
    <2>1. PICK b : b = CancelAll(book) OBVIOUS
    <2>2. Within(book, b, DOMAIN orders) /\ \A j \in DOMAIN orders : ~ Fillable(b.orders[j])
      BY <1>1, <2>1, CancelAllConserves
    <2>3. now' = now BY <1>6 DEF Close, Refund
    <2>4. orders' = b.orders \/ orders' = orders BY <1>6, <2>1 DEF Close, Refund, Commit
    <2>5. \A j \in DOMAIN orders : LiveAt(b.orders[j], now) => LiveAt(orders[j], now)
      BY <2>2 DEF LiveAt
    <2> QED BY <1>4, <2>2, <2>3, <2>4, <2>5
  <1>7. CASE \/ \E r \in Requests : StartPlacement(r)
             \/ LockMakers \/ Suspend \/ Reopen \/ Void \/ \E o \in Outcomes : Resolve(o)
             \/ Settle
    <2>1. orders' = orders /\ now' = now
      BY <1>7 DEF StartPlacement, LockMakers, Suspend, Reopen, Void, Resolve, Settle
    <2> QED BY <1>1, <1>3, <2>1
  <1>8. CASE Tick BY <1>1, <1>3, <1>8 DEF Tick
  <1>9. CASE UNCHANGED vars BY <1>1, <1>3, <1>9 DEF vars
  <1> QED BY <1>5, <1>6, <1>7, <1>8, <1>9 DEF Next

LEMMA PlacedAdds ==
    ASSUME NEW x \in Books, txn.request \in Requests, txn.makers \subseteq DOMAIN x.orders,
           NEW y, y = Placed(x), NEW i, i = Len(x.orders) + 1
    PROVE  DOMAIN y.orders = DOMAIN x.orders \cup {i} /\ i \notin DOMAIN x.orders
  <1>1. PICK o, z, w : o = NewOrder(txn.request) /\ z = Insert(x, o) /\ w = MatchOrder(z, i) OBVIOUS
  <1>2. Extended(x, z, i) BY <1>1, InsertConserves
  <1>3. /\ z \in Books /\ i \in DOMAIN z.orders /\ i \notin DOMAIN x.orders
        /\ DOMAIN z.orders = DOMAIN x.orders \cup {i}
    BY <1>2 DEF Extended
  <1>4. txn.makers \subseteq DOMAIN z.orders /\ i \notin txn.makers BY <1>3
  <1>5. w \in Books /\ DOMAIN w.orders = DOMAIN z.orders
    BY <1>1, <1>3, <1>4, MatchOrderConserves DEF Within
  <1>6. y = w \/ (Fillable(w.orders[i]) /\ y = EndOrder(w, i, "CANCELLED"))
    BY <1>1 DEF Placed, CancelLockedOrder
  <1>7. CASE Fillable(w.orders[i]) /\ y = EndOrder(w, i, "CANCELLED")
    <2>1. PICK s : s = "CANCELLED" OBVIOUS
    <2>2. s \in OrderStatuses \ FILLABLE_STATUSES BY <2>1 DEF OrderStatuses, FILLABLE_STATUSES
    <2>3. Within(w, y, {i}) BY <1>3, <1>5, <1>7, <2>1, <2>2, EndOrderConserves
    <2> QED BY <1>3, <1>5, <2>3 DEF Within
  <1> QED BY <1>3, <1>5, <1>6, <1>7

(* The market after a placement that went through.                         *)
LEMMA PlacementGoesThrough ==
    ASSUME TradingInv, Found, CommitPlacement, NEW i, i = Len(orders) + 1, i \in DOMAIN orders'
    PROVE  \E z, y : /\ Extended(book, z, i) /\ Wanes(z, y) /\ InOrder(z, y, i)
                     /\ (now < ClosesAt => NobodyLeft(z, y, i))
                     /\ orders' = y.orders /\ now' = now /\ y \in Books
  <1>1. PICK y : y = Placed(book) OBVIOUS
  <1>2. /\ txn # None /\ txn.locked /\ Commit(y) /\ now' = now BY <1>1 DEF CommitPlacement
  <1>3. book \in Books /\ MarketTyped /\ book.orders = orders BY BookIs DEF TradingInv
  <1>4. txn.request \in Requests /\ txn.makers \subseteq DOMAIN book.orders /\ now \in Int
    <2>1. now \in 0..MaxTime /\ txn \in Placement BY <1>2, <1>3 DEF MarketTyped
    <2> QED BY <1>3, <2>1, TradingAssumption DEF Placement
  <1>5. i \notin DOMAIN orders BY <1>1, <1>3, <1>4, InsertConserves DEF Extended
  <1>6. y.ok /\ orders' = y.orders BY <1>2, <1>5 DEF Commit
  <1>7. PICK o : o = NewOrder(txn.request) OBVIOUS
  <1>8. txn.matches => AllFound(book, o) BY <1>2, <1>3, <1>7, LiveIs DEF Found, FoundAt, AllFound
  <1>9. ~ txn.matches => o.tif = "FOK" \/ Elapsed(o) \/ now >= ClosesAt
    BY <1>2, <1>7 DEF Found, FoundAt, Elapsed
  <1>10. \E z : /\ Extended(book, z, i) /\ SameTerms(z.orders[i], o) /\ Wanes(z, y)
                /\ InOrder(z, y, i) /\ (now < ClosesAt => NobodyLeft(z, y, i))
    BY <1>1, <1>3, <1>4, <1>6, <1>7, <1>8, <1>9, PlacedTrades
  <1>11. y \in Books BY <1>1, <1>3, <1>4, PlacedConserves
  <1> QED BY <1>2, <1>6, <1>10, <1>11

LEMMA TradesBothWays ==
    ASSUME NEW t \in OrderRow, NEW o \in OrderRow, MayTrade(t, o)
    PROVE  MayTrade(o, t)
  <1>1. PICK a \in Nat, b \in Nat : a = t.price /\ b = o.price BY SidesOfOutcomes
  <1>2. t.side \in {"BUY", "SELL"} /\ o.side \in {"BUY", "SELL"} BY DEF OrderRow
  <1>3. CASE Crosses(t, o) BY <1>1, <1>2, <1>3 DEF Crosses, MayTrade
  <1>4. CASE Pairs(t, o) BY <1>1, <1>4 DEF Pairs, MayTrade
  <1> QED BY <1>3, <1>4 DEF MayTrade

LEMMA PlacementStaysQuiet ==
    ASSUME TradingInv, Found, Quiet, CommitPlacement
    PROVE  Quiet'
  <1>1. PICK i : i = Len(orders) + 1 OBVIOUS
  <1>2. book \in Books /\ book.orders = orders /\ now' = now
    BY BookIs DEF TradingInv, CommitPlacement
  <1>3. CASE i \notin DOMAIN orders'
    <2>1. PICK y : y = Placed(book) OBVIOUS
    <2>2. Commit(y) /\ txn # None /\ MarketTyped BY <2>1 DEF CommitPlacement, TradingInv
    <2>3. txn.request \in Requests /\ txn.makers \subseteq DOMAIN book.orders
      BY <1>2, <2>2 DEF MarketTyped, Placement
    <2>4. i \in DOMAIN y.orders BY <1>1, <1>2, <2>1, <2>3, PlacedAdds
    <2>5. orders' = orders BY <1>3, <2>2, <2>4 DEF Commit
    <2> QED BY <1>2, <2>5 DEF Quiet
  <1>4. CASE i \in DOMAIN orders'
    <2>1. PICK z, y : /\ Extended(book, z, i) /\ Wanes(z, y)
                      /\ (now < ClosesAt => NobodyLeft(z, y, i))
                      /\ orders' = y.orders /\ y \in Books
      BY <1>1, <1>4, PlacementGoesThrough
    <2>2. /\ z \in Books /\ i \in DOMAIN z.orders /\ DOMAIN z.orders = DOMAIN orders \cup {i}
          /\ DOMAIN y.orders = DOMAIN z.orders
          /\ \A j \in DOMAIN orders : z.orders[j] = orders[j]
      BY <1>2, <2>1 DEF Extended, Wanes
    <2>3. ASSUME now < ClosesAt, NEW j \in DOMAIN y.orders, NEW m \in DOMAIN y.orders,
                 Live(y.orders[j]), Live(y.orders[m])
          PROVE  ~ MayTrade(y.orders[j], y.orders[m])
      <3>1. /\ SameTerms(y.orders[j], z.orders[j]) /\ SameTerms(y.orders[m], z.orders[m])
            /\ Live(z.orders[j]) /\ Live(z.orders[m])
        BY <2>1, <2>2, <2>3 DEF Wanes
      <3>2. z.orders[j] \in OrderRow /\ z.orders[m] \in OrderRow BY <2>2, <2>3, OrderIsTyped
      <3>3. SUFFICES ~ MayTrade(z.orders[j], z.orders[m]) BY <3>1, TermsDecide DEF MayTrade
      <3>4. CASE j # i /\ m # i
        <4>1. j \in DOMAIN orders /\ m \in DOMAIN orders BY <2>2, <3>4
        <4>2. /\ z.orders[j] = orders[j] /\ z.orders[m] = orders[m]
              /\ LiveAt(orders[j], now) /\ LiveAt(orders[m], now)
          BY <2>2, <3>1, <4>1, LiveIs
        <4> QED BY <2>3, <4>1, <4>2 DEF Quiet, QuietAt
      <3>5. CASE j = i /\ m # i BY <2>1, <2>2, <2>3, <3>5 DEF NobodyLeft
      <3>6. CASE j # i /\ m = i
        <4>1. ~ MayTrade(z.orders[m], z.orders[j]) BY <2>1, <2>2, <2>3, <3>6 DEF NobodyLeft
        <4> QED BY <3>2, <4>1, TradesBothWays
      <3>7. CASE j = i /\ m = i BY <3>7 DEF MayTrade, Crosses, Pairs
      <3> QED BY <3>4, <3>5, <3>6, <3>7
    <2>4. QuietAt(y.orders, now) BY <2>3, LiveIs DEF QuietAt
    <2> QED BY <1>2, <2>1, <2>4 DEF Quiet
  <1> QED BY <1>3, <1>4

(* What LockMakers writes down.                                            *)
LEMMA MakersAreFound ==
    ASSUME TradingInv, LockMakers
    PROVE  Found'
  <1>1. PICK r, o, b, i : /\ r = txn.request /\ o = NewOrder(r) /\ b = Insert(book, o)
                          /\ i = Len(b.orders)
    OBVIOUS
  <1>2. PICK matches : matches = (/\ Live(b.orders[i]) /\ now < ClosesAt
                                  /\ b.orders[i].tif = "FOK" =>
                                         Depth(b, i) >= b.orders[i].quantity)
    OBVIOUS
  <1>3. /\ txn # None /\ orders' = orders /\ now' = now
        /\ txn' = [txn EXCEPT !.locked = TRUE, !.matches = matches,
                              !.makers = IF matches THEN Makers(b, i) ELSE {}]
    BY <1>1, <1>2 DEF LockMakers
  <1>4. book \in Books /\ MarketTyped /\ book.orders = orders BY BookIs DEF TradingInv
  <1>5. txn \in Placement /\ r \in Requests BY <1>1, <1>3, <1>4 DEF MarketTyped, Placement
  <1>6. /\ txn'.request = r /\ txn'.matches = matches
        /\ matches => txn'.makers = Makers(b, i)
    BY <1>1, <1>3, <1>5 DEF Placement
  <1>7. PICK j : j = Len(book.orders) + 1 OBVIOUS
  <1>8. Extended(book, b, j) /\ SameTerms(b.orders[j], o) BY <1>1, <1>4, <1>5, <1>7, InsertConserves
  <1>9. i = j /\ \A m \in DOMAIN orders : m \in DOMAIN b.orders /\ b.orders[m] = orders[m]
    BY <1>1, <1>4, <1>8 DEF Extended
  <1>10. ASSUME matches, NEW m \in DOMAIN orders, LiveAt(orders[m], now), Crosses(o, orders[m])
         PROVE  m \in txn'.makers
    <2>1. Crosses(b.orders[i], b.orders[m]) BY <1>8, <1>9, <1>10 DEF Crosses, SameTerms
    <2>2. Live(b.orders[m]) BY <1>9, <1>10, LiveIs
    <2>3. Eligible(b, i, m) BY <2>1, <2>2, EligibleIs
    <2> QED BY <1>6, <1>9, <1>10, <2>3 DEF Makers
  <1>11. ASSUME ~ matches
         PROVE  o.tif = "FOK" \/ (o.tif = "GTD" /\ o.expires <= now) \/ now >= ClosesAt
    <2>1. Live(b.orders[i]) <=> ~ Elapsed(o) BY <1>1, <1>4, <1>5, <1>7, <1>9, NewOrderIsLive
    <2>2. b.orders[i].tif = o.tif BY <1>8, <1>9 DEF SameTerms
    <2>3. now \in Int /\ ClosesAt \in Int BY <1>4, TradingAssumption DEF MarketTyped
    <2>4. CASE Elapsed(o) BY <2>4 DEF Elapsed
    <2>5. CASE ~(now < ClosesAt) BY <2>3, <2>5
    <2>6. CASE b.orders[i].tif = "FOK" BY <2>2, <2>6
    <2> QED BY <1>2, <1>11, <2>1, <2>4, <2>5, <2>6
  <1>12. FoundAt(txn', orders, now) BY <1>1, <1>6, <1>10, <1>11 DEF FoundAt
  <1> QED BY <1>3, <1>12 DEF Found

LEMMA QuietStep ==
    ASSUME TradingInv, Found, Quiet, [Next]_vars
    PROVE  Found' /\ Quiet'
  <1>1. CASE CommitPlacement BY <1>1, PlacementStaysQuiet DEF CommitPlacement, Found, FoundAt
  <1>2. CASE ~ CommitPlacement
    <2>1. Calmer(orders, now, orders', now') BY <1>2, OthersCalm
    <2>2. Quiet' BY <2>1, StaysQuiet DEF Quiet
    <2>3. CASE LockMakers BY <2>2, <2>3, MakersAreFound
    <2>4. CASE \E r \in Requests : StartPlacement(r)
      BY <2>2, <2>4 DEF StartPlacement, Found, FoundAt
    <2>5. CASE txn' = txn
      <3>1. txn = None \/ txn.request \in Requests BY DEF TradingInv, MarketTyped, Placement
      <3>2. FoundAt(txn, orders', now') BY <2>1, <3>1, StaysFound DEF Found
      <3>3. Found' BY <2>5, <3>2 DEF Found
      <3> QED BY <2>2, <3>3
    <2>6. \/ LockMakers \/ (\E r \in Requests : StartPlacement(r)) \/ txn' = txn
      <3>1. CASE \/ \E i \in DOMAIN orders : CancelOrder(i) \/ ExpireOrder(i)
                 \/ Suspend \/ Reopen \/ Close \/ Void \/ \E o \in Outcomes : Resolve(o)
                 \/ Settle \/ Refund \/ Tick \/ UNCHANGED vars
        BY <3>1 DEF CancelOrder, ExpireOrder, Suspend, Reopen, Close, Void, Resolve, Settle,
                    Refund, Tick, vars
      <3> QED BY <1>2, <3>1 DEF Next
    <2> QED BY <2>3, <2>4, <2>5, <2>6
  <1> QED BY <1>1, <1>2

(* The properties.                                                         *)
LEMMA QuietMarket ==
    ASSUME Quiet
    PROVE  NothingLeftToMatch
  <1> SUFFICES ASSUME now < ClosesAt, NEW i \in DOMAIN orders, NEW m \in DOMAIN orders
               PROVE  /\ Live(orders[i]) => ~ Eligible(book, i, m)
                      /\ ~ (/\ Live(orders[i]) /\ Live(orders[m])
                            /\ Pairs(orders[i], orders[m]))
    BY DEF NothingLeftToMatch, Pairs
  <1>1. Live(orders[i]) /\ Live(orders[m]) => ~ MayTrade(orders[i], orders[m])
    BY LiveIs DEF Quiet, QuietAt
  <1> QED BY <1>1, BookIs, EligibleIs DEF MayTrade

LEMMA PriorityStep ==
    ASSUME TradingInv, Found, [Next]_vars,
           NEW t \in (DOMAIN orders') \ DOMAIN orders, NEW i \in DOMAIN orders,
           NEW m \in DOMAIN orders, orders'[m].filled > orders[m].filled,
           LiveAt(orders[i], now), orders[i].user # orders'[t].user,
           orders[i].side = orders[m].side, orders[i].outcome = orders[m].outcome,
           Ahead(i, m, orders'[t])
    PROVE  Remaining(orders'[i]) = 0
  <1>1. CommitPlacement BY OthersCalm DEF Calmer
  <1>2. book \in Books /\ book.orders = orders BY BookIs DEF TradingInv
  <1>3. PICK n : n = Len(orders) + 1 OBVIOUS
  <1>4. t = n
    <2>1. PICK y : y = Placed(book) OBVIOUS
    <2>2. Commit(y) /\ txn # None /\ MarketTyped BY <1>1, <2>1 DEF CommitPlacement, TradingInv
    <2>3. txn.request \in Requests /\ txn.makers \subseteq DOMAIN book.orders
      BY <1>2, <2>2 DEF MarketTyped, Placement
    <2>4. DOMAIN y.orders = DOMAIN orders \cup {n} BY <1>2, <1>3, <2>1, <2>3, PlacedAdds
    <2> QED BY <2>2, <2>4 DEF Commit
  <1>5. PICK z, y : /\ Extended(book, z, t) /\ Wanes(z, y) /\ InOrder(z, y, t)
                    /\ orders' = y.orders /\ y \in Books
    BY <1>1, <1>3, <1>4, PlacementGoesThrough
  <1>6. /\ z \in Books /\ t \in DOMAIN z.orders /\ i \in DOMAIN z.orders /\ m \in DOMAIN z.orders
        /\ i # t /\ m # t /\ z.orders[i] = orders[i] /\ z.orders[m] = orders[m]
    BY <1>2, <1>5 DEF Extended
  <1>7. SameTerms(orders'[t], z.orders[t]) BY <1>5, <1>6 DEF Wanes
  <1>8. orders'[m] # orders[m] BY <1>2, OrderIsTyped DEF OrderRow
  <1>9. Before(z, t, i, m)
    <2>1. z.orders[i].price \in Nat /\ z.orders[t].price \in Nat
      BY <1>6, OrderIsTyped, SidesOfOutcomes
    <2>2. z.orders[i].price + z.orders[t].price = z.orders[t].price + z.orders[i].price BY <2>1
    <2> QED BY <1>6, <1>7, <2>2 DEF Ahead, Before, Leads, SameTerms
  <1>10. Live(z.orders[i]) /\ z.orders[i].user # z.orders[t].user
    BY <1>6, <1>7, LiveIs DEF SameTerms
  <1> QED BY <1>5, <1>6, <1>8, <1>9, <1>10 DEF InOrder

-----------------------------------------------------------------------------
(* The operations on the book of a market that has not been paid out.      *)
LEMMA TradesKeep ==
    ASSUME TradingInv, NEW b \in Books, Commit(b), Conserves(book, b), payout = "none",
           DOMAIN book.orders \subseteq DOMAIN b.orders, MarketTyped', UNCHANGED payout
    PROVE  TradingInv'
  BY CommitStaysSound DEF TradingInv

LEMMA EndKeeps ==
    ASSUME TradingInv, NEW i \in DOMAIN orders, Fillable(orders[i]),
           NEW s \in OrderStatuses \ FILLABLE_STATUSES, Commit(EndOrder(book, i, s)),
           UNCHANGED <<now, status, winner, payout, txn>>
    PROVE  TradingInv'
  <1>1. PICK b : b = EndOrder(book, i, s) OBVIOUS
  <1>2. book \in Books /\ MarketTyped /\ book.orders = orders BY BookIs DEF TradingInv
  <1>3. payout = "none"
    <2>1. i \in ActiveOrders(book) BY <1>2 DEF ActiveOrders
    <2> QED BY <2>1 DEF TradingInv, PaidOut, Over
  <1>4. Conserves(book, b) /\ Within(book, b, {i}) BY <1>1, <1>2, EndOrderConserves
  <1>5. b \in Books /\ DOMAIN b.orders = DOMAIN book.orders BY <1>4 DEF Within
  <1>6. DOMAIN orders \subseteq DOMAIN orders'
    <2>1. Sound(book) BY <1>3 DEF TradingInv
    <2> QED BY <1>1, <1>2, <1>4, <1>5, <2>1, CommitStaysSound
  <1>7. MarketTyped' BY <1>2, <1>6 DEF MarketTyped, Placement
  <1> QED BY <1>1, <1>3, <1>4, <1>5, <1>7, TradesKeep

LEMMA PlacementKeeps ==
    ASSUME TradingInv, CommitPlacement
    PROVE  TradingInv'
  <1>1. PICK b : b = Placed(book) OBVIOUS
  <1>2. /\ txn # None /\ Commit(b) /\ txn' = None /\ UNCHANGED <<now, status, winner, payout>>
    BY <1>1 DEF CommitPlacement
  <1>3. book \in Books /\ MarketTyped /\ book.orders = orders BY BookIs DEF TradingInv
  <1>4. txn.request \in Requests /\ txn.makers \subseteq DOMAIN book.orders
    BY <1>2, <1>3 DEF MarketTyped, Placement
  <1>5. Conserves(book, b) /\ b \in Books /\ DOMAIN book.orders \subseteq DOMAIN b.orders
    BY <1>1, <1>3, <1>4, PlacedConserves
  <1>6. payout = "none" BY <1>2 DEF TradingInv, PaidOut, Over
  <1>7. MarketTyped' BY <1>2, <1>3 DEF MarketTyped
  <1> QED BY <1>2, <1>5, <1>6, <1>7, TradesKeep

LEMMA CloseKeeps ==
    ASSUME TradingInv, Close
    PROVE  TradingInv'
  <1>1. PICK b : b = CancelAll(book) OBVIOUS
  <1>2. /\ txn = None /\ status \in {"OPEN", "SUSPENDED"} /\ status' = "CLOSED" /\ Commit(b)
        /\ UNCHANGED <<now, winner, payout, txn>>
    BY <1>1 DEF Close, Moves
  <1>3. book \in Books /\ MarketTyped BY DEF TradingInv
  <1>4. Conserves(book, b) /\ Within(book, b, DOMAIN book.orders) BY <1>1, <1>3, CancelAllConserves
  <1>5. b \in Books /\ DOMAIN b.orders = DOMAIN book.orders BY <1>4 DEF Within
  <1>6. payout = "none" BY <1>2 DEF TradingInv, PaidOut, Over
  <1>7. MarketTyped' BY <1>2, <1>3 DEF MarketTyped
  <1> QED BY <1>2, <1>4, <1>5, <1>6, <1>7, TradesKeep

(* The makers of a placement are orders that are there before it commits.  *)
LEMMA MakersKeep ==
    ASSUME TradingInv, LockMakers
    PROVE  MarketTyped'
  <1>1. PICK r, b, i : /\ r = txn.request /\ b = Insert(book, NewOrder(r)) /\ i = Len(b.orders)
    OBVIOUS
  <1>2. PICK matches : /\ matches = (/\ Live(b.orders[i]) /\ now < ClosesAt
                                     /\ b.orders[i].tif = "FOK" =>
                                            Depth(b, i) >= b.orders[i].quantity)
    OBVIOUS
  <1>3. /\ txn # None
        /\ txn' = [txn EXCEPT !.locked = TRUE, !.matches = matches,
                              !.makers = IF matches THEN Makers(b, i) ELSE {}]
        /\ UNCHANGED <<now, status, winner, orders, payout>>
    BY <1>1, <1>2 DEF LockMakers
  <1>4. book \in Books /\ MarketTyped /\ book.orders = orders BY BookIs DEF TradingInv
  <1>5. txn \in Placement /\ r \in Requests BY <1>1, <1>3, <1>4 DEF MarketTyped, Placement
  <1>6. Makers(b, i) \subseteq DOMAIN orders
    <2>1. PICK j : j = Len(book.orders) + 1 OBVIOUS
    <2>2. Extended(book, b, j) BY <1>1, <1>4, <1>5, <2>1, InsertConserves
    <2>3. DOMAIN b.orders = DOMAIN orders \cup {i} BY <1>1, <1>4, <2>2 DEF Extended
    <2>4. ASSUME NEW m \in Makers(b, i) PROVE m \in DOMAIN b.orders /\ m # i BY DEF Makers, Eligible
    <2> QED BY <2>3, <2>4
  <1>7. txn' \in Placement'
    <2>1. matches \in BOOLEAN BY <1>2
    <2>2. (IF matches THEN Makers(b, i) ELSE {}) \in SUBSET DOMAIN orders BY <1>6
    <2>3. PICK S \in SUBSET DOMAIN orders :
              txn' = [txn EXCEPT !.locked = TRUE, !.matches = matches, !.makers = S]
      BY <1>3, <2>2
    <2> QED BY <1>3, <1>5, <2>1, <2>3 DEF Placement
  <1> QED BY <1>3, <1>4, <1>7 DEF MarketTyped

LEMMA TradingStep ==
    ASSUME TradingInv, [Next]_vars
    PROVE  TradingInv'
  <1>1. /\ MarketTyped /\ book \in Books /\ book.orders = orders
        /\ payout = "none" => Sound(book)
        /\ payout # "none" => PaidOut
    BY BookIs DEF TradingInv
  <1>2. ASSUME UNCHANGED <<orders, position, wallet, locked, payout>>, MarketTyped',
               payout # "none" => UNCHANGED <<txn, status>>
        PROVE  TradingInv'
    <2>1. book' = book BY <1>2 DEF book
    <2>2. book' \in Books /\ (payout' = "none" => Sound(book)') BY <1>1, <1>2, <2>1
            DEF Sound, OffersBacked, FundsBacked, SharesMatch, MoneyMatches
    <2>3. payout' # "none" => PaidOut'
      BY <1>1, <1>2, <2>1 DEF PaidOut, Over, ActiveOrders, FundsBacked, MoneyMatches
    <2> QED BY <1>2, <2>2, <2>3 DEF TradingInv
  <1>3. CASE UNCHANGED vars BY <1>1, <1>2, <1>3 DEF vars, MarketTyped, Placement
  <1>4. ASSUME NEW r \in Requests, StartPlacement(r) PROVE TradingInv'
    <2>1. /\ UNCHANGED <<now, status, winner, orders, position, wallet, locked, payout>>
          /\ txn' = [request |-> r, locked |-> FALSE, matches |-> FALSE, makers |-> {}]
          /\ status = "OPEN"
      BY <1>4 DEF StartPlacement, TradingOpen
    <2>2. payout = "none" BY <1>1, <2>1 DEF PaidOut, Over
    <2>3. txn' \in Placement' BY <2>1 DEF Placement
    <2>4. MarketTyped' BY <1>1, <2>1, <2>3 DEF MarketTyped
    <2> QED BY <1>2, <2>1, <2>2, <2>4
  <1>5. CASE LockMakers
    <2>1. UNCHANGED <<orders, position, wallet, locked, payout>> /\ txn # None
      BY <1>5 DEF LockMakers
    <2>2. payout = "none" BY <1>1, <2>1 DEF PaidOut, Over
    <2> QED BY <1>2, <1>5, <2>1, <2>2, MakersKeep
  <1>6. CASE CommitPlacement BY <1>6, PlacementKeeps
  <1>7. ASSUME NEW i \in DOMAIN orders, CancelOrder(i) \/ ExpireOrder(i) PROVE TradingInv'
    <2>1. {"CANCELLED", "EXPIRED"} \subseteq OrderStatuses \ FILLABLE_STATUSES
      BY DEF OrderStatuses, FILLABLE_STATUSES
    <2>2. PICK s \in {"CANCELLED", "EXPIRED"} :
              /\ Fillable(orders[i]) /\ Commit(EndOrder(book, i, s))
              /\ UNCHANGED <<now, status, winner, payout, txn>>
      BY <1>7 DEF CancelOrder, ExpireOrder, CancelLockedOrder
    <2> QED BY <2>1, <2>2, EndKeeps
  <1>8. CASE Suspend \/ Reopen \/ Void \/ \E o \in Outcomes : Resolve(o)
    <2>1. /\ txn = None /\ status \in {"OPEN", "SUSPENDED", "CLOSED"}
          /\ UNCHANGED <<now, orders, position, wallet, locked, payout, txn>>
          /\ status' \in {"OPEN", "SUSPENDED", "CLOSED", "RESOLVED", "VOIDED"}
          /\ \/ winner' \in Outcomes
             \/ winner' = winner /\ status' # "RESOLVED"
      BY <1>8 DEF Suspend, Reopen, Void, Resolve, Moves
    <2>2. payout = "none" BY <1>1, <2>1 DEF PaidOut, Over
    <2>3. MarketTyped' BY <1>1, <2>1 DEF MarketTyped, Placement
    <2> QED BY <1>2, <2>1, <2>2, <2>3
  <1>9. CASE Close BY <1>9, CloseKeeps
  <1>10. CASE Settle BY <1>10, SettleKeeps
  <1>11. CASE Refund BY <1>11, RefundKeeps
  <1>12. CASE Tick
    <2>1. /\ now < MaxTime /\ now' = now + 1
          /\ UNCHANGED <<status, winner, orders, position, wallet, locked, payout, txn>>
      BY <1>12 DEF Tick
    <2>2. now' \in 0..MaxTime BY <1>1, <2>1, TradingAssumption DEF MarketTyped
    <2>3. MarketTyped' BY <1>1, <2>1, <2>2 DEF MarketTyped, Placement
    <2> QED BY <1>2, <2>1, <2>3
  <1> QED BY <1>3, <1>4, <1>5, <1>6, <1>7, <1>8, <1>9, <1>10, <1>11, <1>12 DEF Next

(* An order that is done stands in every step, beside the orders that a    *)
(* placement fills and a close or a refund cancels.                        *)
DoneStay == \A i \in DOMAIN orders : ~ Fillable(orders[i]) => orders'[i] = orders[i]

LEMMA CommitKeepsDone ==
    ASSUME NEW b, Commit(b), DoneStands(book, b)
    PROVE  DoneStay
  BY BookIs DEF Commit, DoneStands, DoneStay

LEMMA DoneStep ==
    ASSUME TradingInv, [Next]_vars
    PROVE  DoneStay
  <1>1. MarketTyped /\ book \in Books /\ book.orders = orders BY BookIs DEF TradingInv
  <1>2. ASSUME UNCHANGED orders PROVE DoneStay BY <1>2 DEF DoneStay
  <1>3. ASSUME NEW i \in DOMAIN orders, CancelOrder(i) \/ ExpireOrder(i) PROVE DoneStay
    <2>1. {"CANCELLED", "EXPIRED"} \subseteq OrderStatuses \ FILLABLE_STATUSES
      BY DEF OrderStatuses, FILLABLE_STATUSES
    <2>2. PICK s \in {"CANCELLED", "EXPIRED"} :
              Fillable(orders[i]) /\ Commit(EndOrder(book, i, s))
      BY <1>3 DEF CancelOrder, ExpireOrder, CancelLockedOrder
    <2>3. PICK b : b = EndOrder(book, i, s) OBVIOUS
    <2>4. Within(book, b, {i}) BY <1>1, <2>1, <2>2, <2>3, EndOrderConserves
    <2> QED BY <2>2, <2>3, <2>4, CommitKeepsDone DEF Within
  <1>4. CASE CommitPlacement
    <2>1. PICK b : b = Placed(book) OBVIOUS
    <2>2. txn # None /\ Commit(b) BY <1>4, <2>1 DEF CommitPlacement
    <2>3. txn.request \in Requests /\ txn.makers \subseteq DOMAIN book.orders
      BY <1>1, <2>2 DEF MarketTyped, Placement
    <2> QED BY <1>1, <2>1, <2>2, <2>3, PlacedConserves, CommitKeepsDone
  <1>5. CASE Close \/ Refund
    <2>1. PICK b : b = CancelAll(book) OBVIOUS
    <2>2. DoneStands(book, b) BY <1>1, <2>1, CancelAllConserves DEF Within
    <2>3. Commit(b) \/ orders' = b.orders BY <1>5, <2>1 DEF Close, Refund
    <2>4. CASE Commit(b) BY <2>2, <2>4, CommitKeepsDone
    <2>5. CASE orders' = b.orders BY <1>1, <2>2, <2>5 DEF DoneStands, DoneStay
    <2> QED BY <2>3, <2>4, <2>5
  <1>6. CASE \/ \E r \in Requests : StartPlacement(r)
             \/ LockMakers \/ Suspend \/ Reopen \/ Void \/ \E o \in Outcomes : Resolve(o)
             \/ Settle \/ Tick
    BY <1>2, <1>6 DEF StartPlacement, LockMakers, Suspend, Reopen, Void, Resolve, Settle, Tick
  <1>7. CASE UNCHANGED vars BY <1>2, <1>7 DEF vars
  <1> QED BY <1>3, <1>4, <1>5, <1>6, <1>7 DEF Next

(* What the invariant says in terms of the properties.                     *)
LEMMA MarketIsTyped ==
    ASSUME TradingInv
    PROVE  TypeOK
  <1>1. /\ orders \in OrderList /\ position \in [Keys -> Position]
        /\ wallet \in [Users -> Balance] /\ locked \in Nat
    BY BookIs DEF TradingInv
  <1> QED BY <1>1 DEF TradingInv, MarketTyped, TypeOK, OrderList, Keys, Position, Balance

LEMMA MoneyHolding ==
    ASSUME TradingInv
    PROVE  MoneyHolds
  <1>1. /\ payout = "none" => Sound(book)
        /\ payout = "settled" => MoneyMatches(book)
        /\ payout \in {"none", "settled", "refunded"}
    BY DEF TradingInv, PaidOut, MarketTyped
  <1>2. Solvent
    <2>1. "YES" \in Outcomes /\ "NO" \in Outcomes BY DEF Outcomes
    <2> QED BY <1>1, <2>1, BookIs, HeldIs DEF Solvent, Sound, SharesMatch
  <1>3. MoneyConserved
    <2> DEFINE f == [u \in Users |-> wallet[u].available + wallet[u].reserved]
    <2>1. SumFunction(f) = Money(wallet) BY SumFunctionIsSum DEF Money
    <2>2. payout # "refunded" => Money(wallet) + Unit * locked = InitialFunds * Cardinality(Users)
      BY <1>1, BookIs DEF Sound, MoneyMatches
    <2> QED BY <2>1, <2>2 DEF MoneyConserved
  <1> QED BY <1>2, <1>3 DEF MoneyHolds

LEMMA OrdersBacked ==
    ASSUME TradingInv
    PROVE  OrdersAreBacked
  <1>1. /\ FundsBacked(book) /\ MarketTyped
        /\ payout = "none" => OffersBacked(book)
        /\ payout # "none" => \A k \in Keys : position[k] = NoPosition
    BY DEF TradingInv, PaidOut, Sound, MarketTyped
  <1>2. SharesBackSells
    <2> SUFFICES ASSUME NEW k \in Keys
                 PROVE  /\ position[k].reserved <= position[k].quantity
                        /\ payout = "none" =>
                             position[k].reserved =
                                 SumFunction([i \in DOMAIN orders |-> Offered(orders[i], k)])
      BY DEF SharesBackSells, Keys
    <2> DEFINE f == [i \in DOMAIN orders |-> Offered(orders[i], k)]
    <2>1. SumFunction(f) = Offers(orders, k) BY SumFunctionIsSum DEF Offers
    <2>2. CASE payout = "none" BY <1>1, <2>1, <2>2, BookIs DEF OffersBacked
    <2>3. CASE payout # "none" BY <1>1, <2>3 DEF NoPosition
    <2> QED BY <2>2, <2>3
  <1>3. FundsBackBuys
    <2>1. ASSUME NEW u \in Users
          PROVE  wallet[u].reserved = SumFunction([i \in DOMAIN orders |-> HeldFor(orders[i], u)])
      <3> DEFINE f == [i \in DOMAIN orders |-> HeldFor(orders[i], u)]
      <3>1. SumFunction(f) = SumOf(f, DOMAIN f) /\ DOMAIN f = DOMAIN orders BY SumFunctionIsSum
      <3>2. wallet[u].reserved = Holds(orders, u) BY <1>1, BookIs DEF FundsBacked
      <3> QED BY <3>1, <3>2 DEF Holds
    <2>2. \A i \in DOMAIN orders :
              orders[i].held = IF orders[i].side = "BUY" /\ Fillable(orders[i])
                               THEN Remaining(orders[i]) * orders[i].price ELSE 0
      BY <1>1, BookIs DEF FundsBacked, HeldAsNeeded
    <2> QED BY <2>1, <2>2 DEF FundsBackBuys
  <1>4. LimitsRespected BY <1>1, BookIs DEF FundsBacked, WithinLimit, LimitsRespected
  <1> QED BY <1>2, <1>3, <1>4 DEF OrdersAreBacked

(* The rows of the database have their types: balances and positions are   *)
(* never negative, and no order is filled beyond its quantity.             *)
THEOREM TradingIsTyped == Spec => []TypeOK
  <1>1. Init => TradingInv BY OpeningIsSound
  <1>2. TradingInv /\ [Next]_vars => TradingInv' BY TradingStep
  <1>3. TradingInv => TypeOK BY MarketIsTyped
  <1> QED BY <1>1, <1>2, <1>3, PTL DEF Spec

(* Until the payout the pool holds one unit for every YES share and for    *)
(* every NO share, and until a refund the wallets and the pool together    *)
(* hold what the users brought: fills, complementary matching, releases,   *)
(* cancellation and settlement create no money and lose none.              *)
THEOREM MoneyIsKept == Spec => []MoneyHolds
  <1>1. Init => TradingInv BY OpeningIsSound
  <1>2. TradingInv /\ [Next]_vars => TradingInv' BY TradingStep
  <1>3. TradingInv => MoneyHolds BY MoneyHolding
  <1> QED BY <1>1, <1>2, <1>3, PTL DEF Spec

(* The reserved shares of a position are what its owner's active SELL      *)
(* orders still offer, the reserved balance of a wallet is what his active *)
(* BUY orders still cost at their limits, and no order has traded at a     *)
(* price worse than its limit.                                             *)
THEOREM OrdersStayBacked == Spec => []OrdersAreBacked
  <1>1. Init => TradingInv BY OpeningIsSound
  <1>2. TradingInv /\ [Next]_vars => TradingInv' BY TradingStep
  <1>3. TradingInv => OrdersAreBacked BY OrdersBacked
  <1> QED BY <1>1, <1>2, <1>3, PTL DEF Spec

(* An order that is filled, cancelled or expired never changes again: no   *)
(* later placement fills it, neither in its own book nor as a complement,  *)
(* no loop of a close or a refund releases its funds a second time, and    *)
(* nothing reopens it.                                                     *)
THEOREM DoneOrdersStand == Spec => DoneIsFinal
  <1>1. Init => TradingInv BY OpeningIsSound
  <1>2. TradingInv /\ [Next]_vars => TradingInv' BY TradingStep
  <1>3. TradingInv /\ [Next]_vars =>
            [\A i \in DOMAIN orders : ~ Fillable(orders[i]) => orders'[i] = orders[i]]_vars
    BY DoneStep DEF DoneStay
  <1> QED BY <1>1, <1>2, <1>3, PTL DEF Spec, DoneIsFinal

LEMMA OpeningIsQuiet ==
    ASSUME Init
    PROVE  Quiet /\ Found
  <1>1. Found BY DEF Init, Found, FoundAt
  <1>2. \A i \in DOMAIN orders : orders[i].user = Provider BY DEF OpeningOrder, NewOrder, Init
  <1>3. \A i, m \in DOMAIN orders : ~ MayTrade(orders[i], orders[m])
    BY <1>2 DEF MayTrade, Crosses, Pairs
  <1> QED BY <1>1, <1>3 DEF Quiet, QuietAt

(* Whatever can trade has traded: while the market is open no two live     *)
(* orders of different users could be matched, in the book of an outcome   *)
(* or as complements, whatever was cancelled, expired or placed between    *)
(* the locking of the makers and the commit of a placement.                *)
THEOREM NothingIsLeft == Spec => []NothingLeftToMatch
  <1>1. Init => TradingInv /\ Found /\ Quiet BY OpeningIsSound, OpeningIsQuiet
  <1>2. TradingInv /\ Found /\ Quiet /\ [Next]_vars => (TradingInv /\ Found /\ Quiet)'
    BY TradingStep, QuietStep
  <1>3. Quiet => NothingLeftToMatch BY QuietMarket
  <1> QED BY <1>1, <1>2, <1>3, PTL DEF Spec

(* A placement fills an order only when every live order it should have    *)
(* met first is used up: better prices before worse ones, older orders     *)
(* before younger ones at one price, complements in the order of their     *)
(* creation.                                                               *)
THEOREM PriorityIsKept == Spec => PriorityRespected
  <1>1. Init => TradingInv /\ Found /\ Quiet BY OpeningIsSound, OpeningIsQuiet
  <1>2. TradingInv /\ Found /\ Quiet /\ [Next]_vars => (TradingInv /\ Found /\ Quiet)'
    BY TradingStep, QuietStep
  <1>3. TradingInv /\ Found /\ [Next]_vars =>
            [\A t \in (DOMAIN orders') \ DOMAIN orders, i, m \in DOMAIN orders :
                /\ orders'[m].filled > orders[m].filled
                /\ Live(orders[i]) /\ orders[i].user # orders'[t].user
                /\ orders[i].side = orders[m].side /\ orders[i].outcome = orders[m].outcome
                /\ Ahead(i, m, orders'[t])
                => Remaining(orders'[i]) = 0]_vars
    BY PriorityStep, LiveIs
  <1> QED BY <1>1, <1>2, <1>3, PTL DEF Spec, PriorityRespected
=============================================================================
