------------------------------- MODULE Store -------------------------------
(***************************************************************************)
(* The merchandise store: StoreService.checkout and transition_order, and  *)
(* the product endpoints of the club's staff.                              *)
(*                                                                         *)
(* A checkout is one transaction that locks the products of the cart in    *)
(* the order of their ids and then the wallet of the buyer; a cancellation *)
(* locks the order, the wallet and then the product. Whoever waits in a    *)
(* cycle is rolled back by the database. PATCH reads a product without a   *)
(* lock and writes back every column, the reserved stock included.         *)
(* A club sells one product at the price of one unit, so an order has one  *)
(* line; there is one buyer.                                               *)
(***************************************************************************)
EXTENDS Integers, SequencesExt, Sums

CONSTANTS
    Products,     \* ids of the products, numbers
    Keys,         \* idempotency keys of the checkouts
    Buyers, Staff,   \* concurrent requests of the buyer, of the club's staff
    Funds,        \* the buyer's balance
    MaxStock,     \* bound on the stock
    MaxOrders,    \* bound on the orders
    None

(* What the constants must satisfy.                                        *)
StoreAssumption ==
    /\ Products \subseteq Nat /\ IsFiniteSet(Products)
    /\ IsFiniteSet(Keys)
    /\ Funds \in Nat /\ MaxStock \in Nat

Clients == Buyers \cup Staff
Statuses == {"ACTIVE", "PAUSED"}       \* orderable, or any other status
MerchandiseProducts == [stock : 0..MaxStock, reserved : 0..MaxStock, status : Statuses]
OrderStatuses == {"PAID", "PROCESSING", "READY_FOR_COLLECTION", "SHIPPED",
                  "DELIVERED", "CANCELLED"}
Carts == [Products -> 0..MaxStock] \ {[p \in Products |-> 0]}
StoreOrders == [key : Keys, product : Products, quantity : 1..MaxStock, status : OrderStatuses]

VARIABLES
    products,     \* MerchandiseProduct rows
    orders,       \* StoreOrder rows, with their only StoreOrderItem
    available,    \* balance of the buyer's wallet
    payments,     \* amount of the SPEND transaction of each key
    refunded,     \* orders with a STORE-REFUND transaction
    calls,        \* where each request is, and the rows it holds
    overwritten,  \* products whose reserved stock a PATCH has changed
    reused        \* keys sent with more than one cart

vars == <<products, orders, available, payments, refunded, calls, overwritten, reused>>

Idle == [step |-> "idle", key |-> None, cart |-> [p \in Products |-> 0],
         rows |-> {}, wallet |-> FALSE, order |-> 0, new |-> None, seen |-> None]

TypeOK ==
    /\ products \in [Products -> MerchandiseProducts]
    /\ orders \in Seq(StoreOrders)
    /\ available \in Nat
    /\ payments \in [Keys -> 0..Funds]
    /\ refunded \subseteq DOMAIN orders
    /\ overwritten \subseteq Products /\ reused \subseteq Keys
    /\ \A c \in Clients : calls[c].rows \subseteq Products

Init ==
    /\ products \in [Products -> {[stock |-> n, reserved |-> 0, status |-> "ACTIVE"] :
                                     n \in 1..MaxStock}]
    /\ orders = << >> /\ available = Funds
    /\ payments = [k \in Keys |-> 0] /\ refunded = {}
    /\ calls = [c \in Clients |-> Idle]
    /\ overwritten = {} /\ reused = {}

At(c, step) == calls[c].step = step
Finish(c) == calls' = [calls EXCEPT ![c] = Idle]
Free(p, c) == \A d \in Clients \ {c} : p \notin calls[d].rows
WalletFree(c) == \A d \in Clients \ {c} : ~calls[d].wallet
OrdersOf(k) == {i \in DOMAIN orders : orders[i].key = k}
Total(cart) == MapThenSumSet(LAMBDA p : cart[p], Products)
AvailableStock(p) == products[p].stock - products[p].reserved

-----------------------------------------------------------------------------
(* checkout: a key with orders is answered with them.                      *)
Checkout(c, k, cart) ==
    /\ At(c, "idle") /\ OrdersOf(k) = {}
    /\ calls' = [calls EXCEPT ![c] = [Idle EXCEPT !.step = "lock", !.key = k, !.cart = cart]]
    /\ reused' = IF \E d \in Clients : calls[d].key = k /\ calls[d].cart # cart
                 THEN reused \cup {k} ELSE reused
    /\ UNCHANGED <<products, orders, available, payments, refunded, overwritten>>

Unlocked(c) == {p \in Products : calls[c].cart[p] > 0} \ calls[c].rows

LockProduct(c) ==
    /\ At(c, "lock")
    /\ LET p == Min(Unlocked(c)) IN
       /\ Free(p, c)
       /\ calls' = [calls EXCEPT ![c].rows = @ \cup {p},
                                 ![c].step = IF Unlocked(c) = {p} THEN "spend" ELSE @]
    /\ UNCHANGED <<products, orders, available, payments, refunded, overwritten, reused>>

OrderableUnchecked(c) == TRUE
Orderable(c) ==
    \A p \in calls[c].rows :
        products[p].status = "ACTIVE" /\ AvailableStock(p) >= calls[c].cart[p]

(* spend_available_balance: a transaction of the key is the payment if it  *)
(* has the amount, else the wallet is debited.                             *)
MaySpend(k, total) ==
    IF payments[k] > 0 THEN payments[k] = total ELSE total <= available

(* One order per club; the buyer, the club and the key are unique.         *)
UniqueKey(c) == \A i \in OrdersOf(calls[c].key) : orders[i].product \notin calls[c].rows
InOrder(rows) ==
    CHOOSE s \in Surjection(1..Cardinality(rows), rows) :
        \A i, j \in DOMAIN s : i < j => s[i] < s[j]
NewOrders(c) ==
    [i \in 1..Cardinality(calls[c].rows) |->
        LET p == InOrder(calls[c].rows)[i] IN
        [key |-> calls[c].key, product |-> p, quantity |-> calls[c].cart[p],
         status |-> "PAID"]]

Pay(c) ==
    LET k == calls[c].key
        total == Total(calls[c].cart)
    IN
    /\ At(c, "spend") /\ WalletFree(c)
    /\ Orderable(c) /\ MaySpend(k, total) /\ UniqueKey(c)
    /\ Len(orders) + Cardinality(calls[c].rows) <= MaxOrders
    /\ available' = IF payments[k] > 0 THEN available ELSE available - total
    /\ payments' = [payments EXCEPT ![k] = total]
    /\ orders' = orders \o NewOrders(c)
    /\ products' = [p \in Products |-> [products[p] EXCEPT !.reserved = @ + calls[c].cart[p]]]
    /\ Finish(c)
    /\ UNCHANGED <<refunded, overwritten, reused>>

(* Anything else is refused, and nothing of the transaction stays.         *)
CheckoutRefused(c) ==
    /\ At(c, "spend")
    /\ \/ ~Orderable(c)
       \/ WalletFree(c) /\ ~(MaySpend(calls[c].key, Total(calls[c].cart)) /\ UniqueKey(c))
    /\ Finish(c)
    /\ UNCHANGED <<products, orders, available, payments, refunded, overwritten, reused>>

-----------------------------------------------------------------------------
CancelledAgain ==
    [PAID |-> {"PROCESSING", "CANCELLED"},
     PROCESSING |-> {"READY_FOR_COLLECTION", "SHIPPED", "CANCELLED"},
     READY_FOR_COLLECTION |-> {"DELIVERED", "CANCELLED"},
     SHIPPED |-> {"DELIVERED"}, DELIVERED |-> {}, CANCELLED |-> {"CANCELLED"}]
TRANSITIONS ==
    [PAID |-> {"PROCESSING", "CANCELLED"},
     PROCESSING |-> {"READY_FOR_COLLECTION", "SHIPPED", "CANCELLED"},
     READY_FOR_COLLECTION |-> {"DELIVERED", "CANCELLED"},
     SHIPPED |-> {"DELIVERED"}, DELIVERED |-> {}, CANCELLED |-> {}]

OrderFree(i) == \A d \in Clients : calls[d].order # i

(* StoreOrderViewSet.fulfilment and transition_order, under a lock on the  *)
(* order.                                                                  *)
Transition(c, i, new) ==
    /\ At(c, "idle") /\ OrderFree(i)
    /\ new \in TRANSITIONS[orders[i].status]
    /\ IF new \in {"DELIVERED", "CANCELLED"}
       THEN /\ calls' = [calls EXCEPT ![c] = [Idle EXCEPT !.order = i, !.new = new,
                            !.step = IF new = "CANCELLED" THEN "refund" ELSE "stock"]]
            /\ UNCHANGED orders
       ELSE orders' = [orders EXCEPT ![i].status = new] /\ UNCHANGED calls
    /\ UNCHANGED <<products, available, payments, refunded, overwritten, reused>>

LockWallet(c) ==
    /\ At(c, "refund") /\ WalletFree(c)
    /\ calls' = [calls EXCEPT ![c].step = "stock", ![c].wallet = TRUE]
    /\ UNCHANGED <<products, orders, available, payments, refunded, overwritten, reused>>

ReleasesNothing(c) == products
StockAfter(c) ==
    LET o == orders[calls[c].order]
        sold == IF calls[c].new = "DELIVERED" THEN o.quantity ELSE 0
    IN  [products EXCEPT ![o.product].reserved = @ - o.quantity,
                         ![o.product].stock = @ - sold]

(* MerchandiseProduct.save.                                                *)
SaveAccepted(row) == row.stock >= 0 /\ row.reserved >= 0 /\ row.reserved <= row.stock

(* The product is locked, the refund is credited and all is committed, or  *)
(* the product cannot be saved and all is undone.                          *)
EndTransition(c) ==
    LET i == calls[c].order
        p == orders[i].product
    IN
    /\ At(c, "stock") /\ Free(p, c)
    /\ IF SaveAccepted(StockAfter(c)[p])
       THEN /\ products' = StockAfter(c)
            /\ orders' = [orders EXCEPT ![i].status = calls[c].new]
            /\ IF calls[c].new = "CANCELLED"
               THEN available' = available + orders[i].quantity /\ refunded' = refunded \cup {i}
               ELSE UNCHANGED <<available, refunded>>
       ELSE UNCHANGED <<products, orders, available, refunded>>
    /\ Finish(c)
    /\ UNCHANGED <<payments, overwritten, reused>>

-----------------------------------------------------------------------------
(* MerchandiseProductViewSet: PATCH.                                       *)
ReadProduct(c, p) ==
    /\ At(c, "idle")
    /\ calls' = [calls EXCEPT ![c] = [Idle EXCEPT !.step = "edit",
                                        !.seen = [product |-> p, row |-> products[p]]]]
    /\ UNCHANGED <<products, orders, available, payments, refunded, overwritten, reused>>

Patch(c, stock, status) ==
    LET p == calls[c].seen.product
        row == [calls[c].seen.row EXCEPT !.stock = stock, !.status = status]
    IN
    /\ At(c, "edit") /\ Free(p, c)
    /\ IF SaveAccepted(row)
       THEN /\ products' = [products EXCEPT ![p] = row]
            /\ overwritten' = IF row.reserved # products[p].reserved
                              THEN overwritten \cup {p} ELSE overwritten
       ELSE UNCHANGED <<products, overwritten>>
    /\ Finish(c)
    /\ UNCHANGED <<orders, available, payments, refunded, reused>>

-----------------------------------------------------------------------------
(* What a request waits for, and who holds it.                             *)
WaitsFor(c, d) ==
    \/ At(c, "lock") /\ Min(Unlocked(c)) \in calls[d].rows
    \/ At(c, "spend") /\ calls[d].wallet
    \/ At(c, "stock") /\ orders[calls[c].order].product \in calls[d].rows

(* The database ends a cycle by rolling one of its transactions back.      *)
DeadlockVictim(c) ==
    /\ \E d \in Clients : WaitsFor(c, d) /\ WaitsFor(d, c)
    /\ Finish(c)
    /\ UNCHANGED <<products, orders, available, payments, refunded, overwritten, reused>>

(* A worker stops: its transaction is rolled back.                         *)
Stop(c) ==
    /\ ~At(c, "idle")
    /\ Finish(c)
    /\ UNCHANGED <<products, orders, available, payments, refunded, overwritten, reused>>

Next ==
    \/ \E c \in Buyers :
          \/ LockProduct(c) \/ Pay(c) \/ CheckoutRefused(c)
          \/ \E k \in Keys, cart \in Carts : Checkout(c, k, cart)
    \/ \E c \in Staff :
          \/ LockWallet(c) \/ EndTransition(c)
          \/ \E i \in DOMAIN orders, new \in OrderStatuses : Transition(c, i, new)
          \/ \E p \in Products : ReadProduct(c, p)
          \/ \E stock \in 0..MaxStock, status \in Statuses : Patch(c, stock, status)
    \/ \E c \in Clients : DeadlockVictim(c) \/ Stop(c)

Spec == Init /\ [][Next]_vars

-----------------------------------------------------------------------------
Open == {i \in DOMAIN orders : orders[i].status \notin {"DELIVERED", "CANCELLED"}}
Sum(rows) == MapThenSumSet(LAMBDA i : orders[i].quantity, rows)

(* The reserved stock of a product is what its open orders hold, however   *)
(* checkouts, deliveries, cancellations and deadlocks interleave, until a  *)
(* PATCH has written an old value back; and it never exceeds the stock.    *)
ReservedBacksOrders ==
    \A p \in Products :
        /\ SaveAccepted(products[p])
        /\ p \notin overwritten =>
              products[p].reserved = Sum({i \in Open : orders[i].product = p})

(* The buyer has paid for every order once and got back every cancelled    *)
(* one: the payment of a key is the total of its orders, unless the key    *)
(* was used for two carts side by side, and no money is made or lost.      *)
OrdersArePaid ==
    /\ \A k \in Keys \ reused : payments[k] = Sum(OrdersOf(k))
    /\ available = Funds - MapThenSumSet(LAMBDA k : payments[k], Keys) + Sum(refunded)
    /\ refunded = {i \in DOMAIN orders : orders[i].status = "CANCELLED"}

(* What checkout is for, and its view says: every order is debited.        *)
EveryOrderDebited == \A k \in Keys : payments[k] = Sum(OrdersOf(k))

-----------------------------------------------------------------------------
(* Proofs, for any products, keys and bounds. A request that holds a cart  *)
(* locks the rows of that cart only, and all of them before it pays; the   *)
(* requests of a key carry the same cart unless the key is reused, so that *)
(* the orders of a key, once there are any, are those of every cart sent   *)
(* under it; and an order that is to be delivered or cancelled is in the   *)
(* hands of one request.                                                   *)
Wanted(cart) == {p \in Products : cart[p] > 0}
Shops(c) == calls[c].step \in {"lock", "spend"}
Moves(c) == calls[c].step \in {"refund", "stock"}
Ended == {"DELIVERED", "CANCELLED"}
IsOpen(o, i) == o[i].status \notin Ended
OpenOf(o, p) == {i \in DOMAIN o : IsOpen(o, i) /\ o[i].product = p}
Under(o, k) == {i \in DOMAIN o : o[i].key = k}
Amounts(o) == [i \in DOMAIN o |-> o[i].quantity]

CallRows == [step : {"idle", "lock", "spend", "refund", "stock", "edit"},
             key : Keys \cup {None}, cart : [Products -> 0..MaxStock],
             rows : SUBSET Products, wallet : BOOLEAN, order : Nat,
             new : OrderStatuses \cup {None},
             seen : [product : Products, row : MerchandiseProducts] \cup {None}]

StoreTyped ==
    /\ products \in [Products -> MerchandiseProducts]
    /\ orders \in Seq(StoreOrders)
    /\ available \in Nat
    /\ payments \in [Keys -> Nat]
    /\ DOMAIN calls = Clients

CallTyped(c) ==
    /\ calls[c] \in CallRows
    /\ Shops(c) => /\ calls[c].key \in Keys /\ Wanted(calls[c].cart) # {}
                   /\ calls[c].rows \subseteq Wanted(calls[c].cart)
    /\ calls[c].step = "lock" => calls[c].rows # Wanted(calls[c].cart)
    /\ calls[c].step = "spend" => calls[c].rows = Wanted(calls[c].cart)
    /\ Moves(c) => /\ calls[c].order \in DOMAIN orders /\ IsOpen(orders, calls[c].order)
                   /\ calls[c].new \in Ended
    /\ calls[c].step = "edit" =>
           calls[c].seen \in [product : Products, row : MerchandiseProducts]

OrdersInHand ==
    \A c, d \in Clients : Moves(c) /\ Moves(d) /\ calls[c].order = calls[d].order => c = d

OneCartPerKey ==
    \A c \in Clients : Shops(c) /\ calls[c].key \notin reused =>
        /\ \A d \in Clients : Shops(d) /\ calls[d].key = calls[c].key =>
               calls[d].cart = calls[c].cart
        /\ Under(orders, calls[c].key) # {} =>
               \A p \in Wanted(calls[c].cart) :
                   \E i \in Under(orders, calls[c].key) : orders[i].product = p

StockHeld ==
    \A p \in Products :
        /\ SaveAccepted(products[p])
        /\ p \notin overwritten => products[p].reserved = SumOf(Amounts(orders), OpenOf(orders, p))

MoneyHeld ==
    /\ \A k \in Keys \ reused : payments[k] = SumOf(Amounts(orders), Under(orders, k))
    /\ available = Funds - SumOf(payments, Keys) + SumOf(Amounts(orders), refunded)
    /\ refunded = {i \in DOMAIN orders : orders[i].status = "CANCELLED"}

StoreInv ==
    /\ StoreTyped /\ \A c \in Clients : CallTyped(c)
    /\ OrdersInHand /\ OneCartPerKey /\ StockHeld /\ MoneyHeld

(* The sums of the properties are the ones of SumOf.                       *)
QuantityIn(o, S) ==
    (CHOOSE g : g = [s \in SUBSET S |->
                        IF s = {} THEN 0
                        ELSE o[CHOOSE x \in s : TRUE].quantity
                             + g[s \ {CHOOSE x \in s : TRUE}]])[S]

LEMMA SumIsQuantityIn == \A S : Sum(S) = QuantityIn(orders, S)
  BY DEF Sum, MapThenSumSet, MapThenFoldSet, QuantityIn

LEMMA QuantityInIsSum ==
    ASSUME NEW o, NEW S, IsFiniteSet(S), S \subseteq DOMAIN o,
           \A p \in S : o[p].quantity \in Int
    PROVE  QuantityIn(o, S) = SumOf(Amounts(o), S)
  <1> DEFINE G == CHOOSE g : g = [s \in SUBSET S |->
                        IF s = {} THEN 0
                        ELSE o[CHOOSE x \in s : TRUE].quantity
                             + g[s \ {CHOOSE x \in s : TRUE}]]
  <1>0. PICK f : f = Amounts(o) OBVIOUS
  <1>1. \A p \in S : f[p] \in Int /\ f[p] = o[p].quantity BY <1>0 DEF Amounts
  <1>2. PICK g \in [SUBSET S -> Int] :
            (\A s \in SUBSET S : Solves(g, f, s)) /\ SumOf(f, S) = g[S]
    BY <1>1, SumIsSolution
  <1>3. g = [s \in SUBSET S |->
                        IF s = {} THEN 0
                        ELSE o[CHOOSE x \in s : TRUE].quantity
                             + g[s \ {CHOOSE x \in s : TRUE}]]
    BY <1>1, <1>2, SomeIsMember DEF Solves, Some
  <1>4. PICK h : /\ h = [s \in SUBSET S |->
                        IF s = {} THEN 0
                        ELSE o[CHOOSE x \in s : TRUE].quantity
                             + h[s \ {CHOOSE x \in s : TRUE}]]
                 /\ QuantityIn(o, S) = h[S]
    <2>1. G = [s \in SUBSET S |->
                        IF s = {} THEN 0
                        ELSE o[CHOOSE x \in s : TRUE].quantity
                             + G[s \ {CHOOSE x \in s : TRUE}]]
      BY <1>3, Zenon
    <2> QED BY <2>1, Zenon DEF QuantityIn
  <1>5. \A s \in SUBSET S : Solves(h, f, s) BY <1>1, <1>4, SomeIsMember DEF Solves, Some
  <1>6. SumOf(f, S) = h[S] BY <1>1, <1>5, SumOfSubset
  <1> QED BY <1>0, <1>4, <1>6

LEMMA TotalsAreSums ==
    /\ \A cart : Total(cart) = SumOf(cart, Products)
    /\ MapThenSumSet(LAMBDA k : payments[k], Keys) = SumOf(payments, Keys)
  BY DEF Total, MapThenSumSet, MapThenFoldSet, SumOf, Some

(* A sequence of orders: finite, each with a quantity.                     *)
LEMMA OrdersAre ==
    ASSUME StoreAssumption, NEW o \in Seq(StoreOrders)
    PROVE  /\ IsFiniteSet(DOMAIN o) /\ DOMAIN o = 1..Len(o) /\ Len(o) \in Nat
           /\ \A i \in DOMAIN o : /\ o[i] \in StoreOrders /\ o[i].quantity \in Nat
                                  /\ o[i].quantity >= 1 /\ o[i].quantity <= MaxStock
                                  /\ Amounts(o)[i] = o[i].quantity
                                  /\ o[i].product \in Products /\ o[i].key \in Keys
           /\ \A S \in SUBSET DOMAIN o :
                 IsFiniteSet(S) /\ (\A i \in S : Amounts(o)[i] \in Nat)
                 /\ SumOf(Amounts(o), S) \in Nat
  <1>1. IsFiniteSet(DOMAIN o) /\ DOMAIN o = 1..Len(o) /\ Len(o) \in Nat BY FS_Interval
  <1>2. ASSUME NEW i \in DOMAIN o
        PROVE  /\ o[i] \in StoreOrders /\ o[i].quantity \in Nat
               /\ o[i].quantity >= 1 /\ o[i].quantity <= MaxStock
               /\ Amounts(o)[i] = o[i].quantity
               /\ o[i].product \in Products /\ o[i].key \in Keys
    <2>1. o[i] \in StoreOrders BY <1>1
    <2>2. o[i].quantity \in 1..MaxStock /\ o[i].product \in Products /\ o[i].key \in Keys
      BY <2>1 DEF StoreOrders
    <2>3. o[i].quantity \in Nat /\ o[i].quantity >= 1 /\ o[i].quantity <= MaxStock
      BY <2>2 DEF StoreAssumption
    <2>4. Amounts(o)[i] = o[i].quantity BY DEF Amounts
    <2> QED BY <2>1, <2>2, <2>3, <2>4
  <1>3. ASSUME NEW S \in SUBSET DOMAIN o
        PROVE  /\ IsFiniteSet(S) /\ (\A i \in S : Amounts(o)[i] \in Nat)
               /\ SumOf(Amounts(o), S) \in Nat
    BY <1>1, <1>2, FS_Subset, SumIsNatural
  <1> QED BY <1>1, <1>2, <1>3

LEMMA StoreInvSays ==
    ASSUME StoreAssumption, StoreInv
    PROVE  ReservedBacksOrders /\ OrdersArePaid
  <1>1. ASSUME NEW S \in SUBSET DOMAIN orders PROVE Sum(S) = SumOf(Amounts(orders), S)
    BY OrdersAre, QuantityInIsSum, SumIsQuantityIn DEF StoreInv, StoreTyped
  <1>2. ASSUME NEW p \in Products
        PROVE  /\ {i \in Open : orders[i].product = p} = OpenOf(orders, p)
               /\ OpenOf(orders, p) \in SUBSET DOMAIN orders
    BY DEF Open, OpenOf, IsOpen, Ended
  <1>3. ReservedBacksOrders BY <1>1, <1>2 DEF ReservedBacksOrders, StoreInv, StockHeld
  <1>4. \A k \in Keys : OrdersOf(k) = Under(orders, k) /\ Under(orders, k) \in SUBSET DOMAIN orders
    BY DEF OrdersOf, Under
  <1>5. refunded \in SUBSET DOMAIN orders BY DEF StoreInv, MoneyHeld
  <1>6. OrdersArePaid BY <1>1, <1>4, <1>5, TotalsAreSums DEF OrdersArePaid, StoreInv, MoneyHeld
  <1> QED BY <1>3, <1>6

LEMMA IdleIs ==
    ASSUME StoreAssumption
    PROVE  /\ Idle \in CallRows
           /\ Idle.step = "idle" /\ Idle.cart \in [Products -> 0..MaxStock]
           /\ Idle.rows = {} /\ Idle.key = None /\ Idle.order = 0
  BY DEF StoreAssumption, Idle, CallRows

LEMMA StoreInit == StoreAssumption /\ Init => StoreInv
  <1> SUFFICES ASSUME StoreAssumption, Init PROVE StoreInv OBVIOUS
  <1>1. orders = << >> /\ orders \in Seq(StoreOrders) /\ DOMAIN orders = {} BY DEF Init
  <1>2. products \in [Products -> MerchandiseProducts]
        /\ \A p \in Products : SaveAccepted(products[p]) /\ products[p].reserved = 0
    <2>1. \A p \in Products : \E n \in 1..MaxStock :
              products[p] = [stock |-> n, reserved |-> 0, status |-> "ACTIVE"]
      BY DEF Init
    <2>2. \A n \in 1..MaxStock : n \in 0..MaxStock /\ 0 \in 0..MaxStock /\ n >= 0
      BY DEF StoreAssumption
    <2>3. \A p \in Products : products[p] \in MerchandiseProducts
              /\ SaveAccepted(products[p]) /\ products[p].reserved = 0
      <3> SUFFICES ASSUME NEW p \in Products
                   PROVE  /\ products[p] \in MerchandiseProducts
                          /\ SaveAccepted(products[p]) /\ products[p].reserved = 0
        OBVIOUS
      <3>1. PICK n \in 1..MaxStock : products[p] = [stock |-> n, reserved |-> 0, status |-> "ACTIVE"]
        BY <2>1
      <3>2. /\ products[p].stock = n /\ products[p].reserved = 0
            /\ products[p] \in MerchandiseProducts
        BY <2>2, <3>1 DEF MerchandiseProducts, Statuses
      <3> QED BY <2>2, <3>2 DEF SaveAccepted
    <2>4. products \in [Products -> {[stock |-> n, reserved |-> 0, status |-> "ACTIVE"] :
                                        n \in 1..MaxStock}]
      BY DEF Init
    <2> QED BY <2>3, <2>4
  <1>3. \A c \in Clients : calls[c].step = "idle" /\ calls[c] \in CallRows BY IdleIs DEF Init
  <1>4. \A c \in Clients : CallTyped(c) /\ ~Shops(c) /\ ~Moves(c)
    BY <1>3 DEF CallTyped, Shops, Moves
  <1>5. StoreTyped BY <1>1, <1>2 DEF StoreTyped, Init, StoreAssumption
  <1>6. OrdersInHand /\ OneCartPerKey BY <1>4 DEF OrdersInHand, OneCartPerKey
  <1>7. \A S : S \subseteq DOMAIN orders => SumOf(Amounts(orders), S) = 0 BY <1>1, SumOfNothing
  <1>8. StockHeld BY <1>2, <1>7 DEF OpenOf, StockHeld
  <1>9. MoneyHeld
    <2>1. \A k \in Keys : Under(orders, k) \subseteq DOMAIN orders BY DEF Under
    <2>2. refunded = {} /\ {i \in DOMAIN orders : orders[i].status = "CANCELLED"} = {}
      BY <1>1 DEF Init
    <2>3. \A k \in Keys : payments[k] = 0 BY DEF Init
    <2>4. SumOf(payments, Keys) = 0 BY <2>3, SumOfConstant, FS_CardinalityType DEF StoreAssumption
    <2>5. SumOf(Amounts(orders), refunded) = 0 BY <2>2, SumOfNothing
    <2>6. available = Funds - 0 + 0 BY DEF Init, StoreAssumption
    <2> QED BY <1>7, <2>1, <2>2, <2>3, <2>4, <2>5, <2>6 DEF MoneyHeld
  <1> QED BY <1>4, <1>5, <1>6, <1>8, <1>9 DEF StoreInv

(* A request goes on or ends, and changes nothing else.                    *)
LEMMA CallStep ==
    ASSUME StoreInv, NEW c \in Clients, NEW v, calls' = [calls EXCEPT ![c] = v],
           UNCHANGED <<products, orders, available, payments, refunded, overwritten, reused>>,
           CallTyped(c)',
           Shops(c)' => Shops(c) /\ v.key = calls[c].key /\ v.cart = calls[c].cart,
           Moves(c)' => \A d \in Clients \ {c} : Moves(d) => calls[d].order # v.order
    PROVE  StoreInv'
  <1>1. /\ calls'[c] = v /\ DOMAIN calls' = Clients
        /\ \A d \in Clients : d # c => calls'[d] = calls[d]
    BY DEF StoreInv, StoreTyped
  <1>2. StoreTyped' BY <1>1 DEF StoreInv, StoreTyped
  <1>3. ASSUME NEW d \in Clients PROVE CallTyped(d)'
    BY <1>1 DEF StoreInv, CallTyped, Shops, Moves, IsOpen
  <1>4. \A d \in Clients : Shops(d)' =>
            Shops(d) /\ calls'[d].key = calls[d].key /\ calls'[d].cart = calls[d].cart
    BY <1>1 DEF Shops
  <1>5. OneCartPerKey' BY <1>4 DEF StoreInv, OneCartPerKey, Shops, Under, Wanted
  <1>6. OrdersInHand' BY <1>1 DEF OrdersInHand, Moves, StoreInv
  <1>7. StockHeld' BY DEF StoreInv, StockHeld, SaveAccepted, Amounts, OpenOf, IsOpen
  <1>8. MoneyHeld' BY DEF StoreInv, MoneyHeld, Amounts, Under
  <1> QED BY <1>2, <1>3, <1>5, <1>6, <1>7, <1>8 DEF StoreInv

(* A request that ends has nothing in hand.                                *)
LEMMA EndedCall ==
    ASSUME StoreAssumption, StoreInv, NEW c \in Clients, Finish(c)
    PROVE  /\ DOMAIN calls' = Clients
           /\ \A d \in Clients : d # c => calls'[d] = calls[d]
           /\ CallTyped(c)' /\ ~Shops(c)' /\ ~Moves(c)'
           /\ \A d \in Clients : Shops(d)' => Shops(d) /\ d # c
           /\ OrdersInHand'
  <1>1. /\ calls'[c] = Idle /\ DOMAIN calls' = Clients
        /\ \A d \in Clients : d # c => calls'[d] = calls[d]
    BY DEF Finish, StoreInv, StoreTyped
  <1>2. ~Shops(c)' /\ ~Moves(c)' /\ calls'[c].step = "idle" BY <1>1, IdleIs DEF Shops, Moves
  <1>3. CallTyped(c)' BY <1>1, <1>2, IdleIs DEF CallTyped
  <1>4. \A d \in Clients : Shops(d)' => Shops(d) /\ d # c BY <1>1, <1>2 DEF Shops
  <1>5. OrdersInHand' BY <1>1, <1>2 DEF Moves, StoreInv, OrdersInHand
  <1> QED BY <1>1, <1>2, <1>3, <1>4, <1>5

LEMMA FinishIsSafe ==
    ASSUME StoreAssumption, StoreInv, NEW c \in Clients, Finish(c),
           UNCHANGED <<products, orders, available, payments, refunded, overwritten, reused>>
    PROVE  StoreInv'
  BY EndedCall, CallStep DEF Finish

LEMMA CheckoutIsSafe ==
    ASSUME StoreAssumption, StoreInv, NEW c \in Clients, NEW k \in Keys, NEW cart \in Carts,
           Checkout(c, k, cart)
    PROVE  StoreInv'
  <1> DEFINE v == [Idle EXCEPT !.step = "lock", !.key = k, !.cart = cart]
  <1>1. /\ v.step = "lock" /\ v.key = k /\ v.cart = cart /\ v.rows = {} BY DEF Idle
  <1>2. calls' = [calls EXCEPT ![c] = v] BY DEF Checkout
  <1> HIDE DEF v
  <1>3. /\ calls'[c] = v /\ DOMAIN calls' = Clients
        /\ \A d \in Clients : d # c => calls'[d] = calls[d]
    BY <1>2 DEF StoreInv, StoreTyped
  <1>4. /\ UNCHANGED <<products, orders, available, payments, refunded, overwritten>>
        /\ Under(orders, k) = {}
        /\ reused' = IF \E d \in Clients : calls[d].key = k /\ calls[d].cart # cart
                     THEN reused \cup {k} ELSE reused
    BY DEF Checkout, OrdersOf, Under
  <1>5. cart \in [Products -> 0..MaxStock] /\ Wanted(cart) # {}
    BY DEF Carts, StoreAssumption, Wanted
  <1>6. CallTyped(c)' /\ ~Moves(c)'
    BY <1>1, <1>3, <1>5, IdleIs DEF v, CallRows, CallTyped, Shops, Moves
  <1>7. ASSUME NEW d \in Clients PROVE CallTyped(d)'
    BY <1>3, <1>4, <1>6 DEF StoreInv, CallTyped, Shops, Moves, IsOpen
  <1>8. OrdersInHand' BY <1>3, <1>6 DEF Moves, StoreInv, OrdersInHand
  <1>9. OneCartPerKey'
    <2> SUFFICES ASSUME NEW d \in Clients, Shops(d)', calls'[d].key \notin reused'
                 PROVE  /\ \A e \in Clients : Shops(e)' /\ calls'[e].key = calls'[d].key =>
                               calls'[e].cart = calls'[d].cart
                        /\ Under(orders, calls'[d].key) # {} =>
                               \A p \in Wanted(calls'[d].cart) :
                                   \E i \in Under(orders, calls'[d].key) : orders[i].product = p
      BY <1>4 DEF OneCartPerKey, Shops, Under, Wanted
    <2>1. reused \subseteq reused' BY <1>4
    <2>2. k \notin reused' => \A e \in Clients : calls[e].key = k => calls[e].cart = cart BY <1>4
    <2>3. CASE calls'[d].key = k BY <1>1, <1>3, <1>4, <2>2, <2>3
    <2>4. CASE calls'[d].key # k BY <1>1, <1>3, <2>1, <2>4 DEF Shops, StoreInv, OneCartPerKey
    <2> QED BY <2>3, <2>4
  <1>10. StockHeld' BY <1>4 DEF StoreInv, StockHeld, SaveAccepted, Amounts, OpenOf, IsOpen
  <1>11. MoneyHeld'
    <2>1. \A j \in Keys \ reused' : j \in Keys \ reused BY <1>4
    <2>2. (\A j \in Keys \ reused : payments[j] = SumOf(Amounts(orders), Under(orders, j)))'
      BY <1>4, <2>1 DEF StoreInv, MoneyHeld, Amounts, Under
    <2>3. (available = Funds - SumOf(payments, Keys) + SumOf(Amounts(orders), refunded))'
      BY <1>4 DEF StoreInv, MoneyHeld, Amounts
    <2>4. (refunded = {i \in DOMAIN orders : orders[i].status = "CANCELLED"})'
      BY <1>4 DEF StoreInv, MoneyHeld
    <2> QED BY <2>2, <2>3, <2>4 DEF MoneyHeld
  <1>12. StoreTyped' BY <1>3, <1>4 DEF StoreInv, StoreTyped
  <1> QED BY <1>7, <1>8, <1>9, <1>10, <1>11, <1>12 DEF StoreInv

(* The next row to lock is one of the cart.                                *)
LEMMA NextRow ==
    ASSUME StoreAssumption, StoreInv, NEW c \in Clients, At(c, "lock")
    PROVE  Min(Unlocked(c)) \in Unlocked(c)
  <1>1. Unlocked(c) \subseteq Nat BY DEF Unlocked, StoreAssumption
  <1>2. Unlocked(c) # {} BY DEF StoreInv, CallTyped, Shops, At, Unlocked, Wanted
  <1>3. \E x \in Unlocked(c) : \A y \in Unlocked(c) : x <= y BY <1>1, <1>2, LeastMember
  <1> QED BY <1>3 DEF Min

LEMMA LockProductIsSafe ==
    ASSUME StoreAssumption, StoreInv, NEW c \in Clients, LockProduct(c)
    PROVE  StoreInv'
  <1>1. PICK p \in Unlocked(c) : p = Min(Unlocked(c)) BY NextRow DEF LockProduct
  <1>2. PICK r \in CallRows : r = calls[c] BY DEF StoreInv, CallTyped
  <1>3. /\ r.step = "lock" /\ r.rows \subseteq Wanted(r.cart) /\ r.rows # Wanted(r.cart)
        /\ Unlocked(c) = Wanted(r.cart) \ r.rows /\ Wanted(r.cart) # {} /\ r.key \in Keys
        /\ UNCHANGED <<products, orders, available, payments, refunded, overwritten, reused>>
    BY <1>2 DEF LockProduct, At, StoreInv, CallTyped, Shops, Unlocked, Wanted
  <1> DEFINE v == [r EXCEPT !.rows = @ \cup {p},
                            !.step = IF Unlocked(c) = {p} THEN "spend" ELSE @]
  <1>4. calls' = [calls EXCEPT ![c] = v] BY <1>1, <1>2 DEF LockProduct, StoreInv, StoreTyped
  <1>5. /\ v \in CallRows /\ v.rows = r.rows \cup {p} /\ v.key = r.key /\ v.cart = r.cart
        /\ v.step = IF Unlocked(c) = {p} THEN "spend" ELSE "lock"
    BY <1>2, <1>3 DEF Unlocked, CallRows
  <1> HIDE DEF v
  <1>6. v.rows \subseteq Wanted(v.cart) /\ (v.rows = Wanted(v.cart) <=> Unlocked(c) = {p})
    BY <1>3, <1>5
  <1>7. calls'[c] = v BY <1>4 DEF StoreInv, StoreTyped
  <1>8. CallTyped(c)' /\ ~Moves(c)' /\ Shops(c)
    BY <1>2, <1>3, <1>5, <1>6, <1>7 DEF CallTyped, Shops, Moves
  <1> QED BY <1>2, <1>3, <1>4, <1>5, <1>8, CallStep

LEMMA LockWalletIsSafe ==
    ASSUME StoreAssumption, StoreInv, NEW c \in Clients, LockWallet(c)
    PROVE  StoreInv'
  <1>1. PICK r \in CallRows : r = calls[c] BY DEF StoreInv, CallTyped
  <1>2. /\ r.step = "refund" /\ Moves(c)
        /\ UNCHANGED <<products, orders, available, payments, refunded, overwritten, reused>>
    BY <1>1 DEF LockWallet, At, Moves
  <1> DEFINE v == [r EXCEPT !.step = "stock", !.wallet = TRUE]
  <1>3. calls' = [calls EXCEPT ![c] = v] BY <1>1 DEF LockWallet, StoreInv, StoreTyped
  <1>4. v \in CallRows /\ v.step = "stock" /\ v.order = r.order /\ v.new = r.new
    BY <1>1 DEF CallRows
  <1> HIDE DEF v
  <1>5. calls'[c] = v BY <1>3 DEF StoreInv, StoreTyped
  <1>6. CallTyped(c)' /\ ~Shops(c)'
    BY <1>1, <1>2, <1>4, <1>5 DEF StoreInv, CallTyped, Shops, Moves, IsOpen
  <1>7. \A d \in Clients \ {c} : Moves(d) => calls[d].order # v.order
    BY <1>1, <1>2, <1>4 DEF StoreInv, OrdersInHand
  <1> QED BY <1>2, <1>3, <1>6, <1>7, CallStep

LEMMA ReadProductIsSafe ==
    ASSUME StoreAssumption, StoreInv, NEW c \in Clients, NEW p \in Products, ReadProduct(c, p)
    PROVE  StoreInv'
  <1> DEFINE s == [product |-> p, row |-> products[p]]
             v == [Idle EXCEPT !.step = "edit", !.seen = s]
  <1>1. s \in [product : Products, row : MerchandiseProducts] BY DEF StoreInv, StoreTyped
  <1>2. calls' = [calls EXCEPT ![c] = v]
        /\ UNCHANGED <<products, orders, available, payments, refunded, overwritten, reused>>
    BY DEF ReadProduct
  <1> HIDE DEF s
  <1>3. v \in CallRows /\ v.step = "edit" /\ v.seen = s BY <1>1, IdleIs DEF CallRows, Idle
  <1> HIDE DEF v
  <1>4. calls'[c] = v BY <1>2 DEF StoreInv, StoreTyped
  <1>5. CallTyped(c)' /\ ~Shops(c)' /\ ~Moves(c)' BY <1>1, <1>3, <1>4 DEF CallTyped, Shops, Moves
  <1> QED BY <1>2, <1>5, CallStep

LEMMA RefusalsAreSafe ==
    ASSUME StoreAssumption, StoreInv, NEW c \in Clients,
           CheckoutRefused(c) \/ DeadlockVictim(c) \/ Stop(c)
    PROVE  StoreInv'
  BY FinishIsSafe DEF CheckoutRefused, DeadlockVictim, Stop

(* The status of an order changes: what it holds and who placed it do not. *)
LEMMA NewStatus ==
    ASSUME StoreAssumption, StoreInv, NEW i \in DOMAIN orders, NEW s \in OrderStatuses,
           orders' = [orders EXCEPT ![i].status = s]
    PROVE  /\ orders' \in Seq(StoreOrders) /\ DOMAIN orders' = DOMAIN orders
           /\ orders'[i].status = s
           /\ \A j \in DOMAIN orders : /\ orders'[j].product = orders[j].product
                                       /\ orders'[j].key = orders[j].key
                                       /\ j # i => orders'[j] = orders[j]
           /\ Amounts(orders') = Amounts(orders)
           /\ \A k : Under(orders', k) = Under(orders, k)
  <1>0. orders \in Seq(StoreOrders) BY DEF StoreInv, StoreTyped
  <1>1. PICK r \in StoreOrders : r = orders[i] BY <1>0, OrdersAre
  <1> DEFINE w == [r EXCEPT !.status = s]
  <1>2. /\ w \in StoreOrders /\ w.status = s /\ w.product = r.product /\ w.key = r.key
        /\ w.quantity = r.quantity
    BY DEF StoreOrders
  <1>3. orders' = [orders EXCEPT ![i] = w] BY <1>1
  <1> HIDE DEF w
  <1>4. /\ orders' \in Seq(StoreOrders) /\ DOMAIN orders' = DOMAIN orders /\ orders'[i] = w
        /\ \A j \in DOMAIN orders : j # i => orders'[j] = orders[j]
    BY <1>0, <1>2, <1>3
  <1>5. \A j \in DOMAIN orders : /\ orders'[j].product = orders[j].product
                                 /\ orders'[j].key = orders[j].key
                                 /\ orders'[j].quantity = orders[j].quantity
    BY <1>1, <1>2, <1>4
  <1>6. Amounts(orders') = Amounts(orders) BY <1>4, <1>5 DEF Amounts
  <1>7. \A k : Under(orders', k) = Under(orders, k) BY <1>4, <1>5 DEF Under
  <1> QED BY <1>2, <1>4, <1>5, <1>6, <1>7

LEMMA OpenStatuses ==
    \A s, new \in OrderStatuses : new \in TRANSITIONS[s] => s \notin Ended
  BY DEF OrderStatuses, TRANSITIONS, Ended

LEMMA TransitionIsSafe ==
    ASSUME StoreAssumption, StoreInv, NEW c \in Clients, NEW i \in DOMAIN orders,
           NEW new \in OrderStatuses, Transition(c, i, new)
    PROVE  StoreInv'
  <1>1. /\ orders[i] \in StoreOrders /\ orders[i].status \in OrderStatuses
        /\ IsOpen(orders, i) /\ i \in Nat
    <2>1. orders[i] \in StoreOrders /\ i \in Nat BY OrdersAre DEF StoreInv, StoreTyped
    <2>2. orders[i].status \in OrderStatuses BY <2>1 DEF StoreOrders
    <2>3. new \in TRANSITIONS[orders[i].status] BY DEF Transition
    <2> QED BY <2>1, <2>2, <2>3, OpenStatuses DEF IsOpen
  <1>2. \A d \in Clients : calls[d].order # i BY DEF Transition, OrderFree
  <1>3. CASE new \in Ended
    <2> DEFINE v == [Idle EXCEPT !.order = i, !.new = new,
                                 !.step = IF new = "CANCELLED" THEN "refund" ELSE "stock"]
    <2>1. calls' = [calls EXCEPT ![c] = v]
          /\ UNCHANGED <<products, orders, available, payments, refunded, overwritten, reused>>
      BY <1>3 DEF Transition, Ended
    <2>2. v \in CallRows /\ v.step \in {"refund", "stock"} /\ v.order = i /\ v.new = new
      BY <1>1, IdleIs DEF CallRows, Idle
    <2> HIDE DEF v
    <2>3. calls'[c] = v BY <2>1 DEF StoreInv, StoreTyped
    <2>4. CallTyped(c)' /\ ~Shops(c)'
      BY <1>1, <1>3, <2>1, <2>2, <2>3 DEF IsOpen, CallTyped, Shops, Moves
    <2>5. \A d \in Clients \ {c} : Moves(d) => calls[d].order # v.order BY <1>2, <2>2
    <2> QED BY <2>1, <2>4, <2>5, CallStep
  <1>4. CASE new \notin Ended
    <2>1. /\ orders' = [orders EXCEPT ![i].status = new]
          /\ UNCHANGED <<calls, products, available, payments, refunded, overwritten, reused>>
      BY <1>4 DEF Transition, Ended
    <2>2. /\ orders' \in Seq(StoreOrders) /\ DOMAIN orders' = DOMAIN orders
          /\ orders'[i].status = new
          /\ \A j \in DOMAIN orders : /\ orders'[j].product = orders[j].product
                                      /\ orders'[j].key = orders[j].key
                                      /\ j # i => orders'[j] = orders[j]
          /\ Amounts(orders') = Amounts(orders)
          /\ \A k : Under(orders', k) = Under(orders, k)
      BY <2>1, NewStatus
    <2>3. \A p : OpenOf(orders', p) = OpenOf(orders, p) BY <1>1, <1>4, <2>2 DEF IsOpen, OpenOf
    <2>4. StoreTyped' BY <2>1, <2>2 DEF StoreInv, StoreTyped
    <2>5. ASSUME NEW d \in Clients PROVE CallTyped(d)'
      BY <1>2, <2>1, <2>2 DEF StoreInv, CallTyped, Shops, Moves, IsOpen
    <2>6. OrdersInHand' BY <2>1 DEF StoreInv, OrdersInHand, Moves
    <2>7. OneCartPerKey' BY <2>1, <2>2 DEF OneCartPerKey, Shops, Under, Wanted, StoreInv
    <2>8. StockHeld'
      <3> SUFFICES ASSUME NEW p \in Products
                   PROVE  /\ SaveAccepted(products[p])
                          /\ p \notin overwritten =>
                                products[p].reserved = SumOf(Amounts(orders'), OpenOf(orders', p))
        BY <2>1 DEF StockHeld, SaveAccepted, Amounts, OpenOf, IsOpen
      <3>1. SumOf(Amounts(orders'), OpenOf(orders', p)) = SumOf(Amounts(orders), OpenOf(orders, p))
        BY <2>2, <2>3, Zenon
      <3> QED BY <3>1 DEF StoreInv, StockHeld
    <2>9. MoneyHeld'
      <3>1. ASSUME NEW k \in Keys \ reused
            PROVE  payments[k] = SumOf(Amounts(orders'), Under(orders', k))
        <4>1. SumOf(Amounts(orders'), Under(orders', k)) = SumOf(Amounts(orders), Under(orders, k))
          BY <2>2, Zenon
        <4> QED BY <4>1 DEF StoreInv, MoneyHeld
      <3>2. available = Funds - SumOf(payments, Keys) + SumOf(Amounts(orders'), refunded)
        <4>1. SumOf(Amounts(orders'), refunded) = SumOf(Amounts(orders), refunded) BY <2>2, Zenon
        <4> QED BY <4>1 DEF StoreInv, MoneyHeld
      <3>3. refunded = {j \in DOMAIN orders' : orders'[j].status = "CANCELLED"}
        BY <1>1, <1>4, <2>2 DEF IsOpen, Ended, StoreInv, MoneyHeld
      <3> QED BY <2>1, <3>1, <3>2, <3>3 DEF MoneyHeld, Amounts, Under
    <2> QED BY <2>4, <2>5, <2>6, <2>7, <2>8, <2>9 DEF StoreInv
  <1> QED BY <1>3, <1>4

(* The stock of a delivered or cancelled order is given back once.         *)
LEMMA StockReleased ==
    ASSUME StoreAssumption, StoreInv, NEW c \in Clients, Moves(c),
           SaveAccepted(StockAfter(c)[orders[calls[c].order].product])
    PROVE  LET i == calls[c].order
               p == orders[i].product
           IN  /\ StockAfter(c) \in [Products -> MerchandiseProducts]
               /\ StockAfter(c)[p].reserved = products[p].reserved - orders[i].quantity
               /\ \A x \in Products : x # p => StockAfter(c)[x] = products[x]
  <1>1. PICK i \in DOMAIN orders : i = calls[c].order BY DEF StoreInv, CallTyped
  <1>2. PICK p \in Products : p = orders[i].product BY OrdersAre DEF StoreInv, StoreTyped
  <1>3. PICK q \in Nat : q = orders[i].quantity BY OrdersAre DEF StoreInv, StoreTyped
  <1>4. PICK sold \in Nat : sold = IF calls[c].new = "DELIVERED" THEN orders[i].quantity ELSE 0
    BY <1>3
  <1>5. PICK r \in MerchandiseProducts : r = products[p] BY DEF StoreInv, StoreTyped
  <1>6. /\ products \in [Products -> MerchandiseProducts]
        /\ r.stock \in Nat /\ r.reserved \in Nat /\ r.stock <= MaxStock
        /\ r.reserved <= MaxStock /\ MaxStock \in Nat
    BY DEF MerchandiseProducts, StoreAssumption, StoreInv, StoreTyped
  <1> DEFINE w == [stock |-> r.stock - sold, reserved |-> r.reserved - q, status |-> r.status]
  <1>7. StockAfter(c) = [products EXCEPT ![p].reserved = @ - q, ![p].stock = @ - sold]
    BY <1>1, <1>2, <1>3, <1>4 DEF StockAfter
  <1>8. StockAfter(c)[p] = w BY <1>5, <1>6, <1>7 DEF MerchandiseProducts
  <1>9. \A x \in Products : x # p => StockAfter(c)[x] = products[x] BY <1>6, <1>7
  <1>10. w \in MerchandiseProducts /\ w.reserved = r.reserved - q
    <2>1. w.stock >= 0 /\ w.reserved >= 0
      <3> HIDE DEF w
      <3> QED BY <1>1, <1>2, <1>8 DEF SaveAccepted
    <2>2. w.stock \in 0..MaxStock /\ w.reserved \in 0..MaxStock BY <1>6, <2>1
    <2>3. r.status \in Statuses BY DEF MerchandiseProducts
    <2> QED BY <2>2, <2>3 DEF MerchandiseProducts
  <1> HIDE DEF w
  <1>11. StockAfter(c) \in [Products -> MerchandiseProducts] BY <1>6, <1>7, <1>8, <1>9, <1>10
  <1> QED BY <1>1, <1>2, <1>3, <1>5, <1>8, <1>9, <1>10, <1>11

LEMMA EndTransitionIsSafe ==
    ASSUME StoreAssumption, StoreInv, NEW c \in Clients, EndTransition(c)
    PROVE  StoreInv'
  <1>1. Moves(c) /\ Finish(c) BY DEF EndTransition, At, Moves
  <1>2. PICK i \in DOMAIN orders : i = calls[c].order BY <1>1 DEF StoreInv, CallTyped
  <1>3. PICK p \in Products : p = orders[i].product BY OrdersAre DEF StoreInv, StoreTyped
  <1>4. PICK new \in Ended : new = calls[c].new BY <1>1 DEF StoreInv, CallTyped
  <1>5. IsOpen(orders, i) /\ new \in OrderStatuses
    BY <1>1, <1>2 DEF StoreInv, CallTyped, Ended, OrderStatuses
  <1>6. CASE ~SaveAccepted(StockAfter(c)[p])
    BY <1>1, <1>2, <1>3, <1>6, FinishIsSafe DEF EndTransition
  <1>7. CASE SaveAccepted(StockAfter(c)[p])
    <2>1. /\ products' = StockAfter(c)
          /\ orders' = [orders EXCEPT ![i].status = new]
          /\ IF new = "CANCELLED"
             THEN available' = available + orders[i].quantity /\ refunded' = refunded \cup {i}
             ELSE UNCHANGED <<available, refunded>>
          /\ UNCHANGED <<payments, overwritten, reused>>
      BY <1>2, <1>3, <1>4, <1>7 DEF EndTransition
    <2>2. /\ orders' \in Seq(StoreOrders) /\ DOMAIN orders' = DOMAIN orders
          /\ orders'[i].status = new
          /\ \A j \in DOMAIN orders : /\ orders'[j].product = orders[j].product
                                      /\ orders'[j].key = orders[j].key
                                      /\ j # i => orders'[j] = orders[j]
          /\ Amounts(orders') = Amounts(orders)
          /\ \A k : Under(orders', k) = Under(orders, k)
      BY <1>5, <2>1, NewStatus
    <2>3. /\ products' \in [Products -> MerchandiseProducts]
          /\ products'[p].reserved = products[p].reserved - orders[i].quantity
          /\ \A x \in Products : x # p => products'[x] = products[x]
      BY <1>1, <1>2, <1>3, <1>7, <2>1, StockReleased
    <2>4. /\ DOMAIN calls' = Clients
          /\ \A d \in Clients : d # c => calls'[d] = calls[d]
          /\ CallTyped(c)' /\ ~Shops(c)' /\ ~Moves(c)'
          /\ \A d \in Clients : Shops(d)' => Shops(d) /\ d # c
          /\ OrdersInHand'
      BY <1>1, EndedCall
    <2>5. PICK q \in Nat : q = orders[i].quantity /\ q = Amounts(orders)[i]
      BY OrdersAre DEF StoreInv, StoreTyped
    <2>6. StoreTyped' BY <2>1, <2>2, <2>3, <2>4, <2>5 DEF StoreInv, StoreTyped
    <2>7. ASSUME NEW d \in Clients PROVE CallTyped(d)'
      <3>1. CASE d = c BY <2>4, <3>1
      <3>2. CASE d # c
        <4>1. Moves(d) => calls[d].order # i BY <1>1, <1>2, <3>2 DEF StoreInv, OrdersInHand
        <4>2. Moves(d) => /\ calls[d].order \in DOMAIN orders'
                          /\ IsOpen(orders', calls[d].order)
          BY <2>2, <4>1 DEF StoreInv, CallTyped, IsOpen
        <4>3. CallTyped(d) /\ calls'[d] = calls[d] BY <2>4, <3>2 DEF StoreInv
        <4> QED BY <4>2, <4>3 DEF CallTyped, Shops, Moves, IsOpen
      <3> QED BY <3>1, <3>2
    <2>8. OneCartPerKey' BY <2>1, <2>2, <2>4 DEF OneCartPerKey, Shops, Under, Wanted, StoreInv
    <2>9. /\ OpenOf(orders', p) = OpenOf(orders, p) \ {i} /\ i \in OpenOf(orders, p)
          /\ \A x \in Products : x # p => OpenOf(orders', x) = OpenOf(orders, x)
      BY <1>3, <1>4, <1>5, <2>2 DEF IsOpen, OpenOf
    <2>10. StockHeld'
      <3> SUFFICES ASSUME NEW x \in Products
                   PROVE  /\ SaveAccepted(products'[x])
                          /\ x \notin overwritten =>
                                products'[x].reserved = SumOf(Amounts(orders'), OpenOf(orders', x))
        BY <2>1 DEF StockHeld, SaveAccepted, Amounts, OpenOf, IsOpen
      <3>1. CASE x # p
        <4>1. SumOf(Amounts(orders'), OpenOf(orders', x)) = SumOf(Amounts(orders), OpenOf(orders, x))
          BY <2>2, <2>9, <3>1, Zenon
        <4> QED BY <2>3, <3>1, <4>1 DEF StoreInv, StockHeld
      <3>2. CASE x = p
        <4>1. SaveAccepted(products'[x]) BY <1>7, <2>1, <3>2
        <4>2. OpenOf(orders, p) \in SUBSET DOMAIN orders BY DEF OpenOf
        <4>3. IsFiniteSet(OpenOf(orders, p))
              /\ \A j \in OpenOf(orders, p) : Amounts(orders)[j] \in Int
          BY <4>2, OrdersAre DEF StoreInv, StoreTyped
        <4>4. SumOf(Amounts(orders), OpenOf(orders, p))
                = Amounts(orders)[i] + SumOf(Amounts(orders), OpenOf(orders, p) \ {i})
          BY <2>9, <4>3, TakeOut
        <4>5. PICK s \in Nat : s = SumOf(Amounts(orders), OpenOf(orders, p) \ {i})
          BY <4>2, OrdersAre DEF StoreInv, StoreTyped
        <4>6. s = SumOf(Amounts(orders'), OpenOf(orders', p)) BY <2>2, <2>9, <4>5, Zenon
        <4>7. p \notin overwritten => products[p].reserved = q + s
          BY <2>5, <4>4, <4>5 DEF StoreInv, StockHeld
        <4>8. p \notin overwritten => products'[p].reserved = s BY <2>3, <2>5, <4>5, <4>7
        <4> QED BY <3>2, <4>1, <4>6, <4>8
      <3> QED BY <3>1, <3>2
    <2>11. MoneyHeld'
      <3>0. refunded \in SUBSET DOMAIN orders /\ i \notin refunded
        BY <1>5 DEF StoreInv, MoneyHeld, IsOpen, Ended
      <3>1. ASSUME NEW k \in Keys \ reused
            PROVE  payments[k] = SumOf(Amounts(orders'), Under(orders', k))
        <4>1. SumOf(Amounts(orders'), Under(orders', k)) = SumOf(Amounts(orders), Under(orders, k))
          BY <2>2, Zenon
        <4> QED BY <4>1 DEF StoreInv, MoneyHeld
      <3>2. refunded' = IF new = "CANCELLED" THEN refunded \cup {i} ELSE refunded BY <2>1
      <3>3. available' = Funds - SumOf(payments, Keys) + SumOf(Amounts(orders'), refunded')
        <4>1. PICK s \in Nat : s = SumOf(Amounts(orders), refunded)
          BY <3>0, OrdersAre DEF StoreInv, StoreTyped
        <4>2. available = Funds - SumOf(payments, Keys) + s BY <4>1 DEF StoreInv, MoneyHeld
        <4>3. CASE new = "CANCELLED"
          <5>1. refunded \cup {i} \in SUBSET DOMAIN orders BY <3>0
          <5>2. IsFiniteSet(refunded \cup {i})
                /\ \A j \in refunded \cup {i} : Amounts(orders)[j] \in Int
            BY <5>1, OrdersAre DEF StoreInv, StoreTyped
          <5>3. SumOf(Amounts(orders), refunded \cup {i})
                  = Amounts(orders)[i] + SumOf(Amounts(orders), (refunded \cup {i}) \ {i})
            BY <5>2, TakeOut
          <5>4. (refunded \cup {i}) \ {i} = refunded BY <3>0
          <5>5. SumOf(Amounts(orders), refunded \cup {i}) = q + s BY <2>5, <4>1, <5>3, <5>4
          <5>6. SumOf(Amounts(orders'), refunded') = q + s BY <2>2, <3>2, <4>3, <5>5, Zenon
          <5>7. available' = available + q BY <2>1, <2>5, <4>3
          <5>8. Funds - SumOf(payments, Keys) \in Int
            BY SumIsInteger DEF StoreInv, StoreTyped, StoreAssumption
          <5> QED BY <4>1, <4>2, <5>6, <5>7, <5>8
        <4>4. CASE new # "CANCELLED"
          <5>1. SumOf(Amounts(orders'), refunded') = s BY <2>2, <3>2, <4>1, <4>4, Zenon
          <5> QED BY <2>1, <4>2, <4>4, <5>1
        <4> QED BY <4>3, <4>4
      <3>4. refunded' = {j \in DOMAIN orders' : orders'[j].status = "CANCELLED"}
        BY <1>5, <2>2, <3>2 DEF IsOpen, Ended, StoreInv, MoneyHeld
      <3> QED BY <2>1, <3>1, <3>3, <3>4 DEF MoneyHeld, Amounts, Under
    <2> QED BY <2>4, <2>6, <2>7, <2>8, <2>10, <2>11 DEF StoreInv
  <1> QED BY <1>6, <1>7

(* A PATCH either keeps the reserved stock or marks the product.           *)
LEMMA PatchIsSafe ==
    ASSUME StoreAssumption, StoreInv, NEW c \in Clients, NEW stock \in 0..MaxStock,
           NEW status \in Statuses, Patch(c, stock, status)
    PROVE  StoreInv'
  <1>1. PICK s \in [product : Products, row : MerchandiseProducts] : s = calls[c].seen
    BY DEF Patch, At, StoreInv, CallTyped
  <1>2. PICK p \in Products : p = s.product OBVIOUS
  <1> DEFINE row == [s.row EXCEPT !.stock = stock, !.status = status]
  <1>3. row \in MerchandiseProducts BY DEF MerchandiseProducts
  <1>4. /\ IF SaveAccepted(row)
           THEN /\ products' = [products EXCEPT ![p] = row]
                /\ overwritten' = IF row.reserved # products[p].reserved
                                  THEN overwritten \cup {p} ELSE overwritten
           ELSE UNCHANGED <<products, overwritten>>
        /\ Finish(c)
        /\ UNCHANGED <<orders, available, payments, refunded, reused>>
    BY <1>1, <1>2 DEF Patch
  <1> HIDE DEF row
  <1>5. CASE ~SaveAccepted(row) BY <1>4, <1>5, FinishIsSafe
  <1>6. CASE SaveAccepted(row)
    <2>1. /\ DOMAIN calls' = Clients
          /\ \A d \in Clients : d # c => calls'[d] = calls[d]
          /\ CallTyped(c)' /\ ~Shops(c)' /\ ~Moves(c)'
          /\ \A d \in Clients : Shops(d)' => Shops(d) /\ d # c
          /\ OrdersInHand'
      BY <1>4, EndedCall
    <2>2. /\ products' \in [Products -> MerchandiseProducts]
          /\ products'[p] = row
          /\ \A x \in Products : x # p => products'[x] = products[x]
      BY <1>3, <1>4, <1>6 DEF StoreInv, StoreTyped
    <2>3. /\ overwritten \subseteq overwritten'
          /\ row.reserved # products[p].reserved => p \in overwritten'
      BY <1>4, <1>6
    <2>4. StoreTyped' BY <1>4, <2>1, <2>2 DEF StoreInv, StoreTyped
    <2>5. ASSUME NEW d \in Clients PROVE CallTyped(d)'
      BY <1>4, <2>1 DEF StoreInv, CallTyped, Shops, Moves, IsOpen
    <2>6. OneCartPerKey' BY <1>4, <2>1 DEF StoreInv, OneCartPerKey, Shops, Under, Wanted
    <2>7. StockHeld'
      <3> SUFFICES ASSUME NEW x \in Products
                   PROVE  /\ SaveAccepted(products'[x])
                          /\ x \notin overwritten' =>
                                products'[x].reserved = SumOf(Amounts(orders), OpenOf(orders, x))
        BY <1>4 DEF StockHeld, SaveAccepted, Amounts, OpenOf, IsOpen
      <3>1. x \notin overwritten' => products'[x].reserved = products[x].reserved
                                     /\ x \notin overwritten
        BY <2>2, <2>3
      <3>2. SaveAccepted(products'[x]) BY <1>6, <2>2 DEF StoreInv, StockHeld
      <3> QED BY <3>1, <3>2 DEF StoreInv, StockHeld
    <2>8. MoneyHeld' BY <1>4 DEF StoreInv, MoneyHeld, Amounts, Under
    <2> QED BY <2>1, <2>4, <2>5, <2>6, <2>7, <2>8 DEF StoreInv
  <1> QED BY <1>5, <1>6

LEMMA InOrderLists ==
    ASSUME StoreAssumption, NEW rows \in SUBSET Products
    PROVE  Lists(InOrder(rows), rows)
  <1>1. IsFiniteSet(rows) /\ rows \subseteq Int
    <2>1. IsFiniteSet(Products) /\ rows \subseteq Products BY DEF StoreAssumption
    <2>2. IsFiniteSet(rows) BY <2>1, FS_Subset
    <2>3. rows \subseteq Int BY DEF StoreAssumption
    <2> QED BY <2>2, <2>3
  <1>2. PICK e : Lists(e, rows) BY <1>1, ListExists
  <1>3. /\ e \in Surjection(1..Cardinality(rows), rows)
        /\ \A i, j \in DOMAIN e : i < j => e[i] < e[j]
    BY <1>2 DEF Lists, Surjection
  <1>4. /\ InOrder(rows) \in Surjection(1..Cardinality(rows), rows)
        /\ \A i, j \in DOMAIN InOrder(rows) : i < j => InOrder(rows)[i] < InOrder(rows)[j]
    BY <1>3 DEF InOrder
  <1>5. /\ InOrder(rows) \in [1..Cardinality(rows) -> rows]
        /\ DOMAIN InOrder(rows) = 1..Cardinality(rows)
        /\ \A x \in rows : \E i \in 1..Cardinality(rows) : InOrder(rows)[i] = x
    BY <1>4 DEF Surjection
  <1> QED BY <1>4, <1>5 DEF Lists

LEMMA Appended ==
    ASSUME NEW S, NEW a \in Seq(S), NEW b \in Seq(S)
    PROVE  a \o b \in Seq(S) /\ Len(a \o b) = Len(a) + Len(b)
  OBVIOUS

(* A checkout adds one order for each row of its cart.                     *)
NewOrder(k, p, n) == [key |-> k, product |-> p, quantity |-> n, status |-> "PAID"]

LEMMA OrdersAdded ==
    ASSUME StoreAssumption, StoreInv, NEW c \in Clients, At(c, "spend"),
           orders' = orders \o NewOrders(c)
    PROVE  /\ orders' \in Seq(StoreOrders)
           /\ \A j \in DOMAIN orders : j \in DOMAIN orders' /\ orders'[j] = orders[j]
           /\ \E at : /\ \A p \in calls[c].rows :
                            /\ at[p] \in DOMAIN orders' \ DOMAIN orders
                            /\ orders'[at[p]] = NewOrder(calls[c].key, p, calls[c].cart[p])
                      /\ \A j \in DOMAIN orders' \ DOMAIN orders :
                            \E p \in calls[c].rows : at[p] = j
  <1>1. PICK k \in Keys : k = calls[c].key BY DEF At, StoreInv, CallTyped, Shops
  <1>2. PICK rows \in SUBSET Products : rows = calls[c].rows
    BY DEF At, StoreInv, CallTyped, CallRows
  <1>3. \A x \in rows : x \in Int BY DEF StoreAssumption
  <1>4. PICK cart \in [Products -> 0..MaxStock] : cart = calls[c].cart
    BY DEF At, StoreInv, CallTyped, CallRows
  <1>5. \A p \in rows : cart[p] \in 1..MaxStock
    BY <1>2, <1>4 DEF At, StoreInv, CallTyped, Wanted, StoreAssumption
  <1>6. PICK m \in Nat : m = Cardinality(rows) BY FS_Subset, FS_CardinalityType DEF StoreAssumption
  <1>7. PICK e : e = InOrder(rows) /\ Lists(e, rows) BY InOrderLists
  <1>8. /\ e \in [1..m -> rows]
        /\ \A i, j \in 1..m : i < j => e[i] < e[j]
        /\ \A x \in rows : \E i \in 1..m : e[i] = x
    BY <1>6, <1>7 DEF Lists
  <1>9. PICK b : b = NewOrders(c) OBVIOUS
  <1>10. /\ b = [i \in 1..m |-> NewOrder(k, e[i], cart[e[i]])]
    BY <1>1, <1>2, <1>4, <1>6, <1>7, <1>9 DEF NewOrders, NewOrder
  <1>11. \A i \in 1..m : b[i] = NewOrder(k, e[i], cart[e[i]]) /\ b[i] \in StoreOrders
    BY <1>5, <1>8, <1>10 DEF NewOrder, StoreOrders, OrderStatuses
  <1>12. b \in Seq(StoreOrders) /\ Len(b) = m /\ DOMAIN b = 1..m BY <1>10, <1>11
  <1>13. orders \in Seq(StoreOrders) BY DEF StoreInv, StoreTyped
  <1>14. PICK n \in Nat : n = Len(orders) /\ DOMAIN orders = 1..n BY <1>13
  <1>15. PICK o : o = orders' OBVIOUS
  <1>16. /\ o \in Seq(StoreOrders) /\ DOMAIN o = 1..(n + m)
         /\ \A j \in 1..n : o[j] = orders[j]
         /\ \A i \in 1..m : o[n + i] = b[i]
    <2>1. o = orders \o b BY <1>9, <1>15
    <2>2. o \in Seq(StoreOrders) /\ Len(o) = n + m BY <1>12, <1>13, <1>14, <2>1, Appended
    <2>3. DOMAIN o = 1..(n + m) BY <2>2
    <2>4. \A j \in 1..n : o[j] = orders[j] BY <1>12, <1>13, <1>14, <2>1
    <2>5. \A i \in 1..m : o[n + i] = b[i] BY <1>12, <1>13, <1>14, <2>1
    <2> QED BY <2>2, <2>3, <2>4, <2>5
  <1> DEFINE at == [p \in rows |-> CHOOSE j \in (n + 1)..(n + m) : e[j - n] = p]
  <1>17. ASSUME NEW p \in rows
         PROVE  at[p] \in (n + 1)..(n + m) /\ e[at[p] - n] = p
    <2>1. PICK i \in 1..m : e[i] = p BY <1>8
    <2>2. n + i \in (n + 1)..(n + m) /\ (n + i) - n = i OBVIOUS
    <2> QED BY <2>1, <2>2
  <1> HIDE DEF at
  <1>18. ASSUME NEW p \in rows
         PROVE  at[p] \in DOMAIN o \ DOMAIN orders /\ o[at[p]] = NewOrder(k, p, cart[p])
    <2>1. PICK i \in 1..m : at[p] = n + i /\ e[i] = p BY <1>17
    <2>2. o[n + i] = NewOrder(k, p, cart[p]) BY <1>11, <1>16, <2>1
    <2> QED BY <1>14, <1>16, <2>1, <2>2
  <1>19. ASSUME NEW j \in DOMAIN o \ DOMAIN orders PROVE \E p \in rows : at[p] = j
    <2>1. PICK i \in 1..m : j = n + i
      <3>1. j \in (n + 1)..(n + m) BY <1>14, <1>16
      <3>2. j - n \in 1..m /\ j = n + (j - n) BY <3>1
      <3> QED BY <3>2
    <2>2. e[i] \in rows BY <1>8
    <2>3. PICK h \in 1..m : at[e[i]] = n + h /\ e[h] = e[i]
      <3>1. at[e[i]] - n \in 1..m /\ at[e[i]] = n + (at[e[i]] - n) BY <1>17, <2>2
      <3> QED BY <1>17, <2>2, <3>1
    <2>4. h = i BY <1>3, <1>8, <2>3
    <2> QED BY <2>1, <2>2, <2>3, <2>4
  <1>20. \A j \in DOMAIN orders : j \in DOMAIN o /\ o[j] = orders[j] BY <1>14, <1>16
  <1>21. /\ \A p \in calls[c].rows :
               /\ at[p] \in DOMAIN orders' \ DOMAIN orders
               /\ orders'[at[p]] = NewOrder(calls[c].key, p, calls[c].cart[p])
         /\ \A j \in DOMAIN orders' \ DOMAIN orders : \E p \in calls[c].rows : at[p] = j
    BY <1>1, <1>2, <1>4, <1>15, <1>18, <1>19
  <1>22. /\ orders' \in Seq(StoreOrders)
         /\ \A j \in DOMAIN orders : j \in DOMAIN orders' /\ orders'[j] = orders[j]
    BY <1>15, <1>16, <1>20
  <1> QED BY <1>21, <1>22

(* What a payment does to the rows: the stock of the cart is reserved, its *)
(* total is taken once for the key, and its orders are new.                *)
Paid(c, k, rows, cart, total) ==
    /\ k = calls[c].key /\ rows = calls[c].rows /\ cart = calls[c].cart
    /\ Shops(c) /\ rows # {}
    /\ \A p \in rows : cart[p] \in Nat /\ products[p].reserved + cart[p] <= products[p].stock
    /\ \A p \in Products \ rows : cart[p] = 0
    /\ total = SumOf(cart, rows) /\ total = SumOf(cart, Products)
    /\ \/ payments[k] > 0 /\ payments[k] = total /\ available' = available
       \/ payments[k] = 0 /\ total <= available /\ available' = available - total
    /\ payments' = [payments EXCEPT ![k] = total]
    /\ \A i \in Under(orders, k) : orders[i].product \notin rows
    /\ products' = [p \in Products |-> [products[p] EXCEPT !.reserved = @ + cart[p]]]
    /\ Finish(c)
    /\ UNCHANGED <<refunded, overwritten, reused>>

Place(at, p) == at[p]
Places(at, rows) == {Place(at, p) : p \in rows}
Apart(at, rows) == \A p, q \in rows : Place(at, p) = Place(at, q) => p = q
Joins(x, S, T) == x \notin S /\ T = S \cup {x}

Added(rows, k, cart, at) ==
    /\ orders' \in Seq(StoreOrders)
    /\ \A j \in DOMAIN orders : j \in DOMAIN orders' /\ orders'[j] = orders[j]
    /\ \A p \in rows : /\ Place(at, p) \in DOMAIN orders' \ DOMAIN orders
                       /\ orders'[Place(at, p)] = NewOrder(k, p, cart[p])
    /\ \A j \in DOMAIN orders' \ DOMAIN orders : \E p \in rows : Place(at, p) = j

Cancelled(o) == {j \in DOMAIN o : o[j].status = "CANCELLED"}

LEMMA PayIs ==
    ASSUME StoreAssumption, StoreInv, NEW c \in Clients, Pay(c)
    PROVE  \E k \in Keys, rows \in SUBSET Products, cart \in [Products -> 0..MaxStock],
              total \in Nat : \E at :
                  Paid(c, k, rows, cart, total) /\ Added(rows, k, cart, at)
  <1>0. At(c, "spend") BY DEF Pay
  <1>1. PICK k \in Keys : k = calls[c].key BY <1>0 DEF At, StoreInv, CallTyped, Shops
  <1>2. PICK rows \in SUBSET Products : rows = calls[c].rows
    BY <1>0 DEF At, StoreInv, CallTyped, CallRows
  <1>3. PICK cart \in [Products -> 0..MaxStock] : cart = calls[c].cart
    BY <1>0 DEF At, StoreInv, CallTyped, CallRows
  <1>4. Shops(c) /\ rows = Wanted(cart) /\ rows # {}
    BY <1>0, <1>2, <1>3 DEF At, StoreInv, CallTyped, Shops
  <1>5. /\ \A p \in Products : cart[p] \in Nat
        /\ \A p \in Products \ rows : cart[p] = 0
    BY <1>4 DEF StoreAssumption, Wanted
  <1>6. IsFiniteSet(Products) BY DEF StoreAssumption
  <1>7. PICK total \in Nat : total = SumOf(cart, Products) BY <1>5, <1>6, SumIsNatural
  <1>8. total = SumOf(cart, rows) BY <1>5, <1>6, <1>7, SumOfPart
  <1>9. Total(calls[c].cart) = total BY <1>3, <1>7, TotalsAreSums
  <1>10. \A p \in rows : products[p].reserved + cart[p] <= products[p].stock
    <2> SUFFICES ASSUME NEW p \in rows
                 PROVE  products[p].reserved + cart[p] <= products[p].stock
      OBVIOUS
    <2>1. products[p].stock - products[p].reserved >= cart[p]
      BY <1>2, <1>3 DEF Pay, Orderable, AvailableStock
    <2>2. products[p].stock \in Int /\ products[p].reserved \in Int /\ cart[p] \in Int
      BY <1>5 DEF StoreInv, StoreTyped, MerchandiseProducts
    <2> QED BY <2>1, <2>2
  <1>11. \/ payments[k] > 0 /\ payments[k] = total /\ available' = available
         \/ payments[k] = 0 /\ total <= available /\ available' = available - total
    BY <1>1, <1>9 DEF Pay, MaySpend, StoreInv, StoreTyped
  <1>12. /\ payments' = [payments EXCEPT ![k] = total]
         /\ products' = [p \in Products |-> [products[p] EXCEPT !.reserved = @ + cart[p]]]
         /\ Finish(c)
         /\ UNCHANGED <<refunded, overwritten, reused>>
         /\ orders' = orders \o NewOrders(c)
    BY <1>1, <1>3, <1>9 DEF Pay
  <1>13. \A i \in Under(orders, k) : orders[i].product \notin rows
    BY <1>1, <1>2 DEF Pay, UniqueKey, OrdersOf, Under
  <1>14. Paid(c, k, rows, cart, total)
    BY <1>1, <1>2, <1>3, <1>4, <1>5, <1>7, <1>8, <1>10, <1>11, <1>12, <1>13 DEF Paid
  <1>15. PICK at : Added(rows, k, cart, at)
    <2>1. /\ orders' \in Seq(StoreOrders)
          /\ \A j \in DOMAIN orders : j \in DOMAIN orders' /\ orders'[j] = orders[j]
      BY <1>0, <1>12, OrdersAdded
    <2>2. PICK at : /\ \A p \in calls[c].rows :
                           /\ at[p] \in DOMAIN orders' \ DOMAIN orders
                           /\ orders'[at[p]] = NewOrder(calls[c].key, p, calls[c].cart[p])
                    /\ \A j \in DOMAIN orders' \ DOMAIN orders :
                           \E p \in calls[c].rows : at[p] = j
      BY <1>0, <1>12, OrdersAdded
    <2>3. Added(rows, k, cart, at) BY <1>1, <1>2, <1>3, <2>1, <2>2 DEF Added, Place
    <2> QED BY <2>3
  <1> QED BY <1>14, <1>15

(* What the new orders are to each set of orders.                          *)
LEMMA AddedSets ==
    ASSUME StoreAssumption, StoreInv, NEW k \in Keys, NEW rows \in SUBSET Products,
           NEW cart \in [Products -> 0..MaxStock], NEW at, Added(rows, k, cart, at)
    PROVE  /\ DOMAIN orders \in SUBSET DOMAIN orders'
           /\ \A S \in SUBSET DOMAIN orders :
                 SumOf(Amounts(orders'), S) = SumOf(Amounts(orders), S)
           /\ \A p \in rows : /\ Amounts(orders')[Place(at, p)] = cart[p]
                              /\ Joins(Place(at, p), OpenOf(orders, p), OpenOf(orders', p))
           /\ \A p \in Products \ rows : OpenOf(orders', p) = OpenOf(orders, p)
           /\ \A j : j # k => Under(orders', j) = Under(orders, j)
           /\ Under(orders', k) = Under(orders, k) \cup Places(at, rows)
           /\ Apart(at, rows)
           /\ Cancelled(orders') = Cancelled(orders)
  <1>1. DOMAIN orders \in SUBSET DOMAIN orders' BY DEF Added
  <1>2. ASSUME NEW S \in SUBSET DOMAIN orders
        PROVE  SumOf(Amounts(orders'), S) = SumOf(Amounts(orders), S)
    <2>1. IsFiniteSet(S) /\ \A j \in S : Amounts(orders)[j] \in Int
      BY OrdersAre DEF StoreInv, StoreTyped
    <2>2. \A j \in S : Amounts(orders')[j] = Amounts(orders)[j] BY DEF Added, Amounts
    <2> QED BY <2>1, <2>2, SumsAgree
  <1>3. ASSUME NEW p \in rows
        PROVE  /\ Place(at, p) \in DOMAIN orders' /\ Place(at, p) \notin DOMAIN orders
               /\ orders'[Place(at, p)].key = k /\ orders'[Place(at, p)].product = p
               /\ orders'[Place(at, p)].quantity = cart[p] /\ orders'[Place(at, p)].status = "PAID"
    <2>1. Place(at, p) \in DOMAIN orders' \ DOMAIN orders /\ orders'[Place(at, p)] = NewOrder(k, p, cart[p])
      BY DEF Added
    <2> QED BY <2>1 DEF NewOrder
  <1>4. \A j \in DOMAIN orders' : j \in DOMAIN orders \/ \E p \in rows : Place(at, p) = j
    BY DEF Added
  <1>5. \A j \in DOMAIN orders : orders'[j] = orders[j] BY DEF Added
  <1>6. \A p \in rows : Amounts(orders')[Place(at, p)] = cart[p] BY <1>3 DEF Amounts
  <1>7. \A p \in rows : Place(at, p) \notin OpenOf(orders, p) BY <1>3 DEF OpenOf
  <1>8. ASSUME NEW p \in rows PROVE OpenOf(orders', p) = OpenOf(orders, p) \cup {Place(at, p)}
    <2>1. ASSUME NEW j \in OpenOf(orders', p) PROVE j \in OpenOf(orders, p) \cup {Place(at, p)}
      BY <1>3, <1>4, <1>5 DEF OpenOf, IsOpen
    <2>2. ASSUME NEW j \in OpenOf(orders, p) PROVE j \in OpenOf(orders', p)
      BY <1>1, <1>5 DEF OpenOf, IsOpen
    <2>3. Place(at, p) \in OpenOf(orders', p) BY <1>3 DEF OpenOf, IsOpen, Ended
    <2> QED BY <2>1, <2>2, <2>3
  <1>9. ASSUME NEW p \in Products \ rows PROVE OpenOf(orders', p) = OpenOf(orders, p)
    <2>1. ASSUME NEW j \in OpenOf(orders', p) PROVE j \in OpenOf(orders, p)
      BY <1>3, <1>4, <1>5 DEF OpenOf, IsOpen
    <2>2. ASSUME NEW j \in OpenOf(orders, p) PROVE j \in OpenOf(orders', p)
      BY <1>1, <1>5 DEF OpenOf, IsOpen
    <2> QED BY <2>1, <2>2
  <1>10. ASSUME NEW j, j # k PROVE Under(orders', j) = Under(orders, j)
    BY <1>1, <1>3, <1>4, <1>5, <1>10 DEF Under
  <1>11. Under(orders', k) = Under(orders, k) \cup Places(at, rows)
    <2>1. ASSUME NEW j \in Under(orders', k)
          PROVE  j \in Under(orders, k) \cup Places(at, rows)
      BY <1>4, <1>5 DEF Under, Places
    <2>2. Under(orders, k) \subseteq Under(orders', k) BY <1>1, <1>5 DEF Under
    <2>3. \A p \in rows : Place(at, p) \in Under(orders', k) BY <1>3 DEF Under
    <2> QED BY <2>1, <2>2, <2>3 DEF Places
  <1>12. Apart(at, rows) BY <1>3 DEF Apart
  <1>13. \A p \in rows : Joins(Place(at, p), OpenOf(orders, p), OpenOf(orders', p))
    BY <1>7, <1>8 DEF Joins
  <1>14. Cancelled(orders') = Cancelled(orders) BY <1>1, <1>3, <1>4, <1>5 DEF Cancelled
  <1> QED BY <1>1, <1>2, <1>6, <1>9, <1>10, <1>11, <1>12, <1>14, <1>13

LEMMA PaidStock ==
    ASSUME StoreAssumption, StoreInv, NEW c \in Clients, NEW k \in Keys,
           NEW rows \in SUBSET Products, NEW cart \in [Products -> 0..MaxStock],
           NEW total \in Nat, NEW at,
           Paid(c, k, rows, cart, total), Added(rows, k, cart, at)
    PROVE  products' \in [Products -> MerchandiseProducts] /\ StockHeld'
  <1>1. ASSUME NEW S \in SUBSET DOMAIN orders
         PROVE  SumOf(Amounts(orders'), S) = SumOf(Amounts(orders), S)
    BY AddedSets
  <1>2. ASSUME NEW p \in rows
         PROVE  /\ Amounts(orders')[Place(at, p)] = cart[p]
                /\ Place(at, p) \notin OpenOf(orders, p)
                /\ OpenOf(orders', p) = OpenOf(orders, p) \cup {Place(at, p)}
    <2>1. Amounts(orders')[Place(at, p)] = cart[p] BY AddedSets
    <2>2. Joins(Place(at, p), OpenOf(orders, p), OpenOf(orders', p)) BY AddedSets
    <2> QED BY <2>1, <2>2 DEF Joins
  <1>3. \A p \in Products \ rows : OpenOf(orders', p) = OpenOf(orders, p) BY AddedSets
  <1>4. ASSUME NEW p \in Products
        PROVE  /\ products'[p] \in MerchandiseProducts /\ SaveAccepted(products'[p])
               /\ products'[p].reserved = products[p].reserved + cart[p]
    <2>1. PICK r \in MerchandiseProducts : r = products[p] BY DEF StoreInv, StoreTyped
    <2> DEFINE w == [r EXCEPT !.reserved = r.reserved + cart[p]]
    <2>2. products'[p] = w BY <2>1 DEF Paid
    <2>3. /\ r.stock \in 0..MaxStock /\ r.reserved \in 0..MaxStock /\ r.status \in Statuses
          /\ SaveAccepted(r) /\ MaxStock \in Nat
      BY <2>1 DEF MerchandiseProducts, StoreInv, StockHeld, StoreAssumption
    <2>4. cart[p] \in Nat /\ r.reserved + cart[p] <= r.stock
      <3>1. CASE p \in rows BY <2>1, <3>1 DEF Paid
      <3>2. CASE p \notin rows BY <2>3, <3>2 DEF Paid, SaveAccepted
      <3> QED BY <3>1, <3>2
    <2>5. r.reserved + cart[p] \in 0..MaxStock BY <2>3, <2>4
    <2>6. /\ w \in MerchandiseProducts /\ w.reserved = r.reserved + cart[p]
          /\ w.stock = r.stock
      BY <2>3, <2>5 DEF MerchandiseProducts
    <2> HIDE DEF w
    <2>7. SaveAccepted(w) BY <2>3, <2>4, <2>5, <2>6 DEF SaveAccepted
    <2> QED BY <2>1, <2>2, <2>6, <2>7
  <1>5. products' \in [Products -> MerchandiseProducts] BY <1>4 DEF Paid
  <1>6. StockHeld'
    <2> SUFFICES ASSUME NEW p \in Products, p \notin overwritten
                 PROVE  products'[p].reserved = SumOf(Amounts(orders'), OpenOf(orders', p))
      BY <1>4 DEF StockHeld, Paid, SaveAccepted, Amounts, OpenOf, IsOpen
    <2>1. OpenOf(orders, p) \in SUBSET DOMAIN orders BY DEF OpenOf
    <2>2. PICK s \in Nat : s = SumOf(Amounts(orders), OpenOf(orders, p))
      BY <2>1, OrdersAre DEF StoreInv, StoreTyped
    <2>3. products[p].reserved = s /\ products'[p].reserved = s + cart[p]
      BY <1>4, <2>2 DEF StoreInv, StockHeld
    <2>4. SumOf(Amounts(orders'), OpenOf(orders, p)) = s BY <2>1, <2>2, <1>1
    <2>5. CASE p \in rows
      <3>1. /\ Amounts(orders')[Place(at, p)] = cart[p] /\ Place(at, p) \notin OpenOf(orders, p)
            /\ OpenOf(orders', p) = OpenOf(orders, p) \cup {Place(at, p)}
        BY <2>5, <1>2
      <3>2. PICK T : T = OpenOf(orders', p) OBVIOUS
      <3>3. PICK f : f = Amounts(orders') OBVIOUS
      <3>4. T \ {Place(at, p)} = OpenOf(orders, p) /\ Place(at, p) \in T BY <3>1, <3>2
      <3>5. IsFiniteSet(T) /\ \A j \in T : f[j] \in Int
        <4>1. IsFiniteSet(OpenOf(orders, p))
              /\ \A j \in OpenOf(orders, p) : Amounts(orders)[j] \in Int
          BY <2>1, OrdersAre DEF StoreInv, StoreTyped
        <4>2. IsFiniteSet(OpenOf(orders, p) \cup {Place(at, p)}) BY <4>1, FS_AddElement
        <4>3. \A j \in OpenOf(orders, p) : f[j] = Amounts(orders)[j]
          BY <2>1, <3>3 DEF Added, Amounts
        <4>4. f[Place(at, p)] \in Int BY <2>5, <3>1, <3>3 DEF Paid
        <4> QED BY <3>1, <3>2, <4>1, <4>2, <4>3, <4>4
      <3>6. SumOf(f, T) = f[Place(at, p)] + SumOf(f, T \ {Place(at, p)}) BY <3>4, <3>5, TakeOut
      <3>7. SumOf(f, T \ {Place(at, p)}) = s BY <2>4, <3>3, <3>4, Zenon
      <3>8. SumOf(f, T) = s + cart[p] BY <2>5, <3>1, <3>3, <3>6, <3>7 DEF Paid
      <3> QED BY <2>3, <3>2, <3>3, <3>8
    <2>6. CASE p \notin rows
      <3>1. OpenOf(orders', p) = OpenOf(orders, p) BY <2>6, <1>3
      <3>2. SumOf(Amounts(orders'), OpenOf(orders', p)) = s BY <2>4, <3>1, Zenon
      <3>3. cart[p] = 0 BY <2>6 DEF Paid
      <3> QED BY <2>3, <3>2, <3>3
    <2> QED BY <2>5, <2>6
  <1> QED BY <1>5, <1>6

LEMMA PaidMoney ==
    ASSUME StoreAssumption, StoreInv, NEW c \in Clients, NEW k \in Keys,
           NEW rows \in SUBSET Products, NEW cart \in [Products -> 0..MaxStock],
           NEW total \in Nat, NEW at,
           Paid(c, k, rows, cart, total), Added(rows, k, cart, at)
    PROVE  available' \in Nat /\ payments' \in [Keys -> Nat] /\ MoneyHeld'
  <1>1. ASSUME NEW S \in SUBSET DOMAIN orders
         PROVE  SumOf(Amounts(orders'), S) = SumOf(Amounts(orders), S)
    BY AddedSets
  <1>2. ASSUME NEW p \in rows
         PROVE  /\ Amounts(orders')[Place(at, p)] = cart[p]
                /\ Place(at, p) \notin OpenOf(orders, p)
                /\ OpenOf(orders', p) = OpenOf(orders, p) \cup {Place(at, p)}
    <2>1. Amounts(orders')[Place(at, p)] = cart[p] BY AddedSets
    <2>2. Joins(Place(at, p), OpenOf(orders, p), OpenOf(orders', p)) BY AddedSets
    <2> QED BY <2>1, <2>2 DEF Joins
  <1>3. \A j : j # k => Under(orders', j) = Under(orders, j) BY AddedSets
  <1>4. Under(orders', k) = Under(orders, k) \cup Places(at, rows) BY AddedSets
  <1>5. \A p, q \in rows : Place(at, p) = Place(at, q) => p = q BY AddedSets DEF Apart
  <1>6. Cancelled(orders') = Cancelled(orders) BY AddedSets
  <1>7. payments \in [Keys -> Nat] /\ available \in Nat /\ IsFiniteSet(Keys) /\ Funds \in Nat
    BY DEF StoreInv, StoreTyped, StoreAssumption
  <1>8. /\ payments' = [payments EXCEPT ![k] = total]
        /\ \/ payments[k] > 0 /\ payments[k] = total /\ available' = available
           \/ payments[k] = 0 /\ total <= available /\ available' = available - total
        /\ UNCHANGED <<refunded, overwritten, reused>>
    BY DEF Paid
  <1>9. available' \in Nat /\ payments' \in [Keys -> Nat] BY <1>7, <1>8
  <1>10. ASSUME NEW j \in Keys \ reused
        PROVE  payments'[j] = SumOf(Amounts(orders'), Under(orders', j))
    <2>0. Under(orders, j) \in SUBSET DOMAIN orders BY DEF Under
    <2>1. CASE j # k
      <3>1. Under(orders', j) = Under(orders, j) BY <2>1, <1>3
      <3>2. SumOf(Amounts(orders'), Under(orders, j)) = SumOf(Amounts(orders), Under(orders, j))
        BY <2>0, <1>1
      <3>3. SumOf(Amounts(orders'), Under(orders', j)) = SumOf(Amounts(orders), Under(orders, j))
        BY <3>1, <3>2, Zenon
      <3>4. payments'[j] = payments[j] BY <1>7, <1>8, <2>1
      <3> QED BY <3>3, <3>4 DEF StoreInv, MoneyHeld
    <2>2. CASE j = k
      <3>1. Under(orders, k) = {}
        <4> SUFFICES ASSUME Under(orders, k) # {} PROVE FALSE OBVIOUS
        <4>1. PICK p \in rows : TRUE BY DEF Paid
        <4>2. Shops(c) /\ k = calls[c].key /\ rows = calls[c].rows /\ k \notin reused
          BY <2>2 DEF Paid
        <4>3. p \in Wanted(calls[c].cart) BY <4>2 DEF StoreInv, CallTyped
        <4>4. PICK i \in Under(orders, k) : orders[i].product = p
          BY <4>2, <4>3 DEF StoreInv, OneCartPerKey
        <4> QED BY <4>4 DEF Paid
      <3>2. PICK T : T = Places(at, rows) OBVIOUS
      <3>3. Under(orders', k) = T BY <3>1, <3>2, <1>4
      <3>4. PICK f : f = Amounts(orders') OBVIOUS
      <3>5. SumOf(cart, rows) = SumOf(f, T)
        <4>1. IsFiniteSet(rows) BY FS_Subset DEF StoreAssumption
        <4>2. \A p \in rows : cart[p] = f[Place(at, p)] /\ f[Place(at, p)] \in Int
          BY <3>4, <1>2 DEF Paid
        <4>3. \A p, q \in rows : Place(at, p) = Place(at, q) => p = q BY <1>5
        <4>4. SumOf(cart, rows) = SumOf(f, Places(at, rows))
          BY <4>1, <4>2, <4>3, SumRenamed DEF Places, Place
        <4> QED BY <3>2, <4>4
      <3>6. payments'[k] = total /\ total = SumOf(cart, rows) BY <1>7, <1>8 DEF Paid
      <3> QED BY <2>2, <3>3, <3>4, <3>5, <3>6
    <2> QED BY <2>1, <2>2
  <1>11. available' = Funds - SumOf(payments', Keys) + SumOf(Amounts(orders'), refunded')
    <2>1. refunded \in SUBSET DOMAIN orders BY DEF StoreInv, MoneyHeld
    <2>2. PICK r \in Nat : r = SumOf(Amounts(orders), refunded)
      BY <2>1, OrdersAre DEF StoreInv, StoreTyped
    <2>3. SumOf(Amounts(orders'), refunded) = r BY <2>1, <2>2, <1>1
    <2>4. SumOf(Amounts(orders'), refunded') = r BY <1>8, <2>3
    <2>5. PICK s \in Int : s = SumOf(payments, Keys) BY <1>7, SumIsInteger
    <2>6. available = Funds - s + r BY <2>2, <2>5 DEF StoreInv, MoneyHeld
    <2>7. SumOf(payments', Keys) = s + (total - payments[k])
      <3>1. PICK h : h = payments' OBVIOUS
      <3>2. /\ \A x \in Keys : payments[x] \in Int /\ h[x] \in Int
            /\ \A x \in Keys \ {k} : h[x] = payments[x]
            /\ h[k] = total
        BY <1>7, <1>8, <1>9, <3>1
      <3>3. SumOf(h, Keys) = SumOf(payments, Keys) + (h[k] - payments[k]) BY <1>7, <3>2, SumChanges
      <3> QED BY <2>5, <3>1, <3>2, <3>3
    <2>8. PICK t \in Nat : t = payments[k] BY <1>7
    <2> QED BY <1>7, <1>8, <2>4, <2>5, <2>6, <2>7, <2>8
  <1>12. refunded' = {j \in DOMAIN orders' : orders'[j].status = "CANCELLED"}
    BY <1>8, <1>6 DEF StoreInv, MoneyHeld, Cancelled
  <1>13. MoneyHeld' BY <1>8, <1>10, <1>11, <1>12 DEF MoneyHeld, Amounts, Under
  <1> QED BY <1>9, <1>13

LEMMA PaidCalls ==
    ASSUME StoreAssumption, StoreInv, NEW c \in Clients, NEW k \in Keys,
           NEW rows \in SUBSET Products, NEW cart \in [Products -> 0..MaxStock],
           NEW total \in Nat, NEW at,
           Paid(c, k, rows, cart, total), Added(rows, k, cart, at)
    PROVE  /\ DOMAIN calls' = Clients /\ OrdersInHand'
           /\ \A d \in Clients : CallTyped(d)'
           /\ OneCartPerKey'
  <1>1. Finish(c) BY DEF Paid
  <1>2. /\ DOMAIN calls' = Clients
        /\ \A d \in Clients : d # c => calls'[d] = calls[d]
        /\ CallTyped(c)' /\ ~Shops(c)' /\ ~Moves(c)'
        /\ \A d \in Clients : Shops(d)' => Shops(d) /\ d # c
        /\ OrdersInHand'
    BY <1>1, EndedCall
  <1>3. \A j \in DOMAIN orders : j \in DOMAIN orders' /\ orders'[j] = orders[j] BY DEF Added
  <1>4. ASSUME NEW d \in Clients PROVE CallTyped(d)'
    <2>1. CASE d = c BY <1>2, <2>1
    <2>2. CASE d # c BY <1>2, <1>3, <2>2 DEF StoreInv, CallTyped, IsOpen, Shops, Moves
    <2> QED BY <2>1, <2>2
  <1>5. OneCartPerKey'
    <2>0. UNCHANGED reused BY DEF Paid
    <2> SUFFICES ASSUME NEW d \in Clients, Shops(d)', calls'[d].key \notin reused
                 PROVE  /\ \A e \in Clients : Shops(e)' /\ calls'[e].key = calls'[d].key =>
                               calls'[e].cart = calls'[d].cart
                        /\ Under(orders', calls'[d].key) # {} =>
                               \A x \in Wanted(calls'[d].cart) :
                                   \E j \in Under(orders', calls'[d].key) :
                                       orders'[j].product = x
      BY <2>0 DEF OneCartPerKey, Shops, Under, Wanted
    <2>1. Shops(d) /\ calls'[d] = calls[d]
          /\ \A e \in Clients : Shops(e)' => Shops(e) /\ calls'[e] = calls[e]
      BY <1>2
    <2>2. \A e \in Clients : Shops(e) /\ calls[e].key = calls[d].key =>
              calls[e].cart = calls[d].cart
      BY <2>1 DEF StoreInv, OneCartPerKey
    <2>3. ASSUME Under(orders', calls[d].key) # {}, NEW x \in Wanted(calls[d].cart)
          PROVE  \E j \in Under(orders', calls[d].key) : orders'[j].product = x
      <3>1. CASE calls[d].key # k
        <4>1. Under(orders', calls[d].key) = Under(orders, calls[d].key) BY <3>1, AddedSets
        <4>2. PICK j \in Under(orders, calls[d].key) : orders[j].product = x
          BY <2>1, <2>3, <4>1 DEF StoreInv, OneCartPerKey
        <4>3. orders'[j].product = x BY <1>3, <4>2 DEF Under
        <4> QED BY <4>1, <4>2, <4>3
      <3>2. CASE calls[d].key = k
        <4>1. Shops(c) /\ k = calls[c].key /\ rows = calls[c].rows /\ cart = calls[c].cart
          BY DEF Paid
        <4>2. x \in Wanted(cart) BY <2>2, <2>3, <3>2, <4>1
        <4>3. x \in rows BY <4>2 DEF Wanted, Paid
        <4>4. /\ Place(at, x) \in DOMAIN orders'
              /\ orders'[Place(at, x)] = NewOrder(k, x, cart[x])
          BY <4>3 DEF Added
        <4>5. Place(at, x) \in Under(orders', k) /\ orders'[Place(at, x)].product = x
          BY <4>4 DEF Under, NewOrder
        <4> QED BY <3>2, <4>5
      <3> QED BY <3>1, <3>2
    <2> QED BY <2>1, <2>2, <2>3
  <1> QED BY <1>2, <1>4, <1>5

LEMMA PayIsSafe ==
    ASSUME StoreAssumption, StoreInv, NEW c \in Clients, Pay(c)
    PROVE  StoreInv'
  <1>1. PICK k \in Keys, rows \in SUBSET Products, cart \in [Products -> 0..MaxStock],
             total \in Nat : \E at :
                 Paid(c, k, rows, cart, total) /\ Added(rows, k, cart, at)
    BY PayIs
  <1>2. PICK at : Paid(c, k, rows, cart, total) /\ Added(rows, k, cart, at) BY <1>1
  <1>3. products' \in [Products -> MerchandiseProducts] /\ StockHeld' BY <1>2, PaidStock
  <1>4. available' \in Nat /\ payments' \in [Keys -> Nat] /\ MoneyHeld' BY <1>2, PaidMoney
  <1>5. /\ DOMAIN calls' = Clients /\ OrdersInHand'
        /\ \A d \in Clients : CallTyped(d)'
        /\ OneCartPerKey'
    BY <1>2, PaidCalls
  <1>6. orders' \in Seq(StoreOrders) BY <1>2 DEF Added
  <1> QED BY <1>3, <1>4, <1>5, <1>6 DEF StoreInv, StoreTyped

LEMMA StoreStutter == StoreInv /\ UNCHANGED vars => StoreInv'
  <1> SUFFICES ASSUME StoreInv, UNCHANGED vars PROVE StoreInv' OBVIOUS
  <1>1. StoreTyped' /\ OrdersInHand' /\ \A c \in Clients : CallTyped(c)'
    BY DEF vars, StoreInv, StoreTyped, OrdersInHand, Moves, Shops, CallTyped, IsOpen
  <1>2. OneCartPerKey' BY DEF vars, StoreInv, OneCartPerKey, Shops, Under
  <1>3. StockHeld' BY DEF vars, StoreInv, StockHeld, SaveAccepted, Amounts, OpenOf, IsOpen
  <1>4. MoneyHeld' BY DEF vars, StoreInv, MoneyHeld, Amounts, Under
  <1> QED BY <1>1, <1>2, <1>3, <1>4 DEF StoreInv

LEMMA StoreNext == StoreAssumption /\ StoreInv /\ Next => StoreInv'
  <1> SUFFICES ASSUME StoreAssumption, StoreInv, Next PROVE StoreInv' OBVIOUS
  <1>0. Buyers \subseteq Clients /\ Staff \subseteq Clients BY DEF Clients
  <1>1. ASSUME NEW c \in Clients,
               LockProduct(c) \/ Pay(c) \/ LockWallet(c) \/ EndTransition(c)
        PROVE  StoreInv'
    BY <1>1, LockProductIsSafe, PayIsSafe, LockWalletIsSafe, EndTransitionIsSafe
  <1>2. ASSUME NEW c \in Clients, NEW k \in Keys, NEW cart \in Carts, Checkout(c, k, cart)
        PROVE  StoreInv'
    BY <1>2, CheckoutIsSafe
  <1>3. ASSUME NEW c \in Clients, NEW i \in DOMAIN orders, NEW new \in OrderStatuses,
               Transition(c, i, new)
        PROVE  StoreInv'
    BY <1>3, TransitionIsSafe
  <1>4. ASSUME NEW c \in Clients, NEW p \in Products, ReadProduct(c, p)
        PROVE  StoreInv'
    BY <1>4, ReadProductIsSafe
  <1>5. ASSUME NEW c \in Clients, NEW stock \in 0..MaxStock, NEW status \in Statuses,
               Patch(c, stock, status)
        PROVE  StoreInv'
    BY <1>5, PatchIsSafe
  <1>6. ASSUME NEW c \in Clients, CheckoutRefused(c) \/ DeadlockVictim(c) \/ Stop(c)
        PROVE  StoreInv'
    BY <1>6, RefusalsAreSafe
  <1> QED BY <1>0, <1>1, <1>2, <1>3, <1>4, <1>5, <1>6 DEF Next

(* The reserved stock backs the open orders until a PATCH overwrites it,   *)
(* and every order is paid once unless its key served two carts, of any    *)
(* number of products, keys and concurrent requests: a store that starts   *)
(* with nothing reserved and nothing sold stays so.                        *)
THEOREM StoreIsSound ==
    ASSUME StoreAssumption
    PROVE  Spec => [](ReservedBacksOrders /\ OrdersArePaid)
  <1>1. Init => StoreInv BY StoreInit
  <1>2. StoreInv /\ [Next]_vars => StoreInv' BY StoreNext, StoreStutter
  <1>3. StoreInv => ReservedBacksOrders /\ OrdersArePaid BY StoreInvSays
  <1> QED BY <1>1, <1>2, <1>3, PTL DEF Spec
=============================================================================
