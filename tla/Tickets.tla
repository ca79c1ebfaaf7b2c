------------------------------ MODULE Tickets ------------------------------
(***************************************************************************)
(* One ticket product of a club: TicketService.create_order and check_in,  *)
(* and the staff endpoints that edit the product.                          *)
(*                                                                         *)
(* create_order is three transactions: the order is created under the lock *)
(* of the product, paid from the buyer's wallet, and counted as sold under *)
(* the lock again. The worker may stop between two of them, and the        *)
(* product may change meanwhile. Staff read the product in one request     *)
(* statement and write it in a later one without a lock; PATCH writes      *)
(* every column of the copy it read, sold included. Scanners do the same   *)
(* with orders. A wallet operation is one step here (see WalletLedger).    *)
(***************************************************************************)
EXTENDS Integers, FiniteSetsExt

CONSTANTS
    Purchases,    \* calls of create_order, each with an order of its own
    Users,        \* buyers
    Editors,      \* concurrent staff requests on the product
    Scanners,     \* concurrent scans
    Quantities,   \* quantities a buyer may ask for
    Capacities,   \* capacities staff may set; NoCapacity is NULL
    Prices,       \* prices staff may set
    NoCapacity,
    NoPurchase,
    StartFunds,   \* what every buyer's wallet holds at the beginning
    MaxEdits      \* bound on the edits of the product

(* What the constants must satisfy.                                        *)
TicketsAssumption ==
    /\ NoCapacity \notin Nat
    /\ NoPurchase \notin Purchases
    /\ Quantities \subseteq Nat \ {0}
    /\ Capacities \subseteq Nat \cup {NoCapacity}
    /\ Prices \subseteq Nat
    /\ StartFunds \in Nat
    /\ MaxEdits \in Nat

ProductStatuses == {"DRAFT", "ACTIVE", "PAUSED", "ARCHIVED", "SOLD_OUT"}
Products == [status : ProductStatuses, capacity : Capacities,
             sold : Nat, price : Prices]
NoProduct == [status |-> "deleted"]   \* no such row

Orders == [status : {"none", "PENDING", "PAID", "FULFILLED", "CANCELLED"},
           user : Users, quantity : Quantities \cup {0}, total : Nat,
           checkedIn : BOOLEAN]

VARIABLES
    product,     \* the TicketProduct row
    orders,      \* the TicketOrder of each purchase ("none": no row)
    funds,       \* available balance of each buyer
    charged,     \* amount debited under the order's id
    pc,          \* next transaction of each purchase
    copies,      \* the product as an editor read it (NoProduct: none read)
    scans,       \* the purchase whose order a scanner has read and accepted
    admitted,    \* how often each purchase was let in
    edits,       \* edits so far
    overwritten  \* has a PATCH written a sold older than the row's?

vars == <<product, orders, funds, charged, pc, copies, scans, admitted,
          edits, overwritten>>

NoOrder(u) == [status |-> "none", user |-> u, quantity |-> 0, total |-> 0,
               checkedIn |-> FALSE]

TypeOK ==
    /\ product \in Products \cup {NoProduct}
    /\ orders \in [Purchases -> Orders]
    /\ funds \in [Users -> Nat]
    /\ charged \in [Purchases -> Nat]
    /\ pc \in [Purchases -> {"create", "pay", "confirm", "done", "refused",
                             "stopped"}]
    /\ copies \in [Editors -> Products \cup {NoProduct}]
    /\ scans \in [Scanners -> Purchases \cup {NoPurchase}]
    /\ admitted \in [Purchases -> Nat]
    /\ edits \in 0..MaxEdits
    /\ overwritten \in BOOLEAN

(* POST ticket-products: every column but sold is the caller's choice.     *)
Init ==
    /\ \E s \in ProductStatuses, c \in Capacities, price \in Prices :
          product = [status |-> s, capacity |-> c, sold |-> 0, price |-> price]
    /\ orders \in [Purchases -> {NoOrder(u) : u \in Users}]
    /\ funds = [u \in Users |-> StartFunds]
    /\ charged = [p \in Purchases |-> 0]
    /\ pc = [p \in Purchases |-> "create"]
    /\ copies = [e \in Editors |-> NoProduct]
    /\ scans = [s \in Scanners |-> NoPurchase]
    /\ admitted = [p \in Purchases |-> 0]
    /\ edits = 0
    /\ overwritten = FALSE

-----------------------------------------------------------------------------
(* TicketProduct.save refuses to store more sold than capacity.            *)
SaveAccepted(sold, capacity) == capacity # NoCapacity => sold <= capacity

(* validate_sale. A capacity of 0 is no limit to it, as for create_order.  *)
Limited(capacity) == capacity \notin {NoCapacity, 0}

ValidateSale(q) ==
    /\ product.status = "ACTIVE"
    /\ Limited(product.capacity) => product.sold + q <= product.capacity

(* The first transaction of create_order. The sales window, a condition on *)
(* the clock, may refuse at any time.                                      *)
CreateOrder(p, q) ==
    /\ pc[p] = "create"
    /\ \/ /\ product # NoProduct /\ ValidateSale(q)
          /\ orders' = [orders EXCEPT ![p] =
                [@ EXCEPT !.status = "PENDING", !.quantity = q,
                          !.total = product.price * q]]
          /\ pc' = [pc EXCEPT ![p] = "pay"]
       \/ /\ pc' = [pc EXCEPT ![p] = "refused"]
          /\ UNCHANGED orders
    /\ UNCHANGED <<product, funds, charged, copies, scans, admitted, edits,
                   overwritten>>

PayableOverdrawn(p) == orders[p].total > 0

(* debit_available under the order's id, which no other debit uses: it     *)
(* refuses an amount of zero and more than the balance.                    *)
Payable(p) == orders[p].total \in 1..funds[orders[p].user]

DeclineGoesOn(p) ==
    /\ pc' = [pc EXCEPT ![p] = "confirm"]
    /\ UNCHANGED <<orders, funds, charged>>

(* A declined order is cancelled and the refusal passed on.                *)
Decline(p) ==
    /\ orders' = [orders EXCEPT ![p].status = "CANCELLED"]
    /\ pc' = [pc EXCEPT ![p] = "refused"]
    /\ UNCHANGED <<funds, charged>>

Pay(p) ==
    /\ pc[p] = "pay"
    /\ \/ /\ Payable(p)
          /\ funds' = [funds EXCEPT ![orders[p].user] = @ - orders[p].total]
          /\ charged' = [charged EXCEPT ![p] = orders[p].total]
          /\ pc' = [pc EXCEPT ![p] = "confirm"]
          /\ UNCHANGED orders
       \/ ~Payable(p) /\ Decline(p)
    /\ UNCHANGED <<product, copies, scans, admitted, edits, overwritten>>

(* The product with the tickets of one more order.                         *)
Sell(q) ==
    LET sold == product.sold + q IN
    [product EXCEPT !.sold = sold,
                    !.status = IF Limited(product.capacity) /\ sold >= product.capacity
                               THEN "SOLD_OUT" ELSE @]

ConfirmRefusedKeepsPaid(p) ==
    /\ pc' = [pc EXCEPT ![p] = "refused"]
    /\ orders' = [orders EXCEPT ![p].status = "PAID"]
    /\ UNCHANGED product

(* The third transaction of create_order. When save refuses the count, the *)
(* transaction is rolled back, the order's PAID status with it, and the    *)
(* caller is told; nothing takes the payment back.                         *)
ConfirmRefused(p) ==
    /\ pc' = [pc EXCEPT ![p] = "refused"]
    /\ UNCHANGED <<product, orders>>

Confirm(p) ==
    LET after == Sell(orders[p].quantity) IN
    /\ pc[p] = "confirm"
    /\ \/ /\ SaveAccepted(after.sold, after.capacity)
          /\ product' = after
          /\ orders' = [orders EXCEPT ![p].status = "PAID"]
          /\ pc' = [pc EXCEPT ![p] = "done"]
       \/ ~SaveAccepted(after.sold, after.capacity) /\ ConfirmRefused(p)
    /\ UNCHANGED <<funds, charged, copies, scans, admitted, edits, overwritten>>

(* The worker stops between two transactions.                              *)
Stop(p) ==
    /\ pc[p] \in {"pay", "confirm"}
    /\ pc' = [pc EXCEPT ![p] = "stopped"]
    /\ UNCHANGED <<product, orders, funds, charged, copies, scans, admitted,
                   edits, overwritten>>

-----------------------------------------------------------------------------
(* Staff requests: get_object, then the write.                             *)
ReadProduct(e) ==
    /\ copies[e] = NoProduct /\ product # NoProduct
    /\ edits < MaxEdits
    /\ edits' = edits + 1
    /\ copies' = [copies EXCEPT ![e] = product]
    /\ UNCHANGED <<product, orders, funds, charged, pc, scans, admitted,
                   overwritten>>

EditEnds(e) ==
    /\ copies[e] # NoProduct
    /\ copies' = [copies EXCEPT ![e] = NoProduct]
    /\ UNCHANGED <<orders, funds, charged, pc, scans, admitted, edits>>

(* publish_product: writes the status alone, unless the copy was active.   *)
PublishProduct(e) ==
    /\ EditEnds(e)
    /\ product' = IF copies[e].status = "ACTIVE" \/ product = NoProduct THEN product
                  ELSE [product EXCEPT !.status = "ACTIVE"]
    /\ UNCHANGED overwritten

(* PATCH and PUT: every column is written, sold as it was read. The row is *)
(* inserted again when it was deleted meanwhile.                           *)
Patch(e, s, c, price) ==
    /\ EditEnds(e)
    /\ SaveAccepted(copies[e].sold, c)
    /\ product' = [copies[e] EXCEPT !.status = s, !.capacity = c, !.price = price]
    /\ overwritten' = IF product = NoProduct THEN overwritten
                      ELSE overwritten \/ product.sold # copies[e].sold

(* DELETE: the orders protect their product.                               *)
DeleteProduct(e) ==
    /\ EditEnds(e)
    /\ \A p \in Purchases : orders[p].status = "none"
    /\ product' = NoProduct
    /\ UNCHANGED overwritten

(* A request that is refused by save or by the orders, or only reads.      *)
EditRefused(e) == EditEnds(e) /\ UNCHANGED <<product, overwritten>>

-----------------------------------------------------------------------------
(* check_in through TicketOrderScanView: the order is read and tested, and *)
(* written later, without a lock.                                          *)
MayCheckIn(order) == order.status \in {"PAID", "FULFILLED"} /\ ~order.checkedIn

ScanRead(s, p) ==
    /\ scans[s] = NoPurchase
    /\ MayCheckIn(orders[p])
    /\ scans' = [scans EXCEPT ![s] = p]
    /\ UNCHANGED <<product, orders, funds, charged, pc, copies, admitted, edits,
                   overwritten>>

CheckIn(s) ==
    LET p == scans[s] IN
    /\ p # NoPurchase
    /\ orders' = [orders EXCEPT ![p].status = "FULFILLED", ![p].checkedIn = TRUE]
    /\ admitted' = [admitted EXCEPT ![p] = @ + 1]
    /\ scans' = [scans EXCEPT ![s] = NoPurchase]
    /\ UNCHANGED <<product, funds, charged, pc, copies, edits, overwritten>>

-----------------------------------------------------------------------------
Next ==
    \/ \E p \in Purchases :
          \/ \E q \in Quantities : CreateOrder(p, q)
          \/ Pay(p) \/ Confirm(p) \/ Stop(p)
    \/ \E e \in Editors :
          \/ ReadProduct(e) \/ PublishProduct(e) \/ DeleteProduct(e) \/ EditRefused(e)
          \/ \E s \in ProductStatuses, c \in Capacities, price \in Prices : Patch(e, s, c, price)
    \/ \E s \in Scanners : CheckIn(s) \/ \E p \in Purchases : ScanRead(s, p)

Spec == Init /\ [][Next]_vars

-----------------------------------------------------------------------------
Ticketed(p) == orders[p].status \in {"PAID", "FULFILLED"}
TicketsPaid == MapThenSumSet(LAMBDA p : orders[p].quantity,
                             {p \in Purchases : Ticketed(p)})

(* The product never counts a ticket nobody paid for, nor more tickets     *)
(* than its capacity, whatever buyers and staff do at the same time; and   *)
(* until a PATCH has written back an old count, it counts every ticket, so *)
(* that no more tickets than the capacity are sold.                        *)
SoldCountsTickets ==
    product # NoProduct =>
        /\ product.sold <= TicketsPaid
        /\ product.capacity # NoCapacity => product.sold <= product.capacity
        /\ ~overwritten => product.sold = TicketsPaid

(* A ticket was paid in full, and only such a ticket admits anybody; a     *)
(* cancelled order cost nothing; and a buyer's money is in the wallet or   *)
(* was charged for one of the buyer's orders.                              *)
TicketsAreBacked ==
    /\ \A p \in Purchases :
          /\ Ticketed(p) => charged[p] > 0 /\ charged[p] = orders[p].total
          /\ orders[p].status \in {"none", "CANCELLED"} => charged[p] = 0
          /\ admitted[p] > 0 => Ticketed(p)
    /\ \A u \in Users :
          funds[u] + MapThenSumSet(LAMBDA p : charged[p],
                                   {p \in Purchases : orders[p].user = u})
            = StartFunds

(* What create_order means to do with an order it refuses to complete: the *)
(* order is cancelled, or was never made, and has cost the buyer nothing.  *)
RefusedIsCancelled ==
    \A p \in Purchases :
        pc[p] = "refused" => /\ orders[p].status \in {"none", "CANCELLED"}
                             /\ charged[p] = 0
=============================================================================
