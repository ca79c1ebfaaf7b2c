--------------------------- MODULE Reconciliation ---------------------------
(***************************************************************************)
(* The reconciliation of the markets' money: a run compares the orders,    *)
(* fills, positions, final payments and adjustments with the wallet        *)
(* entries and fees that should explain them, and records each mismatch.   *)
(*                                                                         *)
(* Every service writes both sides of a comparison in one transaction, but *)
(* a run reads them in two statements, each of which sees what is then     *)
(* committed.  The books are those of one buy order, one sell order, the   *)
(* positions of their owners, one final payment and one adjustment line;   *)
(* they can be tampered with, which is what a run is there to find.        *)
(***************************************************************************)
EXTENDS Integers, FiniteSets, Sequences

CONSTANTS
    Callers,    \* concurrent requests and commands that start runs
    Scopes,     \* a date with its market and wallet, which name one run
    Quantity,   \* quantity of each order and of the seller's position
    Lots,       \* quantities of one execution
    Prices,     \* prices, in money units: five digits less than the average's
    MaxTampers,
    MaxFaults,  \* bound on the runs that fail or crash
    None

VARIABLES
    books,      \* the rows the services write
    tampered,   \* number of changes made behind the services' back
    runs,       \* the row of each run: status and mismatches
    callers,    \* where each caller is
    faults,
    disturbed   \* runs during which the books were written

vars == <<books, tampered, runs, callers, faults, disturbed>>

Active == {"OPEN", "PARTIALLY_FILLED"}
Terminal == {"FILLED", "CANCELLED"}
Order == [status |-> "OPEN", filled |-> 0]
Statuses == {"RUNNING", "COMPLETED", "FAILED"}

(* The comparisons, in the order of _detect.                               *)
Checks == <<"overfilled", "open buy", "terminal buy", "sell", "releases", "fill",
            "final", "adjustment", "position">>
Idle == [scope |-> None, next |-> 0, read |-> None, found |-> {}]

TypeOK ==
    /\ \A o \in {books.buy, books.sell} :
        o = None \/ (o.status \in Active \cup Terminal /\ o.filled \in Nat)
    /\ tampered \in 0..MaxTampers /\ faults \in 0..MaxFaults
    /\ \A s \in Scopes : runs[s] = None \/ runs[s].status \in Statuses
    /\ \A c \in Callers : callers[c].scope \in Scopes \cup {None}
    /\ disturbed \subseteq Scopes

Init ==
    /\ books = [buy |-> None, sell |-> None, reserved |-> 0, releases |-> 0,
                bought |-> [quantity |-> 0, cost |-> 0],
                sold |-> [quantity |-> Quantity, reserved |-> 0],
                fills |-> 0, fees |-> 0, debits |-> 0, credits |-> 0,
                final |-> [kind |-> None, fees |-> 0, credits |-> 0],
                line |-> None, lineEntries |-> 0]
    /\ tampered = 0 /\ faults = 0 /\ disturbed = {}
    /\ runs = [s \in Scopes |-> None]
    /\ callers = [c \in Callers |-> Idle]

(* Runs that have read something and are not over.                         *)
Reading == {callers[c].scope : c \in {d \in Callers : callers[d].next > 0}}
Write(b) ==
    /\ books' = b /\ disturbed' = disturbed \cup Reading
    /\ UNCHANGED <<runs, callers, faults>>
Commit(b) == Write(b) /\ UNCHANGED tampered

-----------------------------------------------------------------------------
(* The services, one transaction each.  Money is counted in quantities: a  *)
(* buy order reserves its quantity, a fill consumes its own.               *)
PlaceBuy == books.buy = None /\ Commit([books EXCEPT !.buy = Order, !.reserved = Quantity])
PlaceSell == books.sell = None /\ Commit([books EXCEPT !.sell = Order, !.sold.reserved = Quantity])

CancelBuy ==
    /\ books.buy # None /\ books.buy.status \in Active
    /\ Commit([books EXCEPT !.buy.status = "CANCELLED", !.releases = @ + 1,
                   !.reserved = @ - (Quantity - books.buy.filled)])
CancelSell ==
    /\ books.sell # None /\ books.sell.status \in Active
    /\ Commit([books EXCEPT !.sell.status = "CANCELLED",
                   !.sold.reserved = @ - (Quantity - books.sell.filled)])

FilledOrder(o, q) ==
    [status |-> IF o.filled + q >= Quantity THEN "FILLED" ELSE "PARTIALLY_FILLED",
     filled |-> o.filled + q]

Fill(q, p) ==
    /\ \A o \in {books.buy, books.sell} :
        o # None /\ o.status \in Active /\ o.filled + q <= Quantity
    /\ Commit([books EXCEPT
           !.buy = FilledOrder(@, q), !.sell = FilledOrder(@, q),
           !.reserved = @ - q, !.bought = [quantity |-> @.quantity + q, cost |-> @.cost + q * p],
           !.sold = [quantity |-> @.quantity - q, reserved |-> @.reserved - q],
           !.fills = @ + 1, !.fees = @ + 2, !.debits = @ + 1, !.credits = @ + 1])

(* Settlement, or refund, of the buyer's position: payment, fee and wallet *)
(* credit.  Positions are closed, and reserved shares refused.             *)
PayFinal(kind) ==
    /\ books.final.kind = None /\ books.sold.reserved = 0
    /\ \A o \in {books.buy, books.sell} : o # None /\ o.status \notin Active
    /\ Commit([books EXCEPT !.final = [kind |-> kind, fees |-> 1, credits |-> 1],
                   !.bought = [quantity |-> 0, cost |-> 0], !.sold.quantity = 0])

ProposeLine == books.line = None /\ Commit([books EXCEPT !.line = "PENDING"])
DecideLine ==
    /\ books.line = "PENDING"
    /\ \/ Commit([books EXCEPT !.line = "APPROVED", !.lineEntries = @ + 1])
       \/ Commit([books EXCEPT !.line = "REJECTED"])

(* A row is changed behind the services' back.                             *)
Tamper ==
    /\ tampered < MaxTampers /\ tampered' = tampered + 1
    /\ \/ books.buy # None /\ Write([books EXCEPT !.reserved = @ + 1])
       \/ books.sell # None /\ Write([books EXCEPT !.sold.reserved = @ + 1])
       \/ books.fills > 0 /\ (\/ Write([books EXCEPT !.fees = @ - 1])
                              \/ Write([books EXCEPT !.credits = @ - 1]))
       \/ books.final.kind # None /\ Write([books EXCEPT !.final.credits = @ + 1])
       \/ books.line = "REJECTED" /\ Write([books EXCEPT !.lineEntries = 1])

-----------------------------------------------------------------------------
(* The average has five digits, money four: the roundings of a fill and of *)
(* the comparison.                                                         *)
Round(x, y) == (2 * x + y) \div (2 * y)
Average(p) == IF p.quantity = 0 THEN 0 ELSE Round(p.cost * 10, p.quantity)
CostExplained(p) ==
    LET e == Round(p.quantity * Average(p), 10) IN p.cost - e \in {-1, 0, 1}

Remaining(o) == IF o # None /\ o.status \in Active THEN Quantity - o.filled ELSE 0

(* What the first statement of a comparison reads, and its second.         *)
First(check, b) ==
    CASE check = "overfilled" -> \A o \in {b.buy, b.sell} : o = None \/ o.filled <= Quantity
      [] check \in {"open buy", "terminal buy", "releases"} -> b.buy
      [] check = "sell" -> b.sell
      [] check = "fill" -> b.fills
      [] check = "final" -> b.final.kind
      [] check = "adjustment" -> b.line
      [] check = "position" -> [bought |-> b.bought, sold |-> b.sold]

Orders(check, o, b) ==
    CASE check = "open buy" ->
            o = None \/ o.status \notin Active \/ b.reserved = Remaining(o)
      [] check = "terminal buy" -> o = None \/ o.status \in Active \/ b.reserved = 0
      [] check = "sell" -> o = None \/ b.sold.reserved = Remaining(o)
      [] check = "releases" -> o = None \/ o.status \in Active \/ b.releases <= 1

FillFees(n, b) == b.fees = 2 * n
FillWallets(n, b) == b.debits = n /\ b.credits = n
Fills(n, b) == FillFees(n, b) /\ FillWallets(n, b)
FinalFees(b) == b.final.fees = 1
Settlements(b) == b.final.kind = "SETTLEMENT" => FinalFees(b) /\ b.final.credits = 1
Refunds(b) == b.final.kind = "REFUND" => FinalFees(b) /\ b.final.credits = 1
Adjustments(line, b) ==
    line # None => b.lineEntries = (IF line = "APPROVED" THEN 1 ELSE 0)
Positions(p) ==
    /\ p.bought.quantity >= 0 /\ CostExplained(p.bought)
    /\ p.sold.quantity >= 0 /\ p.sold.reserved \in 0..p.sold.quantity

(* The comparison of what was read first with what is committed now.       *)
Agrees(check, read, b) ==
    CASE check = "overfilled" -> read
      [] check \in {"open buy", "terminal buy", "sell", "releases"} -> Orders(check, read, b)
      [] check = "fill" -> b.fills = read => Fills(read, b)
      [] check = "final" -> read # None => Settlements(b) /\ Refunds(b)
      [] check = "adjustment" -> Adjustments(read, b)
      [] check = "position" -> Positions(read)

-----------------------------------------------------------------------------
(* run: the run of the scope if there is one, whatever its status; the     *)
(* second of two callers that find none is refused by the unique reference.*)
Ask(c, s) ==
    /\ callers[c] = Idle /\ runs[s] = None
    /\ callers' = [callers EXCEPT ![c].scope = s]
    /\ UNCHANGED <<books, tampered, runs, faults, disturbed>>

Create(c) ==
    /\ callers[c].scope # None /\ callers[c].next = 0
    /\ IF runs[callers[c].scope] # None
       THEN callers' = [callers EXCEPT ![c] = Idle] /\ UNCHANGED runs
       ELSE /\ runs' = [runs EXCEPT ![callers[c].scope] =
                            [status |-> "RUNNING", mismatches |-> {}, tampered |-> 0]]
            /\ callers' = [callers EXCEPT ![c].next = 1]
    /\ UNCHANGED <<books, tampered, faults, disturbed>>

Detecting(c) == callers[c].next \in 1..Len(Checks)

Read(c) ==
    /\ Detecting(c) /\ callers[c].read = None
    /\ callers' = [callers EXCEPT ![c].read =
                       [value |-> First(Checks[callers[c].next], books)]]
    /\ UNCHANGED <<books, tampered, runs, faults, disturbed>>

Compare(c) ==
    LET k == callers[c] check == Checks[k.next] IN
    /\ Detecting(c) /\ k.read # None
    /\ callers' = [callers EXCEPT ![c].read = None, ![c].next = @ + 1,
           ![c].found = IF Agrees(check, k.read.value, books) THEN @ ELSE @ \cup {check}]
    /\ UNCHANGED <<books, tampered, runs, faults, disturbed>>

(* The end of the detection's transaction: its mismatches are committed.   *)
Complete(c) ==
    /\ callers[c].next > Len(Checks) /\ callers' = [callers EXCEPT ![c] = Idle]
    /\ runs' = [runs EXCEPT ![callers[c].scope] =
           [status |-> "COMPLETED", mismatches |-> callers[c].found, tampered |-> tampered]]
    /\ UNCHANGED <<books, tampered, faults, disturbed>>

(* An exception: mismatches are rolled back, FAILED is recorded.  A crash  *)
(* leaves the run RUNNING.                                                 *)
Fault(c, status) ==
    /\ Detecting(c) /\ faults < MaxFaults /\ faults' = faults + 1
    /\ runs' = [runs EXCEPT ![callers[c].scope].status = status]
    /\ callers' = [callers EXCEPT ![c] = Idle]
    /\ UNCHANGED <<books, tampered, disturbed>>
Fail(c) == Fault(c, "FAILED")
Crash(c) == Fault(c, "RUNNING")

Next ==
    \/ PlaceBuy \/ PlaceSell \/ CancelBuy \/ CancelSell
    \/ \E q \in Lots, p \in Prices : Fill(q, p)
    \/ \E k \in {"SETTLEMENT", "REFUND"} : PayFinal(k)
    \/ ProposeLine \/ DecideLine \/ Tamper
    \/ \E c \in Callers : \/ \E s \in Scopes : Ask(c, s)
                          \/ Create(c) \/ Read(c) \/ Compare(c) \/ Complete(c)
                          \/ Fail(c) \/ Crash(c)

Spec == Init /\ [][Next]_vars

-----------------------------------------------------------------------------
(* A run during which nothing was written reports a mismatch exactly when  *)
(* the books were tampered with: every transaction of the services leaves  *)
(* all comparisons in agreement, and every change that is not a            *)
(* transaction of theirs is noticed by one of them.                        *)
ReportsAreTrue == \A s \in Scopes \ disturbed :
    (runs[s] # None /\ runs[s].status = "COMPLETED") =>
        (runs[s].mismatches # {} <=> runs[s].tampered > 0)

(* A run never reports a mismatch of books nobody tampered with.           *)
NoFalseAlarm == \A s \in Scopes :
    (runs[s] # None /\ runs[s].mismatches # {}) => tampered > 0
=============================================================================
