------------------------ MODULE FinancialAdjustments ------------------------
(***************************************************************************)
(* Corrections of participants' wallets by the staff of the markets.  One  *)
(* person proposes debits and credits that balance; another approves them, *)
(* and all of them are executed in one transaction, or rejects them.       *)
(*                                                                         *)
(* The rows locked are the adjustment, the wallets and, because the query  *)
(* that locks the wallets joins their users without naming the table to    *)
(* lock, the users as well.  A movement of another service on the same     *)
(* wallet takes the user first and the wallet second, so that the two can  *)
(* wait for each other; the database then ends one of them.                *)
(***************************************************************************)
EXTENDS Integers, FiniteSets, SequencesExt, FiniteSetsExt

CONSTANTS
    Staff,           \* people who may propose and approve
    Wallets,         \* a set of naturals: the wallets in the order of their ids
    Amounts,         \* positive amounts of a line or of another movement
    Requests,        \* concurrent requests
    Funds,           \* what each wallet starts with
    MaxAdjustments,
    MaxMoves,        \* bound on the movements of other services
    None

Decisions == {"APPROVED", "REJECTED"}
Ids == 1..MaxAdjustments
Adjustments == [by : Staff, status : {"PENDING"} \cup Decisions,
                approval : {None} \cup Staff]

(* Lines by wallet; a debit is negative.                                   *)
Signed == Amounts \cup {-a : a \in Amounts}
Sum(f) == MapThenSumSet(LAMBDA w : f[w], DOMAIN f)
Lines == UNION {[ws -> Signed] : ws \in SUBSET Wallets}
Valid(l) == Cardinality(DOMAIN l) >= 2 /\ Sum(l) = 0

VARIABLES
    adjustments, \* the row of each adjustment, or None
    lines,       \* its lines
    entries,     \* <<adjustment, wallet>> with a wallet ledger entry
    available,   \* available balance of each wallet
    moved,       \* what other services moved on each wallet
    moves,       \* number of those movements
    holder,      \* locked row |-> the request that locked it
    calls        \* what each request is doing

vars == <<adjustments, lines, entries, available, moved, moves, holder, calls>>

User(w) == <<"user", w>>
Wallet(w) == <<"wallet", w>>
Adjustment(i) == <<"adjustment", i>>
Locks == {User(w) : w \in Wallets} \cup {Wallet(w) : w \in Wallets}
         \cup {Adjustment(i) : i \in Ids}

Idle == [op |-> None, actor |-> None, id |-> None, lines |-> None,
         decision |-> None, plan |-> <<>>]
Running == {c \in Requests : calls[c].op # None}

TypeOK ==
    /\ \A i \in Ids : adjustments[i] \in Adjustments \cup {None}
    /\ \A i \in Ids : lines[i] \in Lines \cup {None}
    /\ entries \subseteq Ids \X Wallets
    /\ available \in [Wallets -> Nat] /\ moved \in [Wallets -> Int]
    /\ moves \in 0..MaxMoves
    /\ holder \in [Locks -> Requests \cup {None}]
    /\ \A c \in Requests : calls[c].op \in {None, "propose", "decide", "pay", "move"}

Init ==
    /\ adjustments = [i \in Ids |-> None] /\ lines = [i \in Ids |-> None]
    /\ entries = {} /\ moves = 0
    /\ available = [w \in Wallets |-> Funds] /\ moved = [w \in Wallets |-> 0]
    /\ holder = [k \in Locks |-> None]
    /\ calls = [c \in Requests |-> Idle]

Created == {i \in Ids : adjustments[i] # None}
rows == <<adjustments, lines, entries, available, moved, moves>>

-----------------------------------------------------------------------------
(* The order in which the rows of a set of wallets are locked.             *)
WalletsThenUsers(ws) ==
    FoldLeft(LAMBDA plan, w : plan \o <<Wallet(w), User(w)>>, <<>>,
             SetToSortSeq(ws, <))

Begin(c, op, actor, id, l, decision, plan) ==
    /\ c \notin Running
    /\ calls' = [calls EXCEPT ![c] = [op |-> op, actor |-> actor, id |-> id,
                     lines |-> l, decision |-> decision, plan |-> plan]]
    /\ UNCHANGED <<rows, holder>>

(* The end of a request: its transaction releases what it locked.          *)
Release(c) == holder' = [k \in Locks |-> IF holder[k] = c THEN None ELSE holder[k]]
End(c) == calls' = [calls EXCEPT ![c] = Idle] /\ Release(c)

(* propose refuses lines that do not balance.                              *)
Propose(c, actor, l) ==
    Valid(l) /\ Begin(c, "propose", actor, None, l, None, WalletsThenUsers(DOMAIN l))

Decide(c, actor, i, decision) ==
    /\ i \in Created
    /\ Begin(c, "decide", actor, i, None, decision, <<Adjustment(i)>>)

(* A movement of another service: WalletService locks user, then wallet.   *)
Move(c, w, a) ==
    /\ moves + Cardinality({d \in Running : calls[d].op = "move"}) < MaxMoves
    /\ Begin(c, "move", None, None, [v \in {w} |-> a], None, <<User(w), Wallet(w)>>)

(* The next row, once it is free or already the request's own.             *)
Acquire(c) ==
    /\ c \in Running /\ calls[c].plan # <<>>
    /\ holder[Head(calls[c].plan)] \in {None, c}
    /\ holder' = [holder EXCEPT ![Head(calls[c].plan)] = c]
    /\ calls' = [calls EXCEPT ![c].plan = Tail(@)]
    /\ UNCHANGED rows

Ready(c, op) == calls[c].op = op /\ calls[c].plan = <<>>

(* The end of propose: adjustment and lines are created.                   *)
Proposed(c) ==
    /\ Ready(c, "propose") /\ End(c)
    /\ \E i \in Ids \ Created :
        /\ \A j \in Ids : j < i => j \in Created
        /\ adjustments' = [adjustments EXCEPT ![i] =
               [by |-> calls[c].actor, status |-> "PENDING", approval |-> None]]
        /\ lines' = [lines EXCEPT ![i] = calls[c].lines]
    /\ UNCHANGED <<entries, available, moved, moves>>

(* The checks of decide, under the lock of the adjustment.                 *)
MayDecide(i, actor) == adjustments[i].status = "PENDING" /\ adjustments[i].by # actor

Check(c) ==
    /\ Ready(c, "decide") /\ UNCHANGED rows
    /\ IF MayDecide(calls[c].id, calls[c].actor)
       THEN /\ calls' = [calls EXCEPT ![c].op = "pay", ![c].plan =
                             WalletsThenUsers(DOMAIN lines[calls[c].id])]
            /\ UNCHANGED holder
       ELSE End(c)

(* _execute: every line, or none when a debit exceeds its wallet.          *)
Covered(l) == \A w \in DOMAIN l : available[w] + l[w] >= 0
Execute(i) ==
    /\ available' = [w \in Wallets |->
                        available[w] + (IF w \in DOMAIN lines[i] THEN lines[i][w] ELSE 0)]
    /\ entries' = entries \cup ({i} \X DOMAIN lines[i])

(* The rest of decide, with every row locked.                              *)
Decided(c) ==
    LET i == calls[c].id IN
    /\ Ready(c, "pay") /\ End(c) /\ UNCHANGED <<lines, moved, moves>>
    /\ IF calls[c].decision = "APPROVED" /\ ~Covered(lines[i])
       THEN UNCHANGED <<adjustments, available, entries>>
       ELSE /\ adjustments' = [adjustments EXCEPT
                  ![i].status = calls[c].decision, ![i].approval = calls[c].actor]
            /\ IF calls[c].decision = "APPROVED" THEN Execute(i)
               ELSE UNCHANGED <<available, entries>>

(* The other service's movement; a debit beyond the wallet is refused.     *)
Moved(c) ==
    /\ Ready(c, "move") /\ End(c) /\ moves' = moves + 1
    /\ UNCHANGED <<adjustments, lines, entries>>
    /\ LET l == calls[c].lines IN
       IF Covered(l)
       THEN /\ available' = [w \in Wallets |->
                   IF w \in DOMAIN l THEN available[w] + l[w] ELSE available[w]]
            /\ moved' = [w \in Wallets |->
                   IF w \in DOMAIN l THEN moved[w] + l[w] ELSE moved[w]]
       ELSE UNCHANGED <<available, moved>>

(* Requests that wait for each other: the database ends one of them.       *)
WaitsFor(c, d) == /\ {c, d} \subseteq Running /\ c # d /\ calls[c].plan # <<>>
                  /\ holder[Head(calls[c].plan)] = d
Victim(c) ==
    /\ \E d \in Requests : WaitsFor(c, d) /\ WaitsFor(d, c)
    /\ End(c) /\ UNCHANGED <<adjustments, lines, entries, available, moved>>
    /\ moves' = IF calls[c].op = "move" THEN moves + 1 ELSE moves

Progress(c) == \/ Acquire(c) \/ Proposed(c) \/ Check(c) \/ Decided(c) \/ Moved(c)
               \/ Victim(c)

Next == \E c \in Requests :
    \/ \E s \in Staff, l \in Lines :
        /\ Cardinality(Created)
           + Cardinality({d \in Running : calls[d].op = "propose"}) < MaxAdjustments
        /\ Propose(c, s, l)
    \/ \E s \in Staff, i \in Ids, d \in Decisions : Decide(c, s, i, d)
    \/ \E w \in Wallets, a \in Signed : Move(c, w, a)
    \/ Progress(c)

(* The database grants a row in the order of the requests for it, so that  *)
(* a request is not passed over for ever.                                  *)
Fairness == \A c \in Requests : SF_vars(Progress(c))
Spec == Init /\ [][Next]_vars /\ Fairness

-----------------------------------------------------------------------------
(* An adjustment has moved all of its lines if it is approved and none     *)
(* otherwise, another person than its proposer decided it, and what the    *)
(* wallets hold together is what the other services left there, whatever   *)
(* ran at the same time.                                                   *)
AdjustmentsBalance ==
    /\ \A i \in Created :
        LET a == adjustments[i] IN
        /\ {e \in entries : e[1] = i} =
               IF a.status = "APPROVED" THEN {i} \X DOMAIN lines[i] ELSE {}
        /\ a.status = "PENDING" \/ a.approval \in Staff \ {a.by}
    /\ Sum(available) = Sum(moved) + Funds * Cardinality(Wallets)

(* A decision once taken stands.                                           *)
DecidedOnce == [][\A i \in Ids : adjustments[i] # None =>
    (adjustments[i].status # "PENDING" => adjustments'[i] = adjustments[i])]_vars

(* Every request ends, whatever it waits for.                              *)
RequestsEnd == \A c \in Requests : (c \in Running) ~> (c \notin Running)

(* No two requests wait for each other.                                    *)
NoWaitCycle == \A c, d \in Requests : ~(WaitsFor(c, d) /\ WaitsFor(d, c))
=============================================================================
