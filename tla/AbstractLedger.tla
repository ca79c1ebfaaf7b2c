-------------------------- MODULE AbstractLedger --------------------------
(***************************************************************************)
(* What the wallet ledger promises its callers: a posting happens in one   *)
(* step, at most once per reference, only when the balance it draws on     *)
(* covers it, and it appends one entry that carries the balances before    *)
(* and after. Locks, look-ups and transactions do not appear.              *)
(***************************************************************************)
EXTENDS Integers, Sequences

CONSTANTS Accounts, Calls

VARIABLES available, reserved, ledger

avars == <<available, reserved, ledger>>

Init ==
    /\ available = [a \in Accounts |-> 0]
    /\ reserved = [a \in Accounts |-> 0]
    /\ ledger = [a \in Accounts |-> <<>>]

Unused(ref) ==
    \A a \in Accounts : \A i \in DOMAIN ledger[a] : ledger[a][i].ref # ref

\* The balances move by the given amounts and stay non-negative.
Move(a, toAvailable, toReserved) ==
    /\ available' = [available EXCEPT ![a] = @ + toAvailable]
    /\ reserved' = [reserved EXCEPT ![a] = @ + toReserved]
    /\ available'[a] >= 0 /\ reserved'[a] >= 0

Effect(c) ==
    \/ c.op = "CREDIT_AVAILABLE"  /\ Move(c.account, c.amount, 0)
    \/ c.op = "RESERVE_AVAILABLE" /\ Move(c.account, -c.amount, c.amount)
    \/ c.op = "RELEASE_RESERVED"  /\ Move(c.account, c.amount, -c.amount)
    \/ c.op = "DEBIT_AVAILABLE"   /\ Move(c.account, -c.amount, 0)
    \/ c.op = "CONSUME_RESERVED"  /\ Move(c.account, 0, -c.amount)

\* The type an entry shows for the operation it records.
ShownAs(op) ==
    CASE op = "CREDIT_AVAILABLE"  -> "CREDIT"
      [] op = "RESERVE_AVAILABLE" -> "RESERVE"
      [] op = "RELEASE_RESERVED"  -> "RELEASE"
      [] OTHER                    -> "DEBIT"

\* Entry e tells which call was posted and what it did to the balances.
Tells(e, c) ==
    /\ e.account = c.account /\ e.ref = c.ref /\ e.type = ShownAs(c.op)
    /\ e.amount = c.amount /\ e.context = c.context
    /\ e.availableBefore = available[c.account]
    /\ e.availableAfter = available'[c.account]
    /\ e.reservedBefore = reserved[c.account]
    /\ e.reservedAfter = reserved'[c.account]

Post(c) ==
    /\ c.amount > 0
    /\ Unused(c.ref)
    /\ Effect(c)
    /\ \A a \in Accounts :
           IF a = c.account
           THEN LET e == ledger'[a][Len(ledger'[a])]
                IN  ledger'[a] = Append(ledger[a], e) /\ Tells(e, c)
           ELSE ledger'[a] = ledger[a]

Next == \E c \in Calls : Post(c)

Spec == Init /\ [][Next]_avars
=============================================================================
