--------------------------- MODULE WalletLedger ---------------------------
(***************************************************************************)
(* WalletService._execute run by concurrent database transactions.         *)
(*                                                                         *)
(* Every wallet operation of the system goes through _execute: an          *)
(* idempotency look-up, a row lock on the user, a second look-up, a row    *)
(* lock on the wallet (or its creation), a third look-up, the balance      *)
(* transition, and the insertion of a ledger entry under a unique index on *)
(* the reference. The statements of one transaction interleave with those  *)
(* of the others under PostgreSQL's READ COMMITTED isolation: a look-up    *)
(* sees committed rows only, a row lock waits for its holder, and an       *)
(* insert that collides with an uncommitted one waits for its fate.        *)
(*                                                                         *)
(* A call reaches _execute in one of three styles:                         *)
(*   direct      - the caller holds neither the user nor the wallet row;   *)
(*   walletFirst - create_withdrawal_request and spend_available_balance   *)
(*                 lock the wallet row before they call it;                *)
(*   getOrCreate - deposits, settlement and refunds call                   *)
(*                 get_or_create_wallet in the same transaction first.     *)
(* The last two take their locks in the opposite order of the first, so    *)
(* the database's deadlock detector is part of the model.                  *)
(***************************************************************************)
EXTENDS Integers, Sequences, FiniteSets

(***************************************************************************)
(* The pure part of WalletService: what each of the five wallet operations *)
(* does to the two balances of a wallet, which ledger entry records it,    *)
(* and when an existing entry counts as a replay of a call.                *)
(* Amounts are whole quanta (1 = 0.0001 of the currency, the scale of the  *)
(* DecimalField columns).                                                  *)
(***************************************************************************)
CREDIT  == "CREDIT_AVAILABLE"
RESERVE == "RESERVE_AVAILABLE"
RELEASE == "RELEASE_RESERVED"
DEBIT   == "DEBIT_AVAILABLE"
CONSUME == "CONSUME_RESERVED"

Operations == {CREDIT, RESERVE, RELEASE, DEBIT, CONSUME}

EntryTypes == {"CREDIT", "DEBIT", "RESERVE", "RELEASE"}

\* LedgerEntry.AccountType, and an unsupported value a caller could pass.
AccountTypes == {"USER_WALLET", "PROVIDER_PAYABLE", "REVENUE"}
Unspecified  == "NONE"
Counterparties == AccountTypes \cup {Unspecified, "UNSUPPORTED"}

-----------------------------------------------------------------------------
(* Faulty variants of the definitions below are named after the defect     *)
(* they plant; the runs must notice each of them.                          *)
ReservedNotChecked(op, amount, available, reserved) ==
    op \in {RESERVE, DEBIT} => available >= amount

ReleaseLosesFunds(op, amount, available) ==
    CASE op = CREDIT             -> available + amount
      [] op \in {RESERVE, DEBIT} -> available - amount
      [] OTHER                   -> available

(* _calculate_transition: the balance an operation draws on must cover it. *)
TransitionAllowed(op, amount, available, reserved) ==
    /\ op \in {RESERVE, DEBIT} => available >= amount
    /\ op \in {RELEASE, CONSUME} => reserved >= amount

AvailableAfter(op, amount, available) ==
    CASE op \in {CREDIT, RELEASE} -> available + amount
      [] op \in {RESERVE, DEBIT}  -> available - amount
      [] OTHER                    -> available

ReservedAfter(op, amount, reserved) ==
    CASE op = RESERVE             -> reserved + amount
      [] op \in {RELEASE, CONSUME} -> reserved - amount
      [] OTHER                    -> reserved

\* Debits of either balance carry the same entry type.
EntryType(op) ==
    CASE op = CREDIT  -> "CREDIT"
      [] op = RESERVE -> "RESERVE"
      [] op = RELEASE -> "RELEASE"
      [] OTHER        -> "DEBIT"

-----------------------------------------------------------------------------
(* The account credited by the double entry; the debited one is always the *)
(* user's wallet.                                                          *)
Internal(op) == op \in {RESERVE, RELEASE}

CreditAccount(op, counterparty) ==
    IF Internal(op) THEN "USER_WALLET"
    ELSE IF counterparty # Unspecified THEN counterparty
    ELSE IF op = CREDIT THEN "PROVIDER_PAYABLE" ELSE "REVENUE"

\* The two checks on the credited account: it is a known account, and
\* LedgerEntry.clean refuses debit = credit except for internal entries.
CreditAccountAccepted(op, counterparty) ==
    \/ Internal(op)
    \/ CreditAccount(op, counterparty) \in AccountTypes \ {"USER_WALLET"}

-----------------------------------------------------------------------------
(* _entry_matches_operation: the operation is not stored on the entry; it  *)
(* is recognised from the entry type and the balance snapshots.            *)
EntryMatchesOperation(entry, op) ==
    /\ entry.type = EntryType(op)
    /\ entry.availableAfter = AvailableAfter(op, entry.amount, entry.availableBefore)
    /\ entry.reservedAfter = ReservedAfter(op, entry.amount, entry.reservedBefore)

ReplayIgnoresOperation(entry, c) ==
    /\ entry.account = c.account
    /\ entry.amount = c.amount
    /\ entry.context = c.context

(* _require_matching_replay, as a predicate: FALSE is the ValidationError. *)
MatchingReplay(entry, c) ==
    /\ entry.account = c.account
    /\ entry.amount = c.amount
    /\ EntryMatchesOperation(entry, c.op)
    /\ entry.context = c.context
    /\ entry.creditAccount = CreditAccount(c.op, c.counterparty)

-----------------------------------------------------------------------------
CONSTANTS
    Procs,        \* database transactions that may run at the same time
    Users,
    Currencies,
    References,   \* idempotency references
    Contexts,     \* the market, order, fill and transaction an entry names
    Calls,        \* the calls that are made, a subset of CallType
    NoProc, NoCall, NoEntry

Accounts == Users \X Currencies      \* unique_user_currency_wallet
Styles   == {"direct", "walletFirst", "getOrCreate"}

CallType ==
    [account : Accounts, op : Operations, amount : Int, ref : References,
     context : Contexts, counterparty : Counterparties, style : Styles]

ASSUME CallsAssumption == Calls \subseteq CallType
ASSUME NullsAssumption ==
    NoProc \notin Procs /\ NoCall \notin CallType

Entry ==
    [account : Accounts, type : EntryTypes, amount : Nat \ {0},
     availableBefore : Nat, availableAfter : Nat,
     reservedBefore : Nat, reservedAfter : Nat,
     ref : References, context : Contexts, creditAccount : AccountTypes]

ASSUME NoEntryAssumption == NoEntry \notin Entry

VARIABLES
    wallets,     \* accounts whose wallet row is committed
    available,   \* committed available_balance of each account
    reserved,    \* committed reserved_balance of each account
    ledger,      \* committed ledger entries of each account, oldest first
    userLock,    \* the transaction that holds the row lock of each user
    walletLock,  \* the transaction that holds the row lock of each wallet
    pc,          \* the statement each transaction executes next
    call,        \* the call each transaction serves
    fresh,       \* has it inserted the wallet row itself (not committed)?
    draft,       \* the entry it has inserted and not committed
    result       \* how its last call ended

committed == <<wallets, available, reserved, ledger>>
locks     == <<userLock, walletLock>>
vars      == <<wallets, available, reserved, ledger, userLock, walletLock,
               pc, call, fresh, draft, result>>

Steps == {"idle", "preLock", "check1", "lockUser", "check2", "lockWallet",
          "createWallet", "check3", "apply", "commit"}
Results == {"none", "applied", "replayed", "refused", "aborted"}

TypeOK ==
    /\ wallets \subseteq Accounts
    /\ available \in [Accounts -> Nat]
    /\ reserved \in [Accounts -> Nat]
    /\ ledger \in [Accounts -> Seq(Entry)]
    /\ userLock \in [Users -> Procs \cup {NoProc}]
    /\ walletLock \in [Accounts -> Procs \cup {NoProc}]
    /\ pc \in [Procs -> Steps]
    /\ call \in [Procs -> Calls \cup {NoCall}]
    /\ fresh \in [Procs -> BOOLEAN]
    /\ draft \in [Procs -> Entry \cup {NoEntry}]
    /\ result \in [Procs -> Results]

Init ==
    /\ wallets = {}
    /\ available = [a \in Accounts |-> 0]
    /\ reserved = [a \in Accounts |-> 0]
    /\ ledger = [a \in Accounts |-> <<>>]
    /\ userLock = [u \in Users |-> NoProc]
    /\ walletLock = [a \in Accounts |-> NoProc]
    /\ pc = [p \in Procs |-> "idle"]
    /\ call = [p \in Procs |-> NoCall]
    /\ fresh = [p \in Procs |-> FALSE]
    /\ draft = [p \in Procs |-> NoEntry]
    /\ result = [p \in Procs |-> "none"]

-----------------------------------------------------------------------------
Recorded == UNION {{ledger[a][i] : i \in DOMAIN ledger[a]} : a \in Accounts}

\* _get_existing_entry: the committed entry with this reference, if any.
ExistingEntries(ref) == {e \in Recorded : e.ref = ref}

OwnerOf(a) == a[1]

\* A lock that its own holder can not take again.
NotReentrant(p, a) == walletLock[a] = NoProc

\* A select_for_update on a row returns when nobody else holds its lock.
CanLockUser(p, u)   == userLock[u] \in {p, NoProc}
CanLockWallet(p, a) == walletLock[a] \in {p, NoProc}

\* Another transaction has inserted the wallet row of a and not committed.
WalletInsertPending(p, a) ==
    \E q \in Procs \ {p} : fresh[q] /\ call[q].account = a

\* Another transaction has inserted an entry with this reference and not
\* committed: the unique index makes a second insert wait.
EntryInsertPending(p, ref) ==
    \E q \in Procs \ {p} : draft[q] # NoEntry /\ draft[q].ref = ref

\* Commit and rollback both release every lock of the transaction.
EndTransaction(p, outcome) ==
    /\ pc' = [pc EXCEPT ![p] = "idle"]
    /\ result' = [result EXCEPT ![p] = outcome]
    /\ fresh' = [fresh EXCEPT ![p] = FALSE]
    /\ draft' = [draft EXCEPT ![p] = NoEntry]
    /\ userLock' = [u \in Users |-> IF userLock[u] = p THEN NoProc ELSE userLock[u]]
    /\ walletLock' = [a \in Accounts |-> IF walletLock[a] = p THEN NoProc ELSE walletLock[a]]
    /\ UNCHANGED call

Rollback(p, outcome) == EndTransaction(p, outcome) /\ UNCHANGED committed

GoTo(p, step) == pc' = [pc EXCEPT ![p] = step]

-----------------------------------------------------------------------------
(* A request arrives; credit, reserve, release, debit_available and        *)
(* consume_reserved differ only in the operation they pass on.             *)
Begin(p, c) ==
    /\ pc[p] = "idle"
    /\ call' = [call EXCEPT ![p] = c]
    /\ result' = [result EXCEPT ![p] = "none"]
    /\ GoTo(p, IF c.style = "direct" THEN "check1" ELSE "preLock")
    /\ UNCHANGED <<committed, locks, fresh, draft>>

(* create_withdrawal_request, spend_available_balance: lock the wallet row *)
(* before anything else; without a wallet the request is refused.          *)
PreLockWallet(p) ==
    LET a == call[p].account IN
    /\ pc[p] = "preLock"
    /\ call[p].style = "walletFirst"
    /\ \/ /\ a \notin wallets
          /\ Rollback(p, "refused")
       \/ /\ a \in wallets
          /\ CanLockWallet(p, a)
          /\ walletLock' = [walletLock EXCEPT ![a] = p]
          /\ GoTo(p, "check1")
          /\ UNCHANGED <<committed, userLock, call, fresh, draft, result>>

(* get_or_create_wallet: reads the row without locking it, or inserts it;  *)
(* an insert waits for an uncommitted insert of the same wallet.           *)
PreOpenWallet(p) ==
    LET a == call[p].account IN
    /\ pc[p] = "preLock"
    /\ call[p].style = "getOrCreate"
    /\ \/ /\ a \in wallets
          /\ GoTo(p, "check1")
          /\ UNCHANGED <<walletLock, fresh>>
       \/ /\ a \notin wallets
          /\ ~WalletInsertPending(p, a)
          /\ fresh' = [fresh EXCEPT ![p] = TRUE]
          /\ walletLock' = [walletLock EXCEPT ![a] = p]
          /\ GoTo(p, "check1")
    /\ UNCHANGED <<committed, userLock, call, draft, result>>

\* Amounts that _normalize_amount accepts.
AmountAccepted(c) == c.amount > 0

(* The three look-ups of _execute: an entry with the reference ends the    *)
(* call, as a replay when it records the same operation.                   *)
CheckExisting(p, here, next) ==
    LET found == ExistingEntries(call[p].ref) IN
    /\ pc[p] = here
    /\ \/ /\ found # {}
          /\ Rollback(p, IF \A e \in found : MatchingReplay(e, call[p])
                         THEN "replayed" ELSE "refused")
       \/ /\ found = {}
          /\ GoTo(p, next)
          /\ UNCHANGED <<committed, locks, call, fresh, draft, result>>

Check1(p) ==
    IF pc[p] = "check1" /\ ~AmountAccepted(call[p])
    THEN Rollback(p, "refused")
    ELSE CheckExisting(p, "check1", "lockUser")

\* Reservations lock the wallet before the user, everything else after it.
LocksOutOfOrder(p) ==
    LET a == call[p].account
        u == OwnerOf(a)
        walletFirst == call[p].op = RESERVE /\ a \in wallets /\ walletLock[a] # p IN
    /\ pc[p] = "lockUser"
    /\ \/ /\ walletFirst
          /\ CanLockWallet(p, a)
          /\ walletLock' = [walletLock EXCEPT ![a] = p]
          /\ UNCHANGED <<userLock, pc>>
       \/ /\ ~walletFirst
          /\ CanLockUser(p, u)
          /\ userLock' = [userLock EXCEPT ![u] = p]
          /\ GoTo(p, "check2")
          /\ UNCHANGED walletLock
    /\ UNCHANGED <<committed, call, fresh, draft, result>>

LockUser(p) ==
    LET u == OwnerOf(call[p].account) IN
    /\ pc[p] = "lockUser"
    /\ CanLockUser(p, u)
    /\ userLock' = [userLock EXCEPT ![u] = p]
    /\ GoTo(p, "check2")
    /\ UNCHANGED <<committed, walletLock, call, fresh, draft, result>>

Check2(p) == CheckExisting(p, "check2", "lockWallet")

(* _get_locked_wallet: lock the row, or find none. Only a credit creates   *)
(* the missing wallet (create_wallet=True).                                *)
LockWallet(p) ==
    LET a == call[p].account IN
    /\ pc[p] = "lockWallet"
    /\ \/ /\ a \in wallets \/ fresh[p]
          /\ CanLockWallet(p, a)
          /\ walletLock' = [walletLock EXCEPT ![a] = p]
          /\ GoTo(p, "check3")
          /\ UNCHANGED <<committed, userLock, call, fresh, draft, result>>
       \/ /\ a \notin wallets /\ ~fresh[p]
          /\ call[p].op = CREDIT
          /\ GoTo(p, "createWallet")
          /\ UNCHANGED <<committed, locks, call, fresh, draft, result>>
       \/ /\ a \notin wallets /\ ~fresh[p]
          /\ call[p].op # CREDIT
          /\ Rollback(p, "refused")

(* The insert of the missing wallet row waits for an uncommitted one and   *)
(* fails on a committed one (full_clean, or the unique constraint).        *)
CreateWallet(p) ==
    LET a == call[p].account IN
    /\ pc[p] = "createWallet"
    /\ ~WalletInsertPending(p, a)
    /\ \/ /\ a \in wallets
          /\ Rollback(p, "refused")
       \/ /\ a \notin wallets
          /\ fresh' = [fresh EXCEPT ![p] = TRUE]
          /\ walletLock' = [walletLock EXCEPT ![a] = p]
          /\ GoTo(p, "check3")
          /\ UNCHANGED <<committed, userLock, call, draft, result>>

Check3(p) == CheckExisting(p, "check3", "apply")

\* The ledger entry of a call, with the balance snapshots around it.
EntryOf(c) ==
    LET a == c.account IN
    [account |-> a, type |-> EntryType(c.op), amount |-> c.amount,
     availableBefore |-> available[a],
     availableAfter  |-> AvailableAfter(c.op, c.amount, available[a]),
     reservedBefore  |-> reserved[a],
     reservedAfter   |-> ReservedAfter(c.op, c.amount, reserved[a]),
     ref |-> c.ref, context |-> c.context,
     creditAccount |-> CreditAccount(c.op, c.counterparty)]

\* The unique index on the reference is missing.
NoUniqueIndex(c) ==
    /\ TransitionAllowed(c.op, c.amount, available[c.account], reserved[c.account])
    /\ CreditAccountAccepted(c.op, c.counterparty)

(* The transition, the two validations and the insert of the entry. A      *)
(* committed entry with the same reference is an IntegrityError, an        *)
(* uncommitted one is waited for.                                          *)
ApplyAllowed(c) ==
    /\ TransitionAllowed(c.op, c.amount, available[c.account], reserved[c.account])
    /\ CreditAccountAccepted(c.op, c.counterparty)
    /\ ExistingEntries(c.ref) = {}

Apply(p) ==
    LET c == call[p] IN
    /\ pc[p] = "apply"
    /\ \/ /\ ~ApplyAllowed(c)
          /\ Rollback(p, "refused")
       \/ /\ ApplyAllowed(c)
          /\ ~EntryInsertPending(p, c.ref)
          /\ draft' = [draft EXCEPT ![p] = EntryOf(c)]
          /\ GoTo(p, "commit")
          /\ UNCHANGED <<committed, locks, call, fresh, result>>

\* wallet.save(update_fields=...) forgets one of the two balances.
SaveForgetsReserved(p) ==
    LET a == call[p].account IN
    /\ pc[p] = "commit"
    /\ wallets' = wallets \cup {a}
    /\ available' = [available EXCEPT ![a] = draft[p].availableAfter]
    /\ ledger' = [ledger EXCEPT ![a] = Append(@, draft[p])]
    /\ EndTransaction(p, "applied")
    /\ UNCHANGED reserved

Commit(p) ==
    LET a == call[p].account IN
    /\ pc[p] = "commit"
    /\ wallets' = wallets \cup {a}
    /\ available' = [available EXCEPT ![a] = draft[p].availableAfter]
    /\ reserved' = [reserved EXCEPT ![a] = draft[p].reservedAfter]
    /\ ledger' = [ledger EXCEPT ![a] = Append(@, draft[p])]
    /\ EndTransaction(p, "applied")

(* The transaction is rolled back from outside _execute: the enclosing     *)
(* service raises afterwards, the worker dies, or the connection is lost.  *)
Crash(p) ==
    /\ pc[p] # "idle"
    /\ Rollback(p, "aborted")

-----------------------------------------------------------------------------
(* p waits for a row lock, or for an uncommitted insert, of q.             *)
WaitsFor(p, q) ==
    /\ q # p
    /\ \/ pc[p] = "preLock" /\ call[p].style = "walletFirst"
          /\ call[p].account \in wallets /\ walletLock[call[p].account] = q
       \/ pc[p] = "preLock" /\ call[p].style = "getOrCreate"
          /\ call[p].account \notin wallets
          /\ fresh[q] /\ call[q].account = call[p].account
       \/ pc[p] = "lockUser" /\ userLock[OwnerOf(call[p].account)] = q
       \/ pc[p] = "lockWallet" /\ call[p].account \in wallets
          /\ walletLock[call[p].account] = q
       \/ pc[p] = "createWallet" /\ fresh[q]
          /\ call[q].account = call[p].account
       \/ pc[p] = "apply" /\ ApplyAllowed(call[p])
          /\ draft[q] # NoEntry /\ draft[q].ref = call[p].ref

\* The members of S wait for one another.
WaitCycle(S) == S # {} /\ \A p \in S : \E q \in S : WaitsFor(p, q)

(* PostgreSQL's deadlock detector aborts one transaction of a cycle.       *)
DeadlockVictim(p) ==
    /\ \E S \in SUBSET Procs : p \in S /\ WaitCycle(S)
    /\ Rollback(p, "aborted")

-----------------------------------------------------------------------------
Execute(p) ==
    \/ PreLockWallet(p) \/ PreOpenWallet(p)
    \/ Check1(p) \/ LockUser(p) \/ Check2(p)
    \/ LockWallet(p) \/ CreateWallet(p) \/ Check3(p)
    \/ Apply(p) \/ Commit(p)

Next ==
    \E p \in Procs :
        \/ \E c \in Calls : Begin(p, c)
        \/ Execute(p)
        \/ DeadlockVictim(p)
        \/ Crash(p)

Spec == Init /\ [][Next]_vars

(* A statement that the database can execute is executed; a row lock that  *)
(* is free infinitely often is eventually granted (PostgreSQL queues the   *)
(* waiters of a row); the deadlock detector runs. Nothing makes requests   *)
(* arrive, and nothing makes transactions crash.                           *)
Fairness ==
    \A p \in Procs : SF_vars(Execute(p)) /\ WF_vars(DeadlockVictim(p))

FairSpec == Spec /\ Fairness

-----------------------------------------------------------------------------
(* The entries of a ledger form a chain: each starts from the balances the *)
(* previous one left, the first from an empty wallet.                      *)
Chained(entries) ==
    \A i \in DOMAIN entries :
        /\ entries[i].availableBefore =
               IF i = 1 THEN 0 ELSE entries[i - 1].availableAfter
        /\ entries[i].reservedBefore =
               IF i = 1 THEN 0 ELSE entries[i - 1].reservedAfter

(* LedgerExplainsBalance: at every moment the ledger of a wallet explains  *)
(* its balances. The before/after snapshots form a chain from zero and the *)
(* last snapshot is the current balance: no update is lost between the     *)
(* read of the wallet in _execute and its save.                            *)
LedgerExplainsBalance ==
    \A a \in Accounts :
        LET n == Len(ledger[a]) IN
        /\ Chained(ledger[a])
        /\ available[a] = IF n = 0 THEN 0 ELSE ledger[a][n].availableAfter
        /\ reserved[a] = IF n = 0 THEN 0 ELSE ledger[a][n].reservedAfter
        /\ n > 0 => a \in wallets

(* UniqueReference: an idempotency reference is recorded at most once in   *)
(* the whole ledger, whoever used it, although the three look-ups of       *)
(* _execute are not protected by a lock on the reference.                  *)
UniqueReference ==
    \A a, b \in Accounts :
        \A i \in DOMAIN ledger[a], j \in DOMAIN ledger[b] :
            ledger[a][i].ref = ledger[b][j].ref => a = b /\ i = j

(* What a call asked for, told from its entry without EntryMatchesOperation. *)
RecordsCall(e, c) ==
    /\ e.account = c.account /\ e.amount = c.amount /\ e.context = c.context
    /\ e.availableAfter - e.availableBefore =
           (CASE c.op \in {CREDIT, RELEASE} -> c.amount
              [] c.op \in {RESERVE, DEBIT}  -> -c.amount
              [] c.op = CONSUME             -> 0)
    /\ e.reservedAfter - e.reservedBefore =
           (CASE c.op = RESERVE             -> c.amount
              [] c.op \in {RELEASE, CONSUME} -> -c.amount
              [] c.op \in {CREDIT, DEBIT}   -> 0)

(* SuccessIsRecorded: when _execute returns an entry to its caller, first  *)
(* time or replay, exactly one entry carries the reference and it records  *)
(* the caller's own operation: a reference first used for another user,    *)
(* amount, operation or context is never answered with success.            *)
SuccessIsRecorded ==
    \A p \in Procs :
        result[p] \in {"applied", "replayed"} =>
            /\ Cardinality(ExistingEntries(call[p].ref)) = 1
            /\ \A e \in ExistingEntries(call[p].ref) : RecordsCall(e, call[p])

(* NoWaitCycle: transactions that call _execute directly (user row first,  *)
(* then wallet row, then the reference) never wait for one another in a    *)
(* circle; a deadlock needs a caller that locked the wallet before.        *)
Direct == {p \in Procs : call[p] # NoCall /\ call[p].style = "direct"}
NoWaitCycle == \A S \in SUBSET Direct : ~WaitCycle(S)

(* EveryCallEnds: a wallet operation, once begun, ends in success, refusal *)
(* or rollback; no lock queue or pending insert holds it for ever.         *)
EveryCallEnds == \A p \in Procs : pc[p] # "idle" ~> pc[p] = "idle"

-----------------------------------------------------------------------------
(* The abstract ledger implemented by the transactions.                    *)
Abstract == INSTANCE AbstractLedger WITH
    available <- available, reserved <- reserved, ledger <- ledger

(* ImplementsAbstractLedger: seen from outside, the interleaved statements *)
(* of all transactions amount to postings that happen one at a time, at    *)
(* most once per reference and within the balance.                         *)
ImplementsAbstractLedger == Abstract!Spec
=============================================================================
