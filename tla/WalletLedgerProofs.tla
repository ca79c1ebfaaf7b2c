------------------------ MODULE WalletLedgerProofs ------------------------
(***************************************************************************)
(* The ledger of WalletService explains every balance, for any number of   *)
(* users, currencies, transactions, references and calls.                  *)
(*                                                                         *)
(* LedgerExplainsBalance and UniqueReference are not inductive by          *)
(* themselves: Commit writes the snapshot that Apply took one step earlier. *)
(* What makes the snapshot current is the row lock on the wallet, held     *)
(* from Check3 on; what makes the reference unused is the unique index,    *)
(* which lets one transaction at a time hold an uncommitted entry with it. *)
(* IInv states both.                                                       *)
(*                                                                         *)
(* Two further inductive invariants rest on IInv: ResultInv, that the      *)
(* answer of a call is in the ledger (SuccessIsRecorded), and LockInv,     *)
(* where a transaction may be when it holds a row (NoWaitCycle).           *)
(***************************************************************************)
EXTENDS WalletLedger, FiniteSetTheorems, TLAPS

\* A transaction at work serves one of the calls, with an accepted amount
\* from the first look-up on.
CallInv ==
    \A p \in Procs :
        /\ pc[p] # "idle" => call[p] \in Calls
        /\ pc[p] \notin {"idle", "preLock", "check1"} => call[p].amount > 0

\* From Check3 on the transaction holds the row lock of its wallet.
WalletLockInv ==
    \A p \in Procs :
        pc[p] \in {"check3", "apply", "commit"} => walletLock[call[p].account] = p

\* An inserted and uncommitted wallet row is locked by its inserter, and a
\* row that is not committed is locked by nobody else.
FreshInv ==
    /\ \A p \in Procs :
           fresh[p] => pc[p] # "idle" /\ walletLock[call[p].account] = p
    /\ \A p \in Procs : \A a \in Accounts :
           walletLock[a] = p /\ a \notin wallets => fresh[p] /\ call[p].account = a

\* An uncommitted entry was computed from the committed balances and is the
\* only entry, committed or not, with its reference.
DraftInv ==
    /\ \A p \in Procs : draft[p] # NoEntry <=> pc[p] = "commit"
    /\ \A p \in Procs : pc[p] = "commit" =>
           /\ draft[p] \in Entry
           /\ draft[p] = EntryOf(call[p])
           /\ ApplyAllowed(call[p])
    /\ \A p, q \in Procs :
           pc[p] = "commit" /\ pc[q] = "commit" /\ p # q => draft[p].ref # draft[q].ref

IInv ==
    /\ TypeOK
    /\ CallInv
    /\ WalletLockInv
    /\ FreshInv
    /\ DraftInv
    /\ LedgerExplainsBalance
    /\ UniqueReference

-----------------------------------------------------------------------------
(* What an operation is recognised by: an entry with a positive amount     *)
(* matches at most one of the five operations, so a replay can not be      *)
(* mistaken for another operation although both debits share a type.       *)
THEOREM EntryOperationUnique ==
    ASSUME NEW e \in Entry, NEW o1 \in Operations, NEW o2 \in Operations,
           EntryMatchesOperation(e, o1), EntryMatchesOperation(e, o2)
    PROVE  o1 = o2
  <1>1. /\ e.amount \in Nat \ {0}
        /\ e.availableBefore \in Nat /\ e.availableAfter \in Nat
        /\ e.reservedBefore \in Nat /\ e.reservedAfter \in Nat
    BY DEF Entry
  <1>2. o1 \in {CREDIT, RESERVE, RELEASE, DEBIT, CONSUME}
        /\ o2 \in {CREDIT, RESERVE, RELEASE, DEBIT, CONSUME}
    BY DEF Operations
  <1>3. EntryType(o1) = EntryType(o2) BY DEF EntryMatchesOperation
  <1>4. o1 = o2 \/ (o1 \in {DEBIT, CONSUME} /\ o2 \in {DEBIT, CONSUME})
    BY <1>2, <1>3 DEF EntryType, CREDIT, RESERVE, RELEASE, DEBIT, CONSUME
  <1>5. ~(o1 = DEBIT /\ o2 = CONSUME) /\ ~(o1 = CONSUME /\ o2 = DEBIT)
    BY <1>1 DEF EntryMatchesOperation, AvailableAfter, CREDIT, RESERVE, RELEASE, DEBIT, CONSUME
  <1> QED BY <1>4, <1>5

(* The transition of an allowed operation keeps both balances              *)
(* non-negative.                                                           *)
LEMMA TransitionNatural ==
    ASSUME NEW op \in Operations, NEW n \in Nat, NEW av \in Nat, NEW rs \in Nat,
           TransitionAllowed(op, n, av, rs)
    PROVE  AvailableAfter(op, n, av) \in Nat /\ ReservedAfter(op, n, rs) \in Nat
  BY DEF Operations, TransitionAllowed, AvailableAfter, ReservedAfter,
         CREDIT, RESERVE, RELEASE, DEBIT, CONSUME

LEMMA CreditAccountTyped ==
    ASSUME NEW op \in Operations, NEW cp \in Counterparties,
           CreditAccountAccepted(op, cp)
    PROVE  CreditAccount(op, cp) \in AccountTypes
  BY DEF CreditAccount, AccountTypes, CreditAccountAccepted

LEMMA EntryTypeTyped ==
    ASSUME NEW op \in Operations
    PROVE  EntryType(op) \in EntryTypes
  BY DEF EntryType, EntryTypes

(* The entry that Apply inserts for an accepted call is well-formed.       *)
LEMMA EntryOfTyped ==
    ASSUME TypeOK, NEW c \in Calls, c.amount > 0, ApplyAllowed(c)
    PROVE  EntryOf(c) \in Entry
  BY CallsAssumption, TransitionNatural, CreditAccountTyped, EntryTypeTyped DEF CallType, TypeOK,
     ApplyAllowed, EntryOf, Entry

-----------------------------------------------------------------------------
(* What Apply computes depends on the committed state alone.               *)
LEMMA CommittedUnchanged ==
    ASSUME UNCHANGED committed
    PROVE  \A c : EntryOf(c)' = EntryOf(c) /\ (ApplyAllowed(c)' <=> ApplyAllowed(c))
  BY DEF committed, EntryOf, ApplyAllowed, ExistingEntries, Recorded

(* Rolling a transaction back, whatever it was doing, keeps the invariant. *)
LEMMA RollbackPreserves ==
    ASSUME IInv, NEW p \in Procs, NEW o \in Results, Rollback(p, o)
    PROVE  IInv'
  <1> USE DEF IInv, Rollback, EndTransaction, committed
  <1>1. TypeOK' BY DEF TypeOK, Steps
  <1>2. CallInv' BY DEF TypeOK, CallInv
  <1>3. WalletLockInv' BY CallsAssumption DEF WalletLockInv, TypeOK, CallInv, CallType
  <1>4. FreshInv' BY CallsAssumption, NullsAssumption DEF TypeOK, CallInv, FreshInv, CallType
  <1>5. DraftInv' BY CommittedUnchanged DEF TypeOK, DraftInv
  <1>6. LedgerExplainsBalance' /\ UniqueReference' BY DEF LedgerExplainsBalance, UniqueReference
  <1> QED BY <1>1, <1>2, <1>3, <1>4, <1>5, <1>6

(* A transaction moves on to a later statement without inserting an entry: *)
(* it takes no wallet lock, locks a row it may lock, or inserts the row.   *)
LEMMA AdvancePreserves ==
    ASSUME IInv, NEW p \in Procs, NEW s \in Steps \ {"idle", "preLock", "commit"},
           pc[p] \notin {"idle", "commit"}, pc' = [pc EXCEPT ![p] = s],
           s # "check1" => call[p].amount > 0,
           UNCHANGED <<committed, call, draft, result>>,
           userLock' \in [Users -> Procs \cup {NoProc}],
           \/ /\ UNCHANGED <<walletLock, fresh>>
              /\ s \in {"check3", "apply"} => pc[p] = "check3"
           \/ /\ walletLock' = [walletLock EXCEPT ![call[p].account] = p]
              /\ \/ /\ call[p].account \in wallets \/ fresh[p]
                    /\ CanLockWallet(p, call[p].account)
                    /\ UNCHANGED fresh
                 \/ /\ call[p].account \notin wallets
                    /\ ~WalletInsertPending(p, call[p].account)
                    /\ fresh' = [fresh EXCEPT ![p] = TRUE]
    PROVE  IInv'
  <1> DEFINE a == call[p].account
  <1> USE DEF IInv, committed
  <1>1. call[p] \in Calls /\ a \in Accounts BY CallsAssumption DEF CallInv, CallType
  <1>2. TypeOK'
    <2>1. walletLock' \in [Accounts -> Procs \cup {NoProc}] BY <1>1 DEF TypeOK
    <2>2. fresh' \in [Procs -> BOOLEAN] BY DEF TypeOK
    <2>3. pc' \in [Procs -> Steps] BY DEF TypeOK
    <2> QED BY <2>1, <2>2, <2>3 DEF TypeOK
  <1>3. CallInv' BY DEF TypeOK, CallInv
  <1>5. \A q \in Procs : q # p /\ walletLock[a] = q => UNCHANGED walletLock
    <2> SUFFICES ASSUME NEW q \in Procs, q # p, walletLock[a] = q,
                        ~(UNCHANGED <<walletLock, fresh>>)
                 PROVE  FALSE
      OBVIOUS
    <2>1. CASE CanLockWallet(p, a) BY <2>1, NullsAssumption DEF CanLockWallet
    <2>2. CASE a \notin wallets /\ ~WalletInsertPending(p, a)
      BY <1>1, <2>2 DEF FreshInv, WalletInsertPending
    <2> QED BY <2>1, <2>2
  <1>6. WalletLockInv'
    <2> SUFFICES ASSUME NEW q \in Procs, pc'[q] \in {"check3", "apply", "commit"}
                 PROVE  walletLock'[call[q].account] = q
      BY DEF WalletLockInv
    <2>1. CASE q = p BY <2>1, <1>1 DEF WalletLockInv, TypeOK
    <2>2. CASE q # p
      BY <1>1, <1>5, <2>2, CallsAssumption DEF WalletLockInv, TypeOK, CallInv, CallType
    <2> QED BY <2>1, <2>2
  <1>7. FreshInv'
    <2>1. ASSUME NEW q \in Procs, fresh'[q]
          PROVE  pc'[q] # "idle" /\ walletLock'[call[q].account] = q
      <3>1. CASE q = p BY <2>1, <3>1, <1>1 DEF FreshInv, TypeOK
      <3>2. CASE q # p
        BY <1>1, <1>5, <2>1, <3>2, CallsAssumption DEF FreshInv, TypeOK, CallInv, CallType
      <3> QED BY <3>1, <3>2
    <2>2. ASSUME NEW q \in Procs, NEW b \in Accounts, walletLock'[b] = q, b \notin wallets
          PROVE  fresh'[q] /\ call[q].account = b
      BY <2>2, <1>1 DEF FreshInv, TypeOK
    <2> QED BY <2>1, <2>2 DEF FreshInv
  <1>8. DraftInv' BY CommittedUnchanged DEF TypeOK, DraftInv
  <1>9. LedgerExplainsBalance' /\ UniqueReference' BY DEF LedgerExplainsBalance, UniqueReference
  <1> QED BY <1>2, <1>3, <1>6, <1>7, <1>8, <1>9

(* The insert of the entry, under the wallet's lock and the unique index.  *)
LEMMA ApplyPreserves ==
    ASSUME IInv, NEW p \in Procs, Apply(p)
    PROVE  IInv'
  <1> DEFINE c == call[p]
  <1> USE DEF IInv, committed, locks
  <1>1. CASE Rollback(p, "refused") BY <1>1, RollbackPreserves DEF Results
  <1>2. CASE /\ pc[p] = "apply" /\ ApplyAllowed(c) /\ ~EntryInsertPending(p, c.ref)
             /\ draft' = [draft EXCEPT ![p] = EntryOf(c)]
             /\ GoTo(p, "commit")
             /\ UNCHANGED <<committed, locks, call, fresh, result>>
    <2> USE <1>2 DEF GoTo
    <2>1. c \in Calls /\ c.amount > 0 BY DEF CallInv
    <2>2. EntryOf(c) \in Entry BY <2>1, EntryOfTyped
    <2>3. TypeOK' BY <2>2 DEF TypeOK, Steps
    <2>4. CallInv' /\ WalletLockInv' /\ FreshInv' BY DEF TypeOK, CallInv, WalletLockInv, FreshInv
    <2>5. DraftInv'
      <3>1. EntryOf(c).ref = c.ref BY DEF EntryOf
      <3>2. \A q \in Procs \ {p} : pc[q] = "commit" => draft[q].ref # c.ref
        BY DEF EntryInsertPending, DraftInv
      <3>3. \A q \in Procs : IF q = p
                             THEN pc'[q] = "commit" /\ draft'[q] = EntryOf(c)
                             ELSE pc'[q] = pc[q] /\ draft'[q] = draft[q]
        BY DEF TypeOK
      <3>4. \A d : EntryOf(d)' = EntryOf(d) /\ (ApplyAllowed(d)' <=> ApplyAllowed(d))
        BY CommittedUnchanged
      <3> QED BY <2>2, <3>1, <3>2, <3>3, <3>4, NoEntryAssumption DEF DraftInv
    <2>6. LedgerExplainsBalance' /\ UniqueReference' BY DEF LedgerExplainsBalance, UniqueReference
    <2> QED BY <2>3, <2>4, <2>5, <2>6
  <1> QED BY <1>1, <1>2 DEF Apply

-----------------------------------------------------------------------------
(* What Commit adds to the ledger: the draft, after the last entry of the  *)
(* wallet, and nothing else.                                               *)
LEMMA CommitAppends ==
    ASSUME IInv, NEW p \in Procs, Commit(p)
    PROVE  LET a == call[p].account IN
           /\ a \in Accounts /\ call[p] \in Calls /\ draft[p] \in Entry
           /\ ledger'[a] = Append(ledger[a], draft[p])
           /\ DOMAIN ledger'[a] = DOMAIN ledger[a] \cup {Len(ledger[a]) + 1}
           /\ ledger'[a][Len(ledger[a]) + 1] = draft[p]
           /\ \A i \in DOMAIN ledger[a] : ledger'[a][i] = ledger[a][i]
           /\ \A b \in Accounts \ {a} :
                  ledger'[b] = ledger[b] /\ available'[b] = available[b]
                  /\ reserved'[b] = reserved[b]
  <1> DEFINE a == call[p].account
  <1>1. call[p] \in Calls /\ a \in Accounts /\ draft[p] \in Entry
    BY CallsAssumption DEF IInv, Commit, CallInv, CallType, DraftInv
  <1>2. ledger[a] \in Seq(Entry) BY <1>1 DEF IInv, TypeOK
  <1>3. /\ ledger'[a] = Append(ledger[a], draft[p])
        /\ \A b \in Accounts \ {a} :
                  ledger'[b] = ledger[b] /\ available'[b] = available[b]
                  /\ reserved'[b] = reserved[b]
    BY <1>1 DEF Commit, IInv, TypeOK
  <1> QED BY <1>1, <1>2, <1>3

(* The commit of the draft: its snapshot is still the committed balance,   *)
(* and its reference is still unused.                                      *)
LEMMA CommitPreserves ==
    ASSUME IInv, NEW p \in Procs, Commit(p)
    PROVE  IInv'
  <1> DEFINE a == call[p].account
             d == draft[p]
  <1> USE DEF IInv
  <1>1. /\ a \in Accounts /\ call[p] \in Calls /\ d \in Entry
        /\ ledger'[a] = Append(ledger[a], d)
        /\ DOMAIN ledger'[a] = DOMAIN ledger[a] \cup {Len(ledger[a]) + 1}
        /\ ledger'[a][Len(ledger[a]) + 1] = d
        /\ \A i \in DOMAIN ledger[a] : ledger'[a][i] = ledger[a][i]
        /\ \A b \in Accounts \ {a} :
               ledger'[b] = ledger[b] /\ available'[b] = available[b]
               /\ reserved'[b] = reserved[b]
    BY CommitAppends
  <1>2. d = EntryOf(call[p]) /\ ApplyAllowed(call[p]) BY DEF Commit, DraftInv
  <1>3. d.ref = call[p].ref /\ d.availableBefore = available[a]
        /\ d.reservedBefore = reserved[a]
    BY <1>2 DEF EntryOf
  <1>4. /\ available' = [available EXCEPT ![a] = d.availableAfter]
        /\ reserved' = [reserved EXCEPT ![a] = d.reservedAfter]
        /\ wallets' = wallets \cup {a}
        /\ pc' = [pc EXCEPT ![p] = "idle"] /\ call' = call
        /\ draft' = [draft EXCEPT ![p] = NoEntry]
        /\ fresh' = [fresh EXCEPT ![p] = FALSE]
        /\ walletLock' = [b \in Accounts |-> IF walletLock[b] = p THEN NoProc ELSE walletLock[b]]
    BY DEF Commit, EndTransaction
  <1>5. TypeOK'
    <2>1. ledger' \in [Accounts -> Seq(Entry)] BY <1>1 DEF TypeOK, Commit
    <2>2. available' \in [Accounts -> Nat] /\ reserved' \in [Accounts -> Nat]
      BY <1>1, <1>4 DEF TypeOK, Entry
    <2>3. userLock' \in [Users -> Procs \cup {NoProc}] /\ result' \in [Procs -> Results]
      BY DEF Commit, EndTransaction, TypeOK, Results
    <2> QED BY <1>1, <1>4, <2>1, <2>2, <2>3 DEF TypeOK, Steps
  <1>6. CallInv' BY <1>4 DEF CallInv, TypeOK
  <1>7. WalletLockInv' BY <1>4, CallsAssumption DEF WalletLockInv, TypeOK, CallInv, CallType
  <1>8. FreshInv'
    <2>1. ASSUME NEW q \in Procs, fresh'[q]
          PROVE  pc'[q] # "idle" /\ walletLock'[call[q].account] = q
      BY <1>4, <2>1, CallsAssumption DEF FreshInv, TypeOK, CallInv, CallType
    <2>2. ASSUME NEW q \in Procs, NEW b \in Accounts, walletLock'[b] = q, b \notin wallets'
          PROVE  fresh'[q] /\ call[q].account = b
      BY <1>4, <2>2, NullsAssumption DEF TypeOK, FreshInv
    <2> QED BY <2>1, <2>2, <1>4 DEF FreshInv
  <1>9. DraftInv'
    <2>1. \A q \in Procs : draft'[q] # NoEntry <=> pc'[q] = "commit" BY <1>4 DEF DraftInv, TypeOK
    <2>2. ASSUME NEW q \in Procs, pc'[q] = "commit"
          PROVE  /\ draft'[q] \in Entry
                 /\ draft'[q] = EntryOf(call[q])'
                 /\ ApplyAllowed(call[q])'
      <3>1. q # p /\ pc[q] = "commit" /\ draft'[q] = draft[q] BY <2>2, <1>4 DEF TypeOK
      <3>2. draft[q] \in Entry /\ draft[q] = EntryOf(call[q]) /\ ApplyAllowed(call[q])
        BY <3>1 DEF DraftInv
      <3>3. call[q].account \in Accounts \ {a}
        BY <3>1, CallsAssumption DEF CallInv, CallType, WalletLockInv, Commit
      <3>4. available'[call[q].account] = available[call[q].account]
            /\ reserved'[call[q].account] = reserved[call[q].account]
        BY <3>3, <1>1
      <3>5. EntryOf(call[q])' = EntryOf(call[q]) BY <3>4, <1>4 DEF EntryOf
      <3>6. call[q].ref # d.ref BY <3>1, <3>2 DEF DraftInv, EntryOf, Commit
      <3>7. ExistingEntries(call[q].ref)' = {}
        <4> SUFFICES ASSUME NEW b \in Accounts, NEW i \in DOMAIN ledger'[b]
                     PROVE  ledger'[b][i].ref # call[q].ref
          BY <1>4 DEF ExistingEntries, Recorded
        <4>1. CASE b = a /\ i = Len(ledger[a]) + 1 BY <4>1, <1>1, <3>6
        <4>2. CASE ~(b = a /\ i = Len(ledger[a]) + 1)
          <5>1. i \in DOMAIN ledger[b] /\ ledger'[b][i] = ledger[b][i] BY <4>2, <1>1
          <5> QED BY <5>1, <3>2 DEF ApplyAllowed, ExistingEntries, Recorded
        <4> QED BY <4>1, <4>2
      <3> QED BY <3>1, <3>2, <3>4, <3>5, <3>7, <1>4 DEF ApplyAllowed
    <2>3. \A q, r \in Procs : pc'[q] = "commit" /\ pc'[r] = "commit" /\ q # r
                                  => draft'[q].ref # draft'[r].ref
      BY <1>4 DEF DraftInv, TypeOK
    <2> QED BY <2>1, <2>2, <2>3, <1>4 DEF DraftInv
  <1>10. LedgerExplainsBalance'
    <2> SUFFICES ASSUME NEW b \in Accounts
                 PROVE  LET n == Len(ledger'[b]) IN
                        /\ Chained(ledger'[b])
                        /\ available'[b] = IF n = 0 THEN 0 ELSE ledger'[b][n].availableAfter
                        /\ reserved'[b] = IF n = 0 THEN 0 ELSE ledger'[b][n].reservedAfter
                        /\ n > 0 => b \in wallets'
      BY DEF LedgerExplainsBalance
    <2>1. CASE b # a BY <2>1, <1>1, <1>4 DEF LedgerExplainsBalance
    <2>2. CASE b = a
      <3>1. ledger[a] \in Seq(Entry) /\ Len(ledger'[a]) = Len(ledger[a]) + 1
            /\ Len(ledger[a]) \in Nat /\ DOMAIN ledger[a] = 1 .. Len(ledger[a])
        BY <1>1 DEF TypeOK
      <3>2. Chained(ledger'[a])
        <4> SUFFICES ASSUME NEW i \in DOMAIN ledger'[a]
                     PROVE  /\ ledger'[a][i].availableBefore =
                                 IF i = 1 THEN 0 ELSE ledger'[a][i - 1].availableAfter
                            /\ ledger'[a][i].reservedBefore =
                                 IF i = 1 THEN 0 ELSE ledger'[a][i - 1].reservedAfter
          BY DEF Chained
        <4>1. CASE i \in DOMAIN ledger[a] BY <1>1, <3>1, <4>1 DEF LedgerExplainsBalance, Chained
        <4>2. CASE i = Len(ledger[a]) + 1 BY <1>1, <1>3, <3>1, <4>2 DEF LedgerExplainsBalance
        <4> QED BY <4>1, <4>2, <1>1
      <3> QED BY <2>2, <3>1, <3>2, <1>1, <1>4 DEF TypeOK
    <2> QED BY <2>1, <2>2
  <1>11. UniqueReference'
    <2>1. \A b \in Accounts : \A i \in DOMAIN ledger[b] : ledger[b][i].ref # d.ref
      BY <1>2, <1>3 DEF ApplyAllowed, ExistingEntries, Recorded
    <2>2. \A b \in Accounts : \A i \in DOMAIN ledger'[b] :
              \/ i \in DOMAIN ledger[b] /\ ledger'[b][i] = ledger[b][i]
              \/ b = a /\ i = Len(ledger[a]) + 1 /\ ledger'[b][i] = d
      BY <1>1
    <2> QED BY <2>1, <2>2 DEF UniqueReference
  <1> QED BY <1>5, <1>6, <1>7, <1>8, <1>9, <1>10, <1>11

-----------------------------------------------------------------------------
LEMMA InitEstablishes == Init => IInv
  <1> SUFFICES ASSUME Init PROVE IInv OBVIOUS
  <1> USE DEF Init
  <1>1. TypeOK BY DEF TypeOK, Steps, Results
  <1>2. CallInv /\ WalletLockInv /\ FreshInv /\ DraftInv
    BY NullsAssumption DEF CallInv, WalletLockInv, FreshInv, DraftInv
  <1>3. LedgerExplainsBalance /\ UniqueReference
    BY DEF LedgerExplainsBalance, UniqueReference, Chained
  <1> QED BY <1>1, <1>2, <1>3 DEF IInv

(* The look-ups: end the call, or move on.                                 *)
LEMMA CheckPreserves ==
    ASSUME IInv, NEW p \in Procs,
           NEW here \in {"check1", "check2", "check3"},
           NEW next \in {"lockUser", "lockWallet", "apply"},
           next = "apply" => here = "check3", call[p].amount > 0,
           CheckExisting(p, here, next)
    PROVE  IInv'
  <1>1. CASE \E o \in Results : Rollback(p, o) BY <1>1, RollbackPreserves
  <1>2. CASE GoTo(p, next) /\ UNCHANGED <<committed, locks, call, fresh, draft, result>>
    <2>1. pc[p] = here /\ userLock' \in [Users -> Procs \cup {NoProc}]
      BY <1>2 DEF CheckExisting, IInv, TypeOK, locks
    <2>2. next \in Steps \ {"idle", "preLock", "commit"} BY DEF Steps
    <2> QED BY <1>2, <2>1, <2>2, AdvancePreserves DEF GoTo, locks, committed
  <1> QED BY <1>1, <1>2 DEF CheckExisting, Results

LEMMA NextPreserves == IInv /\ [Next]_vars => IInv'
  <1> SUFFICES ASSUME IInv, [Next]_vars PROVE IInv' OBVIOUS
  <1>0. CASE UNCHANGED vars
    <2>1. UNCHANGED committed BY <1>0 DEF vars, committed
    <2>2. TypeOK' /\ CallInv' /\ WalletLockInv' /\ FreshInv'
      BY <1>0 DEF vars, IInv, TypeOK, CallInv, WalletLockInv, FreshInv
    <2>3. DraftInv' BY <1>0, <2>1, CommittedUnchanged DEF vars, IInv, DraftInv
    <2> QED BY <1>0, <2>2, <2>3 DEF vars, IInv, LedgerExplainsBalance, UniqueReference
  <1>1. ASSUME NEW p \in Procs, NEW c \in Calls, Begin(p, c) PROVE IInv'
    <2> USE <1>1 DEF Begin, GoTo, committed, locks, IInv
    <2>1. TypeOK' BY DEF TypeOK, Steps, Results
    <2>2. CallInv' /\ WalletLockInv' /\ FreshInv' BY DEF TypeOK, CallInv, WalletLockInv, FreshInv
    <2>3. DraftInv' BY CommittedUnchanged DEF TypeOK, DraftInv
    <2> QED BY <2>1, <2>2, <2>3 DEF LedgerExplainsBalance, UniqueReference
  <1>2. ASSUME NEW p \in Procs, PreLockWallet(p) PROVE IInv'
    <2>1. CASE Rollback(p, "refused") BY <2>1, RollbackPreserves DEF Results
    <2>2. CASE ~Rollback(p, "refused")
      <3>1. /\ pc[p] = "preLock" /\ pc' = [pc EXCEPT ![p] = "check1"]
            /\ call[p].account \in wallets /\ CanLockWallet(p, call[p].account)
            /\ walletLock' = [walletLock EXCEPT ![call[p].account] = p]
            /\ UNCHANGED <<committed, userLock, call, fresh, draft, result>>
        BY <1>2, <2>2 DEF PreLockWallet, GoTo
      <3>2. "check1" \in Steps \ {"idle", "preLock", "commit"} BY DEF Steps
      <3>3. userLock' \in [Users -> Procs \cup {NoProc}] BY <3>1 DEF IInv, TypeOK
      <3> QED BY <3>1, <3>2, <3>3, AdvancePreserves
    <2> QED BY <2>1, <2>2
  <1>3. ASSUME NEW p \in Procs, PreOpenWallet(p) PROVE IInv'
    BY <1>3, AdvancePreserves DEF PreOpenWallet, GoTo, committed, Steps, IInv, TypeOK
  <1>4. ASSUME NEW p \in Procs, Check1(p) PROVE IInv'
    <2>1. CASE pc[p] = "check1" /\ ~AmountAccepted(call[p])
      BY <1>4, <2>1, RollbackPreserves DEF Check1, Results
    <2>2. CASE ~(pc[p] = "check1" /\ ~AmountAccepted(call[p]))
      BY <1>4, <2>2, CheckPreserves DEF Check1, CheckExisting, AmountAccepted
    <2> QED BY <2>1, <2>2
  <1>5. ASSUME NEW p \in Procs, LockUser(p) PROVE IInv'
    <2>1. userLock' \in [Users -> Procs \cup {NoProc}] BY <1>5 DEF LockUser, IInv, TypeOK
    <2>2. call[p].amount > 0 BY <1>5 DEF LockUser, IInv, CallInv
    <2> QED BY <1>5, <2>1, <2>2, AdvancePreserves DEF LockUser, GoTo, committed, Steps
  <1>6. ASSUME NEW p \in Procs, Check2(p) PROVE IInv'
    BY <1>6, CheckPreserves DEF Check2, CheckExisting, IInv, CallInv
  <1>7. ASSUME NEW p \in Procs, LockWallet(p) PROVE IInv'
    <2>1. CASE Rollback(p, "refused") BY <2>1, RollbackPreserves DEF Results
    <2>2. CASE ~Rollback(p, "refused")
      <3>1. call[p].amount > 0 /\ userLock' \in [Users -> Procs \cup {NoProc}]
        BY <1>7, <2>2 DEF LockWallet, IInv, CallInv, TypeOK, locks
      <3> QED BY <1>7, <2>2, <3>1, AdvancePreserves DEF LockWallet, GoTo, committed, locks, Steps
    <2> QED BY <2>1, <2>2
  <1>8. ASSUME NEW p \in Procs, CreateWallet(p) PROVE IInv'
    <2>1. CASE Rollback(p, "refused") BY <2>1, RollbackPreserves DEF Results
    <2>2. CASE ~Rollback(p, "refused")
      <3>1. call[p].amount > 0 /\ userLock' \in [Users -> Procs \cup {NoProc}]
        BY <1>8, <2>2 DEF CreateWallet, IInv, CallInv, TypeOK, locks
      <3> QED BY <1>8, <2>2, <3>1, AdvancePreserves DEF CreateWallet, GoTo, committed, locks, Steps
    <2> QED BY <2>1, <2>2
  <1>9. ASSUME NEW p \in Procs, Check3(p) PROVE IInv'
    BY <1>9, CheckPreserves DEF Check3, CheckExisting, IInv, CallInv
  <1>10. ASSUME NEW p \in Procs, Apply(p) \/ Commit(p) PROVE IInv'
    BY <1>10, ApplyPreserves, CommitPreserves
  <1>11. ASSUME NEW p \in Procs, DeadlockVictim(p) \/ Crash(p) PROVE IInv'
    BY <1>11, RollbackPreserves DEF DeadlockVictim, Crash, Results
  <1> QED BY <1>0, <1>1, <1>2, <1>3, <1>4, <1>5, <1>6, <1>7, <1>8, <1>9, <1>10, <1>11
          DEF Next, Execute

(* The inductive invariant holds in every reachable state.                 *)
THEOREM Invariance == Spec => []IInv
  BY InitEstablishes, NextPreserves, PTL DEF Spec

(* Type correctness: in particular no balance is ever negative.            *)
THEOREM TypeCorrect == Spec => []TypeOK
  <1>1. IInv => TypeOK BY DEF IInv
  <1> QED BY <1>1, Invariance, PTL

(* No interleaving of wallet operations loses an update: the committed     *)
(* ledger of every wallet explains its committed balances.                 *)
THEOREM BalancesExplained == Spec => []LedgerExplainsBalance
  <1>1. IInv => LedgerExplainsBalance BY DEF IInv
  <1> QED BY <1>1, Invariance, PTL

(* No interleaving records an idempotency reference twice.                 *)
THEOREM ReferencesUnique == Spec => []UniqueReference
  <1>1. IInv => UniqueReference BY DEF IInv
  <1> QED BY <1>1, Invariance, PTL

-----------------------------------------------------------------------------
(* An answered call: its reference is in the ledger and tells the caller's *)
(* own operation. The transaction is over, so nothing it does can change   *)
(* that before it begins another call.                                     *)
Answered(p) ==
    \E e \in ExistingEntries(call[p].ref) : RecordsCall(e, call[p])

ResultInv ==
    \A p \in Procs :
        result[p] \in {"applied", "replayed"} => pc[p] = "idle" /\ Answered(p)

(* The ledger only grows, and a transaction that is over keeps its call.   *)
LEMMA AnswerKept ==
    ASSUME NEW p, Answered(p), call'[p] = call[p],
           \A r : ExistingEntries(r) \subseteq ExistingEntries(r)'
    PROVE  Answered(p)'
  BY DEF Answered, RecordsCall

LEMMA RecordedTyped == TypeOK => Recorded \subseteq Entry
  BY DEF TypeOK, Recorded

(* _require_matching_replay accepts only an entry of the very operation.   *)
LEMMA ReplayRecords ==
    ASSUME NEW e \in Entry, NEW c \in Calls, MatchingReplay(e, c)
    PROVE  RecordsCall(e, c)
  <1>1. c.op \in {CREDIT, RESERVE, RELEASE, DEBIT, CONSUME}
    BY CallsAssumption DEF CallType, Operations
  <1>2. /\ e.availableBefore \in Nat /\ e.availableAfter \in Nat
        /\ e.reservedBefore \in Nat /\ e.reservedAfter \in Nat
        /\ c.amount \in Int
    BY CallsAssumption DEF Entry, CallType
  <1>3. /\ e.account = c.account /\ e.amount = c.amount /\ e.context = c.context
        /\ e.availableAfter = AvailableAfter(c.op, c.amount, e.availableBefore)
        /\ e.reservedAfter = ReservedAfter(c.op, c.amount, e.reservedBefore)
    BY DEF MatchingReplay, EntryMatchesOperation
  <1> QED BY <1>1, <1>2, <1>3 DEF RecordsCall, AvailableAfter, ReservedAfter,
                                  CREDIT, RESERVE, RELEASE, DEBIT, CONSUME

(* The entry that Apply computes for a call tells that call.               *)
LEMMA DraftRecords ==
    ASSUME TypeOK, NEW c \in Calls
    PROVE  RecordsCall(EntryOf(c), c)
  <1>1. /\ c.op \in {CREDIT, RESERVE, RELEASE, DEBIT, CONSUME}
        /\ c.amount \in Int /\ c.account \in Accounts
    BY CallsAssumption DEF CallType, Operations
  <1>2. available[c.account] \in Nat /\ reserved[c.account] \in Nat BY <1>1 DEF TypeOK
  <1> QED BY <1>1, <1>2 DEF EntryOf, RecordsCall, AvailableAfter, ReservedAfter,
                            CREDIT, RESERVE, RELEASE, DEBIT, CONSUME

LEMMA RollbackKeepsResults ==
    ASSUME IInv, ResultInv, NEW p \in Procs, NEW o \in Results, Rollback(p, o),
           o \in {"applied", "replayed"} => Answered(p)
    PROVE  ResultInv'
  <1>1. \A r : ExistingEntries(r) \subseteq ExistingEntries(r)'
    BY DEF Rollback, committed, ExistingEntries, Recorded
  <1>2. \A q \in Procs : /\ pc'[q] = IF q = p THEN "idle" ELSE pc[q]
                         /\ result'[q] = IF q = p THEN o ELSE result[q]
                         /\ call'[q] = call[q]
    BY DEF Rollback, EndTransaction, IInv, TypeOK
  <1> QED BY <1>1, <1>2, AnswerKept DEF ResultInv

(* A look-up that ends the call as a replay found the matching entry.      *)
LEMMA CheckKeepsResults ==
    ASSUME IInv, ResultInv, NEW p \in Procs, NEW here \in Steps \ {"idle"}, NEW next \in Steps,
           CheckExisting(p, here, next)
    PROVE  ResultInv'
  <1> DEFINE found == ExistingEntries(call[p].ref)
  <1>1. CASE GoTo(p, next) /\ UNCHANGED <<committed, locks, call, fresh, draft, result>>
    <2>1. \A r : ExistingEntries(r) \subseteq ExistingEntries(r)'
      BY <1>1 DEF committed, ExistingEntries, Recorded
    <2>2. \A q \in Procs : /\ result'[q] = result[q] /\ call'[q] = call[q]
                           /\ pc[q] = "idle" => pc'[q] = "idle"
      BY <1>1 DEF CheckExisting, GoTo, IInv, TypeOK
    <2> QED BY <2>1, <2>2, AnswerKept DEF ResultInv
  <1>2. CASE /\ found # {}
             /\ Rollback(p, IF \A e \in found : MatchingReplay(e, call[p])
                            THEN "replayed" ELSE "refused")
    <2>1. call[p] \in Calls BY DEF CheckExisting, IInv, CallInv
    <2>2. found \subseteq Entry BY RecordedTyped DEF IInv, ExistingEntries
    <2>3. CASE \A e \in found : MatchingReplay(e, call[p])
      <3>1. Answered(p) BY <1>2, <2>1, <2>2, <2>3, ReplayRecords DEF Answered
      <3> QED BY <1>2, <2>3, <3>1, RollbackKeepsResults DEF Results
    <2>4. CASE ~(\A e \in found : MatchingReplay(e, call[p]))
      BY <1>2, <2>4, RollbackKeepsResults DEF Results
    <2> QED BY <2>3, <2>4
  <1> QED BY <1>1, <1>2 DEF CheckExisting

LEMMA CommitKeepsResults ==
    ASSUME IInv, ResultInv, NEW p \in Procs, Commit(p)
    PROVE  ResultInv'
  <1> DEFINE a == call[p].account
             d == draft[p]
  <1>1. /\ a \in Accounts /\ call[p] \in Calls
        /\ DOMAIN ledger'[a] = DOMAIN ledger[a] \cup {Len(ledger[a]) + 1}
        /\ ledger'[a][Len(ledger[a]) + 1] = d
        /\ \A i \in DOMAIN ledger[a] : ledger'[a][i] = ledger[a][i]
        /\ \A b \in Accounts \ {a} : ledger'[b] = ledger[b]
    BY CommitAppends
  <1>2. \A r : ExistingEntries(r) \subseteq ExistingEntries(r)'
    BY <1>1 DEF ExistingEntries, Recorded
  <1>3. d = EntryOf(call[p]) /\ d.ref = call[p].ref BY DEF IInv, DraftInv, Commit, EntryOf
  <1>4. \A q \in Procs : /\ pc'[q] = IF q = p THEN "idle" ELSE pc[q]
                         /\ q # p => result'[q] = result[q]
                         /\ call'[q] = call[q]
    BY DEF Commit, EndTransaction, IInv, TypeOK
  <1>5. Answered(p)'
    <2>1. PICK e : e = d OBVIOUS
    <2>2. RecordsCall(e, call[p]) BY <2>1, <1>1, <1>3, DraftRecords DEF IInv
    <2>3. RecordsCall(e, call[p])' BY <2>2, <1>4 DEF RecordsCall
    <2>4. e \in ExistingEntries(call[p].ref)'
      BY <2>1, <1>1, <1>3, <1>4 DEF ExistingEntries, Recorded
    <2> QED BY <2>3, <2>4 DEF Answered
  <1> QED BY <1>2, <1>4, <1>5, AnswerKept DEF ResultInv

LEMMA NextKeepsResults == IInv /\ ResultInv /\ [Next]_vars => ResultInv'
  <1> SUFFICES ASSUME IInv, ResultInv, [Next]_vars PROVE ResultInv' OBVIOUS
  <1>0. CASE UNCHANGED vars BY <1>0, AnswerKept DEF vars, ExistingEntries, Recorded, ResultInv
  <1>1. ASSUME NEW p \in Procs,
               \/ \E c \in Calls : Begin(p, c)
               \/ LockUser(p)
               \/ PreLockWallet(p) /\ ~Rollback(p, "refused")
               \/ PreOpenWallet(p)
               \/ LockWallet(p) /\ ~Rollback(p, "refused")
               \/ CreateWallet(p) /\ ~Rollback(p, "refused")
               \/ Apply(p) /\ ~Rollback(p, "refused")
        PROVE  ResultInv'
    <2>1. UNCHANGED committed
      BY <1>1 DEF Begin, LockUser, PreLockWallet, PreOpenWallet, LockWallet, CreateWallet, Apply
    <2>2. \A r : ExistingEntries(r) \subseteq ExistingEntries(r)'
      BY <2>1 DEF committed, ExistingEntries, Recorded
    <2>3. \A q \in Procs : result'[q] \in {"applied", "replayed"} =>
              pc'[q] = pc[q] /\ result'[q] = result[q] /\ call'[q] = call[q]
      <3>1. CASE \E c \in Calls : Begin(p, c) BY <3>1 DEF Begin, GoTo, IInv, TypeOK
      <3>2. CASE ~(\E c \in Calls : Begin(p, c))
        <4>1. pc[p] # "idle" /\ UNCHANGED <<call, result>>
              /\ \E s \in Steps : pc' = [pc EXCEPT ![p] = s]
          BY <1>1, <3>2 DEF LockUser, PreLockWallet, PreOpenWallet, LockWallet, CreateWallet,
                            Apply, GoTo, Steps
        <4> QED BY <4>1 DEF ResultInv, IInv, TypeOK
      <3> QED BY <3>1, <3>2
    <2> QED BY <2>2, <2>3, AnswerKept DEF ResultInv
  <1>2. ASSUME NEW p \in Procs, NEW o \in {"refused", "aborted"}, Rollback(p, o)
        PROVE  ResultInv'
    BY <1>2, RollbackKeepsResults DEF Results
  <1>3. ASSUME NEW p \in Procs, Check1(p) \/ Check2(p) \/ Check3(p) PROVE ResultInv'
    BY <1>2, <1>3, CheckKeepsResults DEF Check1, Check2, Check3, Steps
  <1>4. ASSUME NEW p \in Procs, Commit(p) PROVE ResultInv' BY <1>4, CommitKeepsResults
  <1>5. ASSUME NEW p \in Procs, DeadlockVictim(p) \/ Crash(p) PROVE ResultInv'
    BY <1>2, <1>5 DEF DeadlockVictim, Crash
  <1> QED BY <1>0, <1>1, <1>2, <1>3, <1>4, <1>5 DEF Next, Execute

(* Whoever gets an entry back from _execute, the first time or as a        *)
(* replay, gets the only one with the reference, and it tells the          *)
(* operation he asked for.                                                 *)
THEOREM AnswersAreRecorded == Spec => []SuccessIsRecorded
  <1>1. Init => ResultInv BY DEF Init, ResultInv
  <1>2. IInv /\ ResultInv => SuccessIsRecorded
    <2> SUFFICES ASSUME IInv, ResultInv,
                        NEW p \in Procs, result[p] \in {"applied", "replayed"}
                 PROVE  /\ Cardinality(ExistingEntries(call[p].ref)) = 1
                        /\ \A e \in ExistingEntries(call[p].ref) : RecordsCall(e, call[p])
      BY DEF SuccessIsRecorded
    <2>1. PICK e \in ExistingEntries(call[p].ref) : RecordsCall(e, call[p])
      BY DEF ResultInv, Answered
    <2>2. \A f \in ExistingEntries(call[p].ref) : f = e
      BY DEF IInv, UniqueReference, ExistingEntries, Recorded
    <2>3. ExistingEntries(call[p].ref) = {e} BY <2>2
    <2> QED BY <2>1, <2>3, FS_Singleton
  <1> QED BY <1>1, <1>2, NextKeepsResults, Invariance, PTL DEF Spec

-----------------------------------------------------------------------------
(* Where a transaction may be when it holds a row: the user's from Check2  *)
(* on; the wallet's, for a caller that locked none before, from Check3 on. *)
Holding == {"check2", "lockWallet", "createWallet", "check3", "apply", "commit"}

LockInv ==
    /\ \A p \in Procs : \A u \in Users : userLock[u] = p => pc[p] \in Holding
    /\ \A p \in Procs : \A a \in Accounts : walletLock[a] = p =>
           /\ pc[p] # "idle"
           /\ call[p].style = "direct" => pc[p] \in {"check3", "apply", "commit"}

LEMMA EndKeepsLocks ==
    ASSUME IInv, LockInv, NEW p \in Procs, NEW o \in Results, EndTransaction(p, o)
    PROVE  LockInv'
  BY NullsAssumption DEF IInv, TypeOK, LockInv, EndTransaction

LEMMA NextKeepsLocks == IInv /\ LockInv /\ [Next]_vars => LockInv'
  <1> SUFFICES ASSUME IInv, LockInv, [Next]_vars PROVE LockInv' OBVIOUS
  <1> USE DEF IInv, TypeOK, LockInv
  <1>0. CASE UNCHANGED vars BY <1>0 DEF vars
  <1>1. ASSUME NEW p \in Procs, NEW o \in Results, Rollback(p, o) PROVE LockInv'
    BY <1>1, EndKeepsLocks DEF Rollback
  <1>2. ASSUME NEW p \in Procs, NEW c \in Calls, Begin(p, c) PROVE LockInv'
    BY <1>2 DEF Begin, GoTo, locks, Holding
  <1>3. ASSUME NEW p \in Procs, PreLockWallet(p), ~Rollback(p, "refused") PROVE LockInv'
    <2>1. /\ pc[p] = "preLock" /\ call[p].style = "walletFirst" /\ UNCHANGED <<call, userLock>>
          /\ pc' = [pc EXCEPT ![p] = "check1"]
          /\ walletLock' = [walletLock EXCEPT ![call[p].account] = p]
      BY <1>3 DEF PreLockWallet, GoTo
    <2> QED BY <2>1 DEF Holding
  <1>4. ASSUME NEW p \in Procs, PreOpenWallet(p) PROVE LockInv'
    <2>1. /\ pc[p] = "preLock" /\ call[p].style = "getOrCreate" /\ UNCHANGED <<call, userLock>>
          /\ pc' = [pc EXCEPT ![p] = "check1"]
          /\ walletLock' \in {walletLock, [walletLock EXCEPT ![call[p].account] = p]}
      BY <1>4 DEF PreOpenWallet, GoTo
    <2> QED BY <2>1 DEF Holding
  <1>5. ASSUME NEW p \in Procs, Check1(p) \/ Check2(p) \/ Check3(p),
               ~(\E o \in Results : Rollback(p, o))
        PROVE  LockInv'
    BY <1>5 DEF Check1, Check2, Check3, CheckExisting, GoTo, locks, Holding, Results
  <1>6. ASSUME NEW p \in Procs, LockUser(p) PROVE LockInv' BY <1>6 DEF LockUser, GoTo, Holding
  <1>7. ASSUME NEW p \in Procs, LockWallet(p), ~Rollback(p, "refused") PROVE LockInv'
    <2>1. /\ pc[p] = "lockWallet" /\ UNCHANGED <<call, userLock>>
          /\ \/ /\ pc' = [pc EXCEPT ![p] = "check3"]
                /\ walletLock' = [walletLock EXCEPT ![call[p].account] = p]
             \/ pc' = [pc EXCEPT ![p] = "createWallet"] /\ UNCHANGED walletLock
      BY <1>7 DEF LockWallet, GoTo, locks
    <2>2. CASE pc' = [pc EXCEPT ![p] = "check3"] BY <2>1, <2>2, SMTT(40) DEF Holding
    <2>3. CASE pc' = [pc EXCEPT ![p] = "createWallet"] /\ UNCHANGED walletLock
      BY <2>1, <2>3, SMTT(40) DEF Holding
    <2> QED BY <2>1, <2>2, <2>3
  <1>8. ASSUME NEW p \in Procs, CreateWallet(p), ~Rollback(p, "refused") PROVE LockInv'
    <2>1. /\ pc[p] = "createWallet" /\ UNCHANGED <<call, userLock>>
          /\ pc' = [pc EXCEPT ![p] = "check3"]
          /\ walletLock' = [walletLock EXCEPT ![call[p].account] = p]
      BY <1>8 DEF CreateWallet, GoTo
    <2> QED BY <2>1, SMTT(40) DEF Holding
  <1>9. ASSUME NEW p \in Procs, Apply(p), ~Rollback(p, "refused") PROVE LockInv'
    BY <1>9 DEF Apply, GoTo, locks, Holding
  <1>10. ASSUME NEW p \in Procs, Commit(p) PROVE LockInv'
    BY <1>10, EndKeepsLocks DEF Commit, Results
  <1>11. ASSUME NEW p \in Procs, DeadlockVictim(p) \/ Crash(p) PROVE LockInv'
    BY <1>1, <1>11 DEF DeadlockVictim, Crash, Results
  <1> QED BY <1>0, <1>1, <1>2, <1>3, <1>4, <1>5, <1>6, <1>7, <1>8, <1>9, <1>10, <1>11
          DEF Next, Execute, Results

(* A direct caller that waits for a direct caller is at an earlier         *)
(* statement: rows are taken in the order user, wallet, reference.         *)
LEMMA WaitsForLater ==
    ASSUME IInv, LockInv, NEW p \in Direct, NEW q \in Direct, WaitsFor(p, q)
    PROVE  \/ pc[p] = "lockUser" /\ pc[q] \in Holding
           \/ pc[p] \in {"lockWallet", "createWallet"} /\ pc[q] \in {"check3", "apply", "commit"}
           \/ pc[p] = "apply" /\ pc[q] = "commit"
  <1>1. /\ p \in Procs /\ q \in Procs
        /\ call[p].style = "direct" /\ call[q].style = "direct"
    BY DEF Direct
  <1>2. CASE pc[p] = "lockUser" /\ userLock[OwnerOf(call[p].account)] = q
    <2>1. OwnerOf(call[p].account) \in Users
      BY <1>1, <1>2, CallsAssumption DEF IInv, CallInv, CallType, Accounts, OwnerOf
    <2> QED BY <1>1, <1>2, <2>1 DEF LockInv
  <1>3. CASE pc[p] = "lockWallet" /\ walletLock[call[p].account] = q
    BY <1>1, <1>3, CallsAssumption DEF IInv, CallInv, CallType, LockInv
  <1>4. CASE pc[p] = "createWallet" /\ fresh[q] /\ call[q].account = call[p].account
    BY <1>1, <1>4, CallsAssumption DEF IInv, CallInv, CallType, LockInv, FreshInv
  <1>5. CASE pc[p] = "apply" /\ draft[q] # NoEntry BY <1>1, <1>5 DEF IInv, DraftInv
  <1> QED BY <1>1, <1>2, <1>3, <1>4, <1>5 DEF WaitsFor

(* Callers that enter _execute directly never deadlock among themselves,   *)
(* however many they are.                                                  *)
THEOREM DirectCallersNeverDeadlock == Spec => []NoWaitCycle
  <1>1. Init => LockInv BY NullsAssumption DEF Init, LockInv
  <1>2. IInv /\ LockInv => NoWaitCycle BY WaitsForLater DEF NoWaitCycle, WaitCycle, Holding
  <1> QED BY <1>1, <1>2, NextKeepsLocks, Invariance, PTL DEF Spec

-----------------------------------------------------------------------------
(* Every step other than a commit leaves the committed state alone.        *)
LEMMA OnlyCommitWrites ==
    ASSUME [Next]_vars, ~(\E p \in Procs : Commit(p))
    PROVE  UNCHANGED <<available, reserved, ledger>>
  <1>1. CASE UNCHANGED vars BY <1>1 DEF vars
  <1>2. ASSUME NEW p \in Procs,
               \/ \E c \in Calls : Begin(p, c)
               \/ PreLockWallet(p) \/ PreOpenWallet(p) \/ LockUser(p)
               \/ LockWallet(p) \/ CreateWallet(p) \/ Apply(p)
        PROVE  UNCHANGED <<available, reserved, ledger>>
    BY <1>2 DEF Begin, PreLockWallet, PreOpenWallet, LockUser, LockWallet,
                CreateWallet, Apply, Rollback, committed
  <1>3. ASSUME NEW p \in Procs,
               Check1(p) \/ Check2(p) \/ Check3(p) \/ DeadlockVictim(p) \/ Crash(p)
        PROVE  UNCHANGED <<available, reserved, ledger>>
    BY <1>3 DEF Check1, Check2, Check3, CheckExisting, DeadlockVictim, Crash,
                Rollback, committed
  <1> QED BY <1>1, <1>2, <1>3 DEF Next, Execute

(* A commit is one posting of the abstract ledger.                         *)
LEMMA CommitPosts ==
    ASSUME IInv, NEW p \in Procs, Commit(p)
    PROVE  Abstract!Post(call[p])
  <1> DEFINE c == call[p]
             a == c.account
             d == draft[p]
  <1>1. /\ a \in Accounts /\ c \in Calls /\ d \in Entry
        /\ ledger'[a] = Append(ledger[a], d)
        /\ ledger'[a][Len(ledger[a]) + 1] = d
        /\ \A b \in Accounts \ {a} : ledger'[b] = ledger[b]
    BY CommitAppends
  <1>2. c.amount > 0 /\ d = EntryOf(c) /\ ApplyAllowed(c) BY DEF IInv, CallInv, DraftInv, Commit
  <1>3. c.op \in Operations /\ c.amount \in Nat \ {0}
        /\ available[a] \in Nat /\ reserved[a] \in Nat
    BY <1>1, <1>2, CallsAssumption DEF CallType, IInv, TypeOK
  <1>4. d.availableAfter \in Nat /\ d.reservedAfter \in Nat BY <1>1 DEF Entry
  <1>5. Abstract!Unused(c.ref) BY <1>2 DEF Abstract!Unused, ApplyAllowed, ExistingEntries, Recorded
  <1>6. /\ available' = [available EXCEPT ![a] = d.availableAfter]
        /\ reserved' = [reserved EXCEPT ![a] = d.reservedAfter]
        /\ available'[a] = d.availableAfter /\ reserved'[a] = d.reservedAfter
    BY <1>1 DEF Commit, IInv, TypeOK
  <1>7. /\ d.availableAfter = AvailableAfter(c.op, c.amount, available[a])
        /\ d.reservedAfter = ReservedAfter(c.op, c.amount, reserved[a])
        /\ d.account = a /\ d.ref = c.ref /\ d.amount = c.amount /\ d.context = c.context
        /\ d.availableBefore = available[a] /\ d.reservedBefore = reserved[a]
    BY <1>2 DEF EntryOf
  <1>8. Abstract!Effect(c)
    <2>0. ASSUME NEW x \in Int, NEW y \in Int,
                 d.availableAfter = available[a] + x, d.reservedAfter = reserved[a] + y
          PROVE  Abstract!Move(a, x, y)
      BY <2>0, <1>4, <1>6 DEF Abstract!Move
    <2> USE DEF CREDIT, RESERVE, RELEASE, DEBIT, CONSUME
    <2>1. CASE c.op = CREDIT
      BY <1>3, <1>7, <2>0, <2>1 DEF AvailableAfter, ReservedAfter, Abstract!Effect
    <2>2. CASE c.op = RESERVE
      <3>1. d.availableAfter = available[a] + (-c.amount) /\ d.reservedAfter = reserved[a] + (c.amount)
        BY <2>2, <1>3, <1>7 DEF AvailableAfter, ReservedAfter
      <3>2. Abstract!Move(a, -c.amount, c.amount) BY <3>1, <2>0, <1>3
      <3> QED BY <3>2, <2>2 DEF Abstract!Effect
    <2>3. CASE c.op = RELEASE
      BY <1>3, <1>7, <2>0, <2>3 DEF AvailableAfter, ReservedAfter, Abstract!Effect
    <2>4. CASE c.op = DEBIT
      <3>1. d.availableAfter = available[a] + (-c.amount) /\ d.reservedAfter = reserved[a] + (0)
        BY <2>4, <1>3, <1>7 DEF AvailableAfter, ReservedAfter
      <3>2. Abstract!Move(a, -c.amount, 0) BY <3>1, <2>0, <1>3
      <3> QED BY <3>2, <2>4 DEF Abstract!Effect
    <2>5. CASE c.op = CONSUME
      <3>1. d.availableAfter = available[a] + (0) /\ d.reservedAfter = reserved[a] + (-c.amount)
        BY <2>5, <1>3, <1>7 DEF AvailableAfter, ReservedAfter
      <3>2. Abstract!Move(a, 0, -c.amount) BY <3>1, <2>0, <1>3
      <3> QED BY <3>2, <2>5 DEF Abstract!Effect
    <2>6. c.op \in {CREDIT, RESERVE, RELEASE, DEBIT, CONSUME} BY <1>3 DEF Operations
    <2> QED BY <2>1, <2>2, <2>3, <2>4, <2>5, <2>6
  <1>9. Len(ledger'[a]) = Len(ledger[a]) + 1 BY <1>1 DEF IInv, TypeOK
  <1>10. Abstract!Tells(d, c)
    <2>1. d.type = Abstract!ShownAs(c.op)
      BY <1>2 DEF EntryOf, EntryType, Abstract!ShownAs, CREDIT, RESERVE, RELEASE
    <2> QED BY <1>6, <1>7, <2>1 DEF Abstract!Tells
  <1> QED BY <1>1, <1>2, <1>5, <1>8, <1>9, <1>10 DEF Abstract!Post

(* The interleaved statements of all transactions implement the abstract   *)
(* ledger: atomic postings, at most once per reference.                    *)
THEOREM Refinement == Spec => ImplementsAbstractLedger
  <1>1. Init => Abstract!Init BY DEF Init, Abstract!Init
  <1>2. IInv /\ [Next]_vars => [Abstract!Next]_Abstract!avars
    <2> SUFFICES ASSUME IInv, [Next]_vars PROVE [Abstract!Next]_Abstract!avars OBVIOUS
    <2>1. CASE \E p \in Procs : Commit(p) BY <2>1, CommitPosts, CommitAppends DEF Abstract!Next
    <2>2. CASE ~(\E p \in Procs : Commit(p)) BY <2>2, OnlyCommitWrites DEF Abstract!avars
    <2> QED BY <2>1, <2>2
  <1> QED BY <1>1, <1>2, Invariance, PTL DEF Spec, Abstract!Spec, ImplementsAbstractLedger
=============================================================================
