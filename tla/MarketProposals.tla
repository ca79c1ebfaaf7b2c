---------------------------- MODULE MarketProposals ----------------------------
(***************************************************************************)
(* Markets that participants propose.  A proposal has the key of its       *)
(* question, category and event; those with the key of another one are     *)
(* flagged when they are saved.  The staff reviews a proposal, marks it as *)
(* a duplicate, or approves it, which creates a market.                    *)
(*                                                                         *)
(* An approval locks the proposal and then the event, and looks for a live *)
(* market with the key under that lock.  A proposal that is saved sees the *)
(* others that are committed, not those of requests under way.             *)
(***************************************************************************)
EXTENDS Integers, FiniteSets, Sequences

CONSTANTS
    Questions, Events,  \* a key is a question about an event
    Requests,           \* concurrent requests
    MaxProposals, MaxMarkets,
    MaxEdits,           \* bound on edits
    None

Keys == Questions \X Events
EventOf(k) == k[2]
BlockingSubmitted == {"SUBMITTED"}
Blocking == {"SUBMITTED", "UNDER_REVIEW", "APPROVED"}
Statuses == {"SUBMITTED", "UNDER_REVIEW", "APPROVED", "REJECTED", "DUPLICATE", "WITHDRAWN"}
Flags == {"CLEAR", "POSSIBLE_DUPLICATE", "CONFIRMED_DUPLICATE"}

(* "alone": no other proposal was saved between the look at the others and *)
(* the commit.  Every proposal names its event; one that names only a      *)
(* group of the event can be saved, and its approval fails.                *)
Proposals == [key : Keys, status : Statuses, flag : Flags,
              of : {None} \cup (1..MaxProposals), market : {None} \cup (1..MaxMarkets),
              alone : BOOLEAN]
Markets == [key : Keys, state : {"live", "rejected", "void"}, revived : BOOLEAN,
            proposal : {None} \cup (1..MaxProposals)]

VARIABLES
    proposals, \* MarketProposal rows
    markets,   \* Market rows; one that is rejected or void is not live
    reviewing, \* proposal |-> the request that locked it
    holding,   \* event |-> the request that locked it
    calls,     \* what each request is doing
    edits      \* edits of proposals, markets created directly or submitted again

vars == <<proposals, markets, reviewing, holding, calls, edits>>
Ids == DOMAIN proposals
Idle == [op |-> None, p |-> None, seen |-> None, late |-> FALSE]

TypeOK ==
    /\ \A p \in Ids : proposals[p] \in Proposals
    /\ \A m \in DOMAIN markets : markets[m] \in Markets
    /\ reviewing \in [1..MaxProposals -> Requests \cup {None}]
    /\ holding \in [Events -> Requests \cup {None}]
    /\ \A r \in Requests : calls[r].op \in {None, "save", "approve", "create"}
    /\ edits \in 0..MaxEdits

Init ==
    /\ proposals = <<>> /\ markets = <<>> /\ edits = 0
    /\ reviewing = [p \in 1..MaxProposals |-> None]
    /\ holding = [e \in Events |-> None] /\ calls = [r \in Requests |-> Idle]

-----------------------------------------------------------------------------
(* duplicate_candidates: proposals that stand, and markets.                *)
SameKey(k, except) ==
    {q \in Ids \ {except} : proposals[q].key = k /\ proposals[q].status \in Blocking}
LiveMarkets(k) == {m \in DOMAIN markets : markets[m].key = k /\ markets[m].state = "live"}

(* _refresh_duplicate_state.                                               *)
FlagFor(k, except) ==
    IF SameKey(k, except) \cup LiveMarkets(k) # {} THEN "POSSIBLE_DUPLICATE" ELSE "CLEAR"

New(k) == [key |-> k, status |-> "SUBMITTED", flag |-> "CLEAR",
                of |-> None, market |-> None, alone |-> TRUE]

Started == Cardinality({r \in Requests : calls[r].op = "save" /\ calls[r].p = None})

(* submit: the flag of the new proposal is found before the commit.        *)
Submit(r, k) ==
    /\ calls[r].op = None /\ Len(proposals) + Started < MaxProposals
    /\ calls' = [calls EXCEPT ![r] = [op |-> "save", p |-> None, late |-> FALSE,
           seen |-> [New(k) EXCEPT !.flag = FlagFor(k, None)]]]
    /\ UNCHANGED <<proposals, markets, reviewing, holding, edits>>

(* update: the proposer changes a proposal nobody has looked at.           *)
Update(r, p, k) ==
    /\ calls[r].op = None /\ edits < MaxEdits /\ edits' = edits + 1
    /\ p \in Ids /\ reviewing[p] = None
    /\ proposals[p].status = "SUBMITTED" /\ k # proposals[p].key
    /\ reviewing' = [reviewing EXCEPT ![p] = r]
    /\ calls' = [calls EXCEPT ![r] = [op |-> "save", p |-> p, late |-> FALSE,
           seen |-> [proposals[p] EXCEPT !.key = k, !.flag = FlagFor(k, p), !.of = None]]]
    /\ UNCHANGED <<proposals, markets, holding>>

Free(r) == [p \in 1..MaxProposals |-> IF reviewing[p] = r THEN None ELSE reviewing[p]]

Save(r) ==
    /\ calls[r].op = "save"
    /\ LET row == [calls[r].seen EXCEPT !.alone = ~calls[r].late] IN
       proposals' = IF calls[r].p = None THEN Append(proposals, row)
                    ELSE [proposals EXCEPT ![calls[r].p] = row]
    /\ reviewing' = Free(r)
    /\ calls' = [c \in Requests |-> IF c = r THEN Idle ELSE [calls[c] EXCEPT !.late = TRUE]]
    /\ UNCHANGED <<markets, holding, edits>>

Become(p, status) == proposals' = [proposals EXCEPT ![p].status = status]

Withdraw(p) ==
    /\ p \in Ids /\ reviewing[p] = None /\ proposals[p].status = "SUBMITTED"
    /\ Become(p, "WITHDRAWN") /\ UNCHANGED <<markets, reviewing, holding, calls, edits>>

-----------------------------------------------------------------------------
(* review, under the lock of the proposal.                                 *)
Reviewable(p) ==
    /\ p \in Ids /\ reviewing[p] = None
    /\ proposals[p].status \in {"SUBMITTED", "UNDER_REVIEW"}

StartReview(p) ==
    /\ Reviewable(p) /\ Become(p, "UNDER_REVIEW")
    /\ UNCHANGED <<markets, reviewing, holding, calls, edits>>

Reject(p) ==
    /\ Reviewable(p) /\ Become(p, "REJECTED")
    /\ UNCHANGED <<markets, reviewing, holding, calls, edits>>

(* _validate_duplicate_target for another proposal, or for a market.       *)
Target(p, q) ==
    /\ q \in Ids \ {p} /\ proposals[q].status \notin {"WITHDRAWN", "REJECTED"}
    /\ proposals[q].key = proposals[p].key
TargetMarket(p, m) == m \in DOMAIN markets /\ markets[m].key = proposals[p].key

MarkDuplicate(p, q) ==
    /\ Reviewable(p)
    /\ \/ Target(p, q)
       \/ q = None /\ \E m \in DOMAIN markets : TargetMarket(p, m)
    /\ proposals' = [proposals EXCEPT ![p].status = "DUPLICATE", ![p].of = q,
                                      ![p].flag = "CONFIRMED_DUPLICATE"]
    /\ UNCHANGED <<markets, reviewing, holding, calls, edits>>

(* Approve.                                                                *)
Approve(r, p) ==
    /\ calls[r].op = None /\ Reviewable(p)
    /\ proposals[p].flag # "CONFIRMED_DUPLICATE"
    /\ reviewing' = [reviewing EXCEPT ![p] = r]
    /\ calls' = [calls EXCEPT ![r] = [Idle EXCEPT !.op = "approve", !.p = p]]
    /\ UNCHANGED <<proposals, markets, holding, edits>>

EventFreeAlways(e) == TRUE
EventFree(e) == holding[e] = None

(* _canonical_group locks the event; then the markets are looked at.       *)
LockAndCheck(r) ==
    /\ calls[r].op = "approve"
    /\ LET k == proposals[calls[r].p].key IN
       /\ EventFree(EventOf(k))
       /\ IF LiveMarkets(k) = {}
          THEN /\ holding' = [holding EXCEPT ![EventOf(k)] = r]
               /\ calls' = [calls EXCEPT ![r].op = "create"] /\ UNCHANGED reviewing
          ELSE /\ calls' = [calls EXCEPT ![r] = Idle] /\ reviewing' = Free(r)
               /\ UNCHANGED holding
    /\ UNCHANGED <<proposals, markets, edits>>

NewMarket(k, p) == [key |-> k, state |-> "live", revived |-> FALSE, proposal |-> p]

(* The market is created, and the transaction committed.                   *)
Create(r) ==
    /\ calls[r].op = "create" /\ Len(markets) < MaxMarkets
    /\ LET p == calls[r].p IN
       /\ markets' = Append(markets, NewMarket(proposals[p].key, p))
       /\ proposals' = [proposals EXCEPT ![p].status = "APPROVED",
                                         ![p].market = Len(markets) + 1]
    /\ holding' = [e \in Events |-> IF holding[e] = r THEN None ELSE holding[e]]
    /\ reviewing' = Free(r) /\ calls' = [calls EXCEPT ![r] = Idle] /\ UNCHANGED edits

-----------------------------------------------------------------------------
(* The staff creates a market without a proposal, and rejects or voids     *)
(* markets; one that is rejected may be submitted again.                   *)
CreateDirectly(k) ==
    /\ edits < MaxEdits /\ edits' = edits + 1
    /\ Len(markets) < MaxMarkets /\ markets' = Append(markets, NewMarket(k, None))
    /\ UNCHANGED <<proposals, reviewing, holding, calls>>
Retire(m, state) ==
    /\ m \in DOMAIN markets /\ markets[m].state = "live"
    /\ markets' = [markets EXCEPT ![m].state = state]
    /\ UNCHANGED <<proposals, reviewing, holding, calls, edits>>
Resubmit(m) ==
    /\ edits < MaxEdits /\ edits' = edits + 1
    /\ m \in DOMAIN markets /\ markets[m].state = "rejected"
    /\ markets' = [markets EXCEPT ![m].state = "live", ![m].revived = TRUE]
    /\ UNCHANGED <<proposals, reviewing, holding, calls>>

Next ==
    \/ \E r \in Requests, k \in Keys : Submit(r, k)
    \/ \E r \in Requests, p \in 1..MaxProposals, k \in Keys : Update(r, p, k)
    \/ \E r \in Requests : Save(r) \/ LockAndCheck(r) \/ Create(r)
    \/ \E r \in Requests, p \in 1..MaxProposals : Approve(r, p)
    \/ \E p \in 1..MaxProposals : Withdraw(p) \/ StartReview(p) \/ Reject(p)
    \/ \E p \in 1..MaxProposals, q \in {None} \cup (1..MaxProposals) : MarkDuplicate(p, q)
    \/ \E k \in Keys : CreateDirectly(k)
    \/ \E m \in 1..MaxMarkets : Retire(m, "rejected") \/ Retire(m, "void") \/ Resubmit(m)

Spec == Init /\ [][Next]_vars

-----------------------------------------------------------------------------
Conflicting(m, n) == /\ m # n /\ markets[m].key = markets[n].key
                     /\ markets[m].state = "live" /\ markets[n].state = "live"

(* Two proposals with one key never have live markets at the same time,    *)
(* although they are approved by two people at once; a market that was     *)
(* rejected and submitted again is not looked at.                          *)
OneMarketPerKey ==
    \A m, n \in DOMAIN markets : Conflicting(m, n) =>
        {markets[m].proposal, markets[n].proposal} \cap {None} # {}
        \/ markets[m].revived \/ markets[n].revived

(* The same for every market, also one that was submitted again.           *)
KeysAreUnique == \A m, n \in DOMAIN markets : Conflicting(m, n) =>
                    {markets[m].proposal, markets[n].proposal} \cap {None} # {}

(* Of two proposals with one key that stand, one is flagged, unless they   *)
(* were saved at the same time.                                            *)
TwinsAreFlagged ==
    \A p, q \in Ids :
        /\ p # q /\ proposals[p].key = proposals[q].key
        /\ {proposals[p].status, proposals[q].status}
               \cap {"REJECTED", "DUPLICATE", "WITHDRAWN"} = {}
        /\ proposals[p].alone /\ proposals[q].alone
        => "POSSIBLE_DUPLICATE" \in {proposals[p].flag, proposals[q].flag}

(* A duplicate leads to a proposal that is none, or to a market.           *)
DuplicatesHaveOriginal ==
    \A p \in Ids : proposals[p].of # None =>
        proposals[proposals[p].of].of # p
================================================================================
