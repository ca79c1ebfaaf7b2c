---------------------------- MODULE MarketCatalogue ----------------------------
(***************************************************************************)
(* A market from its draft to its opening: edits by the staff, review,     *)
(* opening prices and liquidity, and the group of markets of its event.    *)
(*                                                                         *)
(* The lifecycle, the prices, the liquidity and the group lock the market  *)
(* and write what they change.  An edit reads the whole row without a      *)
(* lock, checks it, and later writes all of its columns.                   *)
(***************************************************************************)
EXTENDS Integers, Sequences, FiniteSets

CONSTANTS Editors, Events, Groups, Prices, Amounts, MaxEdits, MaxTurns, None

Statuses == {"DRAFT", "PENDING_APPROVAL", "APPROVED", "REJECTED", "OPEN"}
GroupStatuses == {"DRAFT", "PUBLISHED", "ARCHIVED"}
Market == [status : Statuses, content : 0..MaxEdits, event : Events,
           group : Groups \cup {None}, approved : (0..MaxEdits) \cup {None}]

VARIABLES
    market,  \* the row of the market; "approved" is the text that was approved
    groups,  \* event and status of each group, the event None if it is general
    price,   \* opening price of YES, in the row of the outcome
    amount,  \* configured liquidity
    issued,  \* liquidity issued at an opening: price and amount
    editing, \* what an edit has read and wants to write, or None
    stale,   \* history: an edit has written over a later change
    edits, turns \* bounds on the edits and on the other changes

vars == <<market, groups, price, amount, issued, editing, stale, edits, turns>>
Turn == turns < MaxTurns /\ turns' = turns + 1

TypeOK ==
    /\ market \in Market /\ price \in Prices /\ amount \in Amounts
    /\ groups \in [Groups -> [event : Events \cup {None}, status : GroupStatuses]]
    /\ \A i \in DOMAIN issued : issued[i] \in Prices \X Amounts
    /\ \A e \in Editors : editing[e] = None \/ editing[e].was \in Market
    /\ stale \in BOOLEAN /\ edits \in 0..MaxEdits /\ turns \in 0..MaxTurns

Init ==
    /\ \E v \in Events : market = [status |-> "DRAFT", content |-> 0, event |-> v,
                                   group |-> None, approved |-> None]
    /\ groups = [g \in Groups |-> [event |-> None, status |-> "DRAFT"]]
    /\ price \in Prices /\ amount \in Amounts /\ issued = <<>>
    /\ editing = [e \in Editors |-> None] /\ stale = FALSE /\ edits = 0 /\ turns = 0

-----------------------------------------------------------------------------
EditableInReview(s) == s \in {"DRAFT", "REJECTED", "PENDING_APPROVAL"}
Editable(s) == s \in {"DRAFT", "REJECTED"}

GroupEvent(m) == IF m.group = None THEN None ELSE groups[m.group].event

(* Market.clean: the market and its group are about one event.             *)
Fits(event, groupEvent) == groupEvent # None => groupEvent = event

(* PATCH: the row and its group are read, and the status is checked.       *)
ReadForEdit(e, event) ==
    /\ editing[e] = None /\ edits < MaxEdits /\ edits' = edits + 1
    /\ Editable(market.status)
    /\ editing' = [editing EXCEPT ![e] =
           [was |-> market, groupEvent |-> GroupEvent(market), event |-> event,
            content |-> edits + 1]]
    /\ UNCHANGED <<market, groups, price, amount, issued, stale, turns>>

(* What was read is checked with the new values, and written as a whole;   *)
(* the liquidity follows in the same transaction.                          *)
SaveEdit(e) ==
    /\ editing[e] # None
    /\ LET x == editing[e] IN
       IF Fits(x.event, x.groupEvent)
       THEN /\ market' = [x.was EXCEPT !.content = x.content, !.event = x.event]
            /\ stale' = (stale \/ x.was # market \/ x.groupEvent # GroupEvent(market))
            /\ amount' \in Amounts
       ELSE UNCHANGED <<market, stale, amount>>
    /\ editing' = [editing EXCEPT ![e] = None]
    /\ UNCHANGED <<groups, price, issued, edits, turns>>

-----------------------------------------------------------------------------
(* The lifecycle, each transition checking the row again.                  *)
Moves(from, to, approved) ==
    /\ Turn /\ market.status \in from /\ Fits(market.event, GroupEvent(market))
    /\ market' = [market EXCEPT !.status = to, !.approved = approved]
    /\ UNCHANGED <<groups, price, amount, editing, stale, edits>>

Submit == Moves({"DRAFT", "REJECTED"}, "PENDING_APPROVAL", None) /\ UNCHANGED issued
Approve == Moves({"PENDING_APPROVAL"}, "APPROVED", market.content) /\ UNCHANGED issued
Reject == Moves({"PENDING_APPROVAL"}, "REJECTED", None) /\ UNCHANGED issued
RevertToDraft == Moves({"APPROVED"}, "DRAFT", None) /\ UNCHANGED issued

(* activate_opening_liquidity finds an issuance by its reference, which is *)
(* made of the market's id.                                                *)
NeverIssued == FALSE
Issued == issued # <<>>

Open ==
    /\ Moves({"APPROVED"}, "OPEN", market.approved)
    /\ issued' = IF amount = 0 \/ Issued THEN issued
                 ELSE Append(issued, <<price, amount>>)

ConfigurePrice(p) ==
    /\ Turn /\ p # price /\ market.status \in {"DRAFT", "PENDING_APPROVAL", "APPROVED"}
    /\ price' = p /\ UNCHANGED <<market, groups, amount, issued, editing, stale, edits>>

-----------------------------------------------------------------------------
AttachedUnseen(g) == FALSE
Attached(g) == market.group = g

(* update: the group and its markets are locked; one event has one group.  *)
UpdateGroup(g, event) ==
    /\ Turn /\ event # groups[g].event /\ groups[g].status = "DRAFT"
    /\ Attached(g) => event = market.event
    /\ event # None => \A h \in Groups \ {g} : groups[h].event # event
    /\ groups' = [groups EXCEPT ![g].event = event]
    /\ UNCHANGED <<market, price, amount, issued, editing, stale, edits>>

MoveGroup(g, from, to) ==
    /\ Turn /\ groups[g].status = from /\ groups' = [groups EXCEPT ![g].status = to]
    /\ UNCHANGED <<market, price, amount, issued, editing, stale, edits>>
Publish(g) == MoveGroup(g, "DRAFT", "PUBLISHED")
Archive(g) == MoveGroup(g, "PUBLISHED", "ARCHIVED")

SetGroup(g) ==
    /\ market' = [market EXCEPT !.group = g]
    /\ UNCHANGED <<groups, price, amount, issued, editing, stale, edits>>
AttachMarket(g) ==
    /\ Turn /\ groups[g].status # "ARCHIVED" /\ market.group = None
    /\ groups[g].event = market.event /\ SetGroup(g)
DetachMarket(g) == Turn /\ market.group = g /\ SetGroup(None)

Next ==
    \/ \E e \in Editors : SaveEdit(e) \/ \E v \in Events : ReadForEdit(e, v)
    \/ Submit \/ Approve \/ Reject \/ RevertToDraft \/ Open
    \/ \E p \in Prices : ConfigurePrice(p)
    \/ \E g \in Groups :
        Publish(g) \/ Archive(g) \/ AttachMarket(g) \/ DetachMarket(g)
        \/ \E v \in Events \cup {None} : UpdateGroup(g, v)

Spec == Init /\ [][Next]_vars

-----------------------------------------------------------------------------
(* A market that is approved or open says what was approved, and a market  *)
(* in a group is about the event of the group, whatever the staff edits    *)
(* and whatever it does with the group meanwhile; unless an edit wrote     *)
(* over a change it had not seen.                                          *)
ReviewedAsApproved ==
    /\ ~stale => /\ market.status \in {"APPROVED", "OPEN"} => market.approved = market.content
                 /\ Fits(market.event, GroupEvent(market))
    /\ Len(issued) <= 1

(* "Only draft or rejected markets can be edited."                         *)
OnlyDraftsAreEdited == [][market.status \notin {"DRAFT", "REJECTED"} =>
    market'.content = market.content]_vars

(* "Opening pricing is immutable once trading opens."                      *)
OpeningPriceKept == \A i \in DOMAIN issued : issued[i][1] = price
================================================================================
