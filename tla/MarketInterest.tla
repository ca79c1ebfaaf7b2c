--------------------------- MODULE MarketInterest --------------------------
(***************************************************************************)
(* The markets one participant follows and has looked at. A follow or a    *)
(* view locks the row of the user, reads the market and the row it         *)
(* concerns, and writes; the removals take no lock. The answer reads the   *)
(* market again when the transaction has committed.                        *)
(***************************************************************************)
EXTENDS Integers, FiniteSets

CONSTANTS
    Markets,
    Requests,     \* concurrent requests of the participant
    MaxViews,     \* bound on the count of a recent view
    MaxTurns,     \* bound on the changes of visibility of the markets
    None

Kinds == {"follow", "view"}
Rows == [Markets -> (1..MaxViews) \cup {None}]

VARIABLES
    visible,      \* markets a participant can see
    watchlist,    \* MarketWatchlistEntry
    recent,       \* view_count of MarketRecentView, None where there is none
    calls,        \* [pc, kind, market, seen] of each request
    turns,
    viewed        \* views recorded since each recent view was created

vars == <<visible, watchlist, recent, calls, turns, viewed>>

Idle == [pc |-> "idle", kind |-> None, market |-> None, seen |-> None]

Init ==
    /\ visible \in SUBSET Markets
    /\ watchlist = {}
    /\ recent = [m \in Markets |-> None]
    /\ calls = [r \in Requests |-> Idle]
    /\ turns = 0
    /\ viewed = [m \in Markets |-> 0]

(* select_for_update of the row of the user, held to the end of the        *)
(* transaction.                                                            *)
UserNeverLocked == TRUE
UserFree == \A r \in Requests : calls[r].pc \notin {"locked", "read"}
-----------------------------------------------------------------------------
Lock(r, kind, m) ==
    /\ calls[r].pc = "idle"
    /\ UserFree
    /\ calls' = [calls EXCEPT ![r] =
           [pc |-> "locked", kind |-> kind, market |-> m, seen |-> None]]
    /\ UNCHANGED <<visible, watchlist, recent, turns, viewed>>

(* The market is looked up among the visible ones, then get_or_create      *)
(* reads the row.                                                          *)
Seen(kind, m) ==
    IF kind = "view" THEN recent[m] ELSE IF m \in watchlist THEN 1 ELSE None
Read(r) ==
    /\ calls[r].pc = "locked"
    /\ calls' = [calls EXCEPT ![r] =
           IF calls[r].market \in visible
           THEN [@ EXCEPT !.pc = "read",
                          !.seen = Seen(calls[r].kind, calls[r].market)]
           ELSE [@ EXCEPT !.pc = "missing"]]
    /\ UNCHANGED <<visible, watchlist, recent, turns, viewed>>

Follow(r) ==
    /\ calls[r].pc = "read"
    /\ calls[r].kind = "follow"
    /\ watchlist' = IF calls[r].seen = None THEN watchlist \cup {calls[r].market}
                    ELSE watchlist
    /\ calls' = [calls EXCEPT ![r].pc = "committed"]
    /\ UNCHANGED <<visible, recent, turns, viewed>>

(* The update of a row that was removed meanwhile fails: save names the    *)
(* columns, and no row is matched.                                         *)
RecordView(r) ==
    LET m == calls[r].market
        created == calls[r].seen = None
        count == IF created THEN 1 ELSE calls[r].seen + 1
    IN  /\ calls[r].pc = "read"
        /\ calls[r].kind = "view"
        /\ count <= MaxViews
        /\ IF created \/ recent[m] # None
           THEN /\ recent' = [recent EXCEPT ![m] = count]
                /\ viewed' = [viewed EXCEPT ![m] = IF created THEN 1 ELSE @ + 1]
                /\ calls' = [calls EXCEPT ![r].pc = "committed"]
           ELSE /\ calls' = [calls EXCEPT ![r].pc = "error"]
                /\ UNCHANGED <<recent, viewed>>
        /\ UNCHANGED <<visible, watchlist, turns>>

(* A market that is no longer visible fails the answer, not the follow.    *)
Answer(r) ==
    /\ calls[r].pc = "committed"
    /\ calls' = [calls EXCEPT ![r].pc =
           IF calls[r].market \in visible THEN "answered" ELSE "error"]
    /\ UNCHANGED <<visible, watchlist, recent, turns, viewed>>

Done(r) ==
    /\ calls[r].pc \in {"answered", "missing", "error"}
    /\ calls' = [calls EXCEPT ![r] = Idle]
    /\ UNCHANGED <<visible, watchlist, recent, turns, viewed>>

Unfollow(m) ==
    /\ m \in watchlist
    /\ watchlist' = watchlist \ {m}
    /\ UNCHANGED <<visible, recent, calls, turns, viewed>>

Forget(markets) ==
    /\ recent' = [m \in Markets |-> IF m \in markets THEN None ELSE recent[m]]
    /\ recent' # recent
    /\ UNCHANGED <<visible, watchlist, calls, turns, viewed>>
Remove(m) == Forget({m})
Clear == Forget(Markets)

(* The status of the market, or of the event group it belongs to, changes. *)
Turn(m) ==
    /\ turns < MaxTurns
    /\ turns' = turns + 1
    /\ visible' = IF m \in visible THEN visible \ {m} ELSE visible \cup {m}
    /\ UNCHANGED <<watchlist, recent, calls, viewed>>

Next ==
    \/ \E r \in Requests, kind \in Kinds, m \in Markets : Lock(r, kind, m)
    \/ \E r \in Requests : Read(r) \/ Follow(r) \/ RecordView(r)
    \/ \E r \in Requests : Answer(r) \/ Done(r)
    \/ \E m \in Markets : Unfollow(m) \/ Remove(m) \/ Turn(m)
    \/ Clear

Spec == Init /\ [][Next]_vars
-----------------------------------------------------------------------------
(* Variables hold values of their types.                                   *)
TypeOK ==
    /\ visible \subseteq Markets
    /\ watchlist \subseteq Markets
    /\ recent \in Rows
    /\ \A r \in Requests :
           /\ calls[r].pc \in {"idle", "locked", "read", "missing",
                               "committed", "answered", "error"}
           /\ calls[r].kind \in Kinds \cup {None}
           /\ calls[r].market \in Markets \cup {None}
    /\ turns \in 0..MaxTurns
    /\ viewed \in [Markets -> 0..MaxViews]

(* A recent view counts every view that was recorded since it was created: *)
(* no concurrent view of the participant is lost, although the count is    *)
(* read and written back, and rows are removed without the lock.           *)
ViewsAreCounted ==
    \A m \in Markets : recent[m] # None => recent[m] = viewed[m]

(* A request that failed has changed nothing. Answer refutes it for a      *)
(* market that is hidden when the follow has committed.                    *)
ErrorsChangeNothing ==
    [][\A r \in Requests :
          (calls[r].pc = "committed" => calls'[r].pc # "error")]_vars
=============================================================================
