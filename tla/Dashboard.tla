------------------------------ MODULE Dashboard ------------------------------
(***************************************************************************)
(* The cached dashboard of one user and the requests that change what it   *)
(* shows: the favourites chosen in the setup, the clubs followed and the   *)
(* profile.                                                                *)
(*                                                                         *)
(* A change makes the cached dashboard go.  The signal of a deletion, and  *)
(* the calls inside a transaction, come before the change is committed; a  *)
(* bulk creation sends no signal.  A view that misses the cache reads the  *)
(* modules one after another and then stores what it built, however old    *)
(* that is.  An entry expires.                                             *)
(***************************************************************************)
EXTENDS Naturals, FiniteSets

CONSTANTS
    Clubs,           \* what can be a favourite
    Names,           \* display names of the profile
    Requests,        \* concurrent requests of the user
    MaxChanges,      \* bound on the changes made
    MaxViews,        \* bound on the views made
    None

VARIABLES
    favourites,  \* committed preference rows
    name,        \* committed display name
    cache,       \* the entry of the user's dashboard, or None
    calls,       \* what each request is doing
    changes, views

vars == <<favourites, name, cache, calls, changes, views>>

Dashboards == [favourites : SUBSET Clubs, name : Names]
Current == [favourites |-> favourites, name |-> name]
Idle == [op |-> None, favourites |-> {}, name |-> None]

TypeOK ==
    /\ favourites \subseteq Clubs /\ name \in Names
    /\ cache \in Dashboards \cup {None}
    /\ \A r \in Requests : calls[r].favourites \subseteq Clubs
    /\ changes \in 0..MaxChanges /\ views \in 0..MaxViews

Init ==
    /\ favourites = {} /\ name \in Names /\ cache = None
    /\ calls = [r \in Requests |-> Idle] /\ changes = 0 /\ views = 0

Running(r, op) == calls[r].op = op
End(r) == calls' = [calls EXCEPT ![r] = Idle]
Change == changes < MaxChanges /\ changes' = changes + 1 /\ UNCHANGED views

invalidate_all == cache' = None

-----------------------------------------------------------------------------
(* A step of the setup: the deletion invalidates the cache if a row goes,  *)
(* before its own commit; the creation does not.  The progress row that is *)
(* saved last sends a signal, unless the step was not the current one.     *)
Select(r, clubs) ==
    /\ Running(r, None) /\ Change
    /\ calls' = [calls EXCEPT ![r] = [op |-> "delete", favourites |-> clubs,
                                      name |-> None]]
    /\ IF favourites # {} THEN invalidate_all ELSE UNCHANGED cache
    /\ UNCHANGED <<favourites, name>>

DeleteOld(r) ==
    /\ Running(r, "delete") /\ favourites' = {}
    /\ calls' = [calls EXCEPT ![r].op = "create"]
    /\ UNCHANGED <<name, cache, changes, views>>

CreateNew(r) ==
    /\ Running(r, "create")
    /\ IF favourites \cap calls[r].favourites # {}
       THEN End(r) /\ UNCHANGED favourites
       ELSE /\ calls' = [calls EXCEPT ![r].op = "advance"]
            /\ favourites' = favourites \cup calls[r].favourites
    /\ UNCHANGED <<name, cache, changes, views>>

Advance(r, isCurrent) ==
    /\ Running(r, "advance") /\ End(r)
    /\ IF isCurrent THEN invalidate_all ELSE UNCHANGED cache
    /\ UNCHANGED <<favourites, name, changes, views>>

(* follow_club, unfollow_club and update_profile: the cache goes inside    *)
(* the transaction, and the commit comes after it.                         *)
Follow(r, c) ==
    /\ Running(r, None) /\ Change /\ invalidate_all
    /\ calls' = [calls EXCEPT ![r] = [op |-> "follow", favourites |-> {c},
                                      name |-> None]]
    /\ UNCHANGED <<favourites, name>>

Unfollow(r, c) ==
    /\ Running(r, None) /\ Change /\ invalidate_all
    /\ calls' = [calls EXCEPT ![r] = [op |-> "unfollow", favourites |-> {c},
                                      name |-> None]]
    /\ UNCHANGED <<favourites, name>>

UpdateProfile(r, n, clubs) ==
    /\ Running(r, None) /\ Change /\ invalidate_all
    /\ calls' = [calls EXCEPT ![r] = [op |-> "profile", favourites |-> clubs,
                                      name |-> n]]
    /\ UNCHANGED <<favourites, name>>

Commit(r) ==
    LET given == calls[r].favourites IN
    /\ calls[r].op \in {"follow", "unfollow", "profile"} /\ End(r)
    /\ favourites' = CASE Running(r, "follow") -> favourites \cup given
                       [] Running(r, "unfollow") -> favourites \ given
                       [] OTHER -> IF given = {} THEN favourites ELSE given
    /\ name' = IF Running(r, "profile") THEN calls[r].name ELSE name
    /\ UNCHANGED <<cache, changes, views>>

-----------------------------------------------------------------------------
(* get_dashboard: a hit ends the view, a miss builds the dashboard: first  *)
(* the modules, the summary of the user at the end, then the entry.        *)
View(r) ==
    /\ Running(r, None) /\ views < MaxViews /\ views' = views + 1
    /\ calls' = IF cache # None THEN calls
                ELSE [calls EXCEPT ![r] = [op |-> "summary", name |-> None,
                                           favourites |-> favourites]]
    /\ UNCHANGED <<favourites, name, cache, changes>>

ReadSummary(r) ==
    /\ Running(r, "summary")
    /\ calls' = [calls EXCEPT ![r].op = "store", ![r].name = name]
    /\ UNCHANGED <<favourites, name, cache, changes, views>>

Store(r) ==
    /\ Running(r, "store") /\ End(r)
    /\ cache' = [favourites |-> calls[r].favourites, name |-> calls[r].name]
    /\ UNCHANGED <<favourites, name, changes, views>>

(* The time to live, at most five minutes, of an entry.                    *)
NeverExpires == FALSE
Expires == cache # None

Expire ==
    /\ Expires /\ cache' = None
    /\ UNCHANGED <<favourites, name, calls, changes, views>>

-----------------------------------------------------------------------------
Changing == \E r \in Requests :
    \/ \E clubs \in SUBSET Clubs : Select(r, clubs)
    \/ \E c \in Clubs : Follow(r, c) \/ Unfollow(r, c)
    \/ \E n \in Names, clubs \in SUBSET Clubs : UpdateProfile(r, n, clubs)
Work == \E r \in Requests :
    \/ DeleteOld(r) \/ CreateNew(r) \/ \E b \in BOOLEAN : Advance(r, b)
    \/ Commit(r) \/ ReadSummary(r) \/ Store(r)
Viewing == \E r \in Requests : View(r)

Next == Changing \/ Work \/ Viewing \/ Expire

(* Requests that began end, and entries expire.                            *)
Fairness == WF_vars(Work) /\ WF_vars(Expire)

Spec == Init /\ [][Next]_vars /\ Fairness

-----------------------------------------------------------------------------
(* A stale dashboard does not stay: each change is seen in the end, by the *)
(* expiry of an entry that no invalidation reached.                        *)
Caught(d) == Current # d \/ cache \in {d, None}
DashboardCatchesUp == \A d \in Dashboards : (Current = d) ~> Caught(d)

(* The cache is invalidated "when user preferences, profile, or            *)
(* notifications change": with no request under way it shows what is       *)
(* stored.                                                                 *)
CacheIsCurrent ==
    (\A r \in Requests : calls[r] = Idle) => cache \in {Current, None}
=============================================================================
