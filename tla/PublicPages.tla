---------------------------- MODULE PublicPages ----------------------------
(***************************************************************************)
(* The cached answer of the public catalogue: the pages of clubs, players *)
(* and match centres, and the search over all of them. A request looks in  *)
(* the cache, reads the rows when it finds nothing, and stores what it read*)
(* for five minutes. Of all the writers only the upload of a club's logo   *)
(* deletes a cached page, after its row is saved.                          *)
(***************************************************************************)
EXTENDS Integers, FiniteSets, Sequences, SequencesExt

CONSTANTS
    Pages,        \* rows that have a page
    Search,       \* the key of the query that is searched
    Clubs,        \* the ones with a logo
    Rankings,     \* sequences of Pages, one for each ordering
    PageSize,     \* results on a page of the search
    Requests,
    Uploads,      \* concurrent uploads of logos
    MaxChanges,   \* bound on the changes of rows
    None

Row == [public : BOOLEAN, matches : BOOLEAN, logo : 0..MaxChanges]
Keys == Pages \cup {Search}
Call == [pc : {"idle", "missed", "read"},
         key : Keys \cup {None}, order : Rankings]

VARIABLES
    rows,         \* what the database holds
    cache,        \* by key, None where nothing is cached
    calls,        \* [pc, key, order, data] of each request
    uploads,      \* page whose row an upload has saved, None when idle
    answer,       \* [key, order, data] of the last answer
    analytics,    \* the count and the emptiness the last search recorded
    changes,
    overlapped    \* pages whose logo changed after a request read them

vars == <<rows, cache, calls, uploads, answer, analytics, changes, overlapped>>

Idle == [pc |-> "idle", key |-> None, order |-> None, data |-> None]

Init ==
    /\ rows = [p \in Pages |-> [public |-> TRUE, matches |-> TRUE, logo |-> 0]]
    /\ cache = [k \in Keys |-> None]
    /\ calls = [r \in Requests |-> Idle]
    /\ uploads = [u \in Uploads |-> None]
    /\ answer = None
    /\ analytics = None
    /\ changes = 0
    /\ overlapped = {}
-----------------------------------------------------------------------------
(* A page that is not public is not found, and what is not found is not    *)
(* cached. The search has all rows, public or not, and counts them all.    *)
PublicPage(p) == IF rows[p].public THEN [logo |-> rows[p].logo] ELSE None
Found(order) == SelectSeq(order, LAMBDA p : rows[p].matches)
Results(order) == SubSeq(Found(order), 1, Min({PageSize, Len(Found(order))}))
Provide(order) == [results |-> Results(order), count |-> Len(Found(order))]
ReadOf(key, order) == IF key = Search THEN Provide(order) ELSE PublicPage(key)

(* The order is not part of the key.                                       *)
CacheKey(key, order) == key

RecordAnalytics(n) == [count |-> n, empty |-> n = 0]

Ask(r, key, order) ==
    LET cached == cache[CacheKey(key, order)] IN
    /\ calls[r].pc = "idle"
    /\ IF cached = None
       THEN /\ calls' = [calls EXCEPT ![r] = [pc |-> "missed", key |-> key,
                             order |-> order, data |-> None]]
            /\ UNCHANGED <<answer, analytics>>
       ELSE /\ answer' = [key |-> key, order |-> order, data |-> cached]
            /\ analytics' = IF key = Search
                            THEN RecordAnalytics(Len(cached.results))
                            ELSE analytics
            /\ UNCHANGED calls
    /\ UNCHANGED <<rows, cache, uploads, changes, overlapped>>

ReadRows(r) ==
    /\ calls[r].pc = "missed"
    /\ calls' = [calls EXCEPT ![r].pc = "read",
                     ![r].data = ReadOf(calls[r].key, calls[r].order)]
    /\ UNCHANGED <<rows, cache, uploads, answer, analytics, changes,
                   overlapped>>

Store(r) ==
    LET call == calls[r] IN
    /\ call.pc = "read"
    /\ cache' = IF call.data = None THEN cache
                ELSE [cache EXCEPT ![CacheKey(call.key, call.order)] = call.data]
    /\ answer' = [key |-> call.key, order |-> call.order, data |-> call.data]
    /\ analytics' = IF call.key = Search
                    THEN RecordAnalytics(call.data.count) ELSE analytics
    /\ calls' = [calls EXCEPT ![r] = Idle]
    /\ UNCHANGED <<rows, uploads, changes, overlapped>>

(* A provider that fails gives an empty answer, which is not cached.       *)
SearchFails(r) ==
    /\ calls[r].pc \in {"missed", "read"}
    /\ calls[r].key = Search
    /\ answer' = [key |-> Search, order |-> calls[r].order,
                  data |-> [results |-> <<>>, count |-> 0]]
    /\ analytics' = RecordAnalytics(0)
    /\ calls' = [calls EXCEPT ![r] = Idle]
    /\ UNCHANGED <<rows, cache, uploads, changes, overlapped>>

(* A reader that has read the row before it is saved may store it later.   *)
Readers(p) == \E r \in Requests : calls[r].pc = "read" /\ calls[r].key = p
NeverExpires(k) == FALSE
Expires(k) == cache[k] # None
Expire(k) ==
    /\ Expires(k)
    /\ cache' = [cache EXCEPT ![k] = None]
    /\ overlapped' = IF Readers(k) THEN overlapped ELSE overlapped \ {k}
    /\ UNCHANGED <<rows, calls, uploads, answer, analytics, changes>>
-----------------------------------------------------------------------------
SaveLogo(u, p) ==
    /\ uploads[u] = None
    /\ changes < MaxChanges
    /\ rows' = [rows EXCEPT ![p].logo = changes + 1]
    /\ changes' = changes + 1
    /\ uploads' = [uploads EXCEPT ![u] = p]
    /\ overlapped' = IF Readers(p) THEN overlapped \cup {p} ELSE overlapped
    /\ UNCHANGED <<cache, calls, answer, analytics>>

NotBusted(p) == cache
Busted(p) == [cache EXCEPT ![p] = None]
BustCache(u) ==
    /\ uploads[u] # None
    /\ cache' = Busted(uploads[u])
    /\ uploads' = [uploads EXCEPT ![u] = None]
    /\ UNCHANGED <<rows, calls, answer, analytics, changes, overlapped>>

(* A row is hidden or renamed: nothing is deleted from the cache.          *)
Change(p) ==
    /\ changes < MaxChanges
    /\ changes' = changes + 1
    /\ \/ rows' = [rows EXCEPT ![p].public = ~ @]
       \/ rows' = [rows EXCEPT ![p].matches = ~ @]
    /\ UNCHANGED <<cache, calls, uploads, answer, analytics, overlapped>>

AskAny(r) == \E key \in Keys, order \in Rankings : Ask(r, key, order)
Finish(r) == ReadRows(r) \/ Store(r)
Next ==
    \/ \E r \in Requests : AskAny(r)
    \/ \E r \in Requests : Finish(r) \/ SearchFails(r)
    \/ \E k \in Keys : Expire(k)
    \/ \E u \in Uploads, p \in Clubs : SaveLogo(u, p)
    \/ \E u \in Uploads : BustCache(u)
    \/ \E p \in Pages : Change(p)

Spec ==
    /\ Init /\ [][Next]_vars
    /\ \A r \in Requests : WF_vars(Finish(r))
    /\ \A k \in Keys : WF_vars(Expire(k))
    /\ \A u \in Uploads : WF_vars(BustCache(u))
-----------------------------------------------------------------------------
(* Variables hold values of their types.                                   *)
TypeOK ==
    /\ rows \in [Pages -> Row]
    /\ \A p \in Pages : cache[p] \in [logo : 0..MaxChanges] \cup {None}
    /\ cache[Search] # None => cache[Search].count \in 0..Cardinality(Pages)
    /\ \A r \in Requests :
           /\ calls[r].pc \in {"idle", "missed", "read"}
           /\ calls[r].key \in Keys \cup {None}
    /\ uploads \in [Uploads -> Clubs \cup {None}]
    /\ changes \in 0..MaxChanges
    /\ overlapped \subseteq Pages

(* When no upload is under way and no request has read the club while its  *)
(* logo was changing, the cached page has the logo of the row.             *)
CachedLogoIsCurrent ==
    \A p \in Clubs \ overlapped :
        (cache[p] # None /\ \A u \in Uploads : uploads[u] # p)
            => cache[p] = [logo |-> rows[p].logo]

(* What is cached for a page agrees with its row, or is gone, again and    *)
(* again once the rows are left alone: a stale page is not served for ever.*)
Fresh(p) == cache[p] \in {None, PublicPage(p)}
PagesCatchUp == \A p \in Pages : []<>Fresh(p)

(* A search is answered in the order it asked for. Two searches for one    *)
(* query refute it: the second one is given the cached page of the first.  *)
SearchesAreInOrder ==
    (answer # None /\ answer.key = Search) =>
        \A i, j \in 1..Len(answer.data.results) : i < j =>
            \E a, b \in 1..Len(answer.order) :
                /\ a < b
                /\ answer.order[a] = answer.data.results[i]
                /\ answer.order[b] = answer.data.results[j]

(* The analytics of a search have the number of matches it was answered    *)
(* with. A cached answer records the length of the page instead.           *)
AnalyticsCountMatches ==
    (answer # None /\ answer.key = Search) =>
        analytics.count = answer.data.count
=============================================================================
