------------------------------ MODULE NewsDesk ------------------------------
(***************************************************************************)
(* The moderation of news: clubs submit articles, the staff of the         *)
(* platform composes, edits, approves and rejects them, and curates which  *)
(* one is the Top Story and which are Trending.                            *)
(*                                                                         *)
(* A view reads the article without a lock.  approve, set_featured and     *)
(* set_trending run in a transaction whose first statements check the      *)
(* capacity and clear the other Top Story, and whose last one saves the    *)
(* article as it was read; reject and update_story only save.  A save of   *)
(* the whole row writes every column of the row that was read.             *)
(***************************************************************************)
EXTENDS Naturals, FiniteSets

CONSTANTS
    Articles, Requests,
    MAX_TRENDING,
    MaxCalls,        \* bound on the requests made after the submissions
    None

Status == {"PENDING_APPROVAL", "PUBLISHED", "REJECTED"}
News == [status : Status, is_featured : BOOLEAN, is_trending : BOOLEAN]

VARIABLES
    news,        \* article |-> its row, or None
    calls,       \* what each request is doing
    made,        \* number of requests made
    overlapped,  \* history: two requests have overlapped
    rejected     \* history: articles whose last decision was to reject them

vars == <<news, calls, made, overlapped, rejected>>

Idle == [op |-> None, article |-> None, was |-> FALSE, save |-> None,
         cleared |-> {}, ready |-> FALSE]

TypeOK ==
    /\ \A n \in Articles : news[n] \in News \cup {None}
    /\ \A r \in Requests : calls[r].save \in News \cup {None}
                           /\ calls[r].cleared \subseteq Articles
    /\ made \in 0..MaxCalls /\ overlapped \in BOOLEAN /\ rejected \subseteq Articles

Init ==
    /\ news = [n \in Articles |-> None]
    /\ calls = [r \in Requests |-> Idle]
    /\ made = 0 /\ overlapped = FALSE /\ rejected = {}

Running == {r \in Requests : calls[r].op # None}
Written == {n \in Articles : news[n] # None}
End(r) == calls' = [calls EXCEPT ![r] = Idle]
New(status) == [status |-> status, is_featured |-> FALSE, is_trending |-> FALSE]

-----------------------------------------------------------------------------
(* A club submits, the staff composes and publishes.                       *)
submit_for_review(n) ==
    /\ n \notin Written /\ news' = [news EXCEPT ![n] = New("PENDING_APPROVAL")]
    /\ UNCHANGED <<calls, made, overlapped, rejected>>

compose_and_publish(n) ==
    /\ n \notin Written /\ news' = [news EXCEPT ![n] = New("PUBLISHED")]
    /\ UNCHANGED <<calls, made, overlapped, rejected>>

(* The view reads the article; `save` is the row the request will save and *)
(* `was` whether the article was Trending then.                            *)
Begin(r, op, n, save, ready) ==
    /\ r \notin Running /\ made < MaxCalls /\ made' = made + 1
    /\ calls' = [calls EXCEPT ![r] = [op |-> op, article |-> n, save |-> save,
                     was |-> op \in {"approve", "trend"} /\ news[n].is_trending,
                     cleared |-> {}, ready |-> ready]]
    /\ overlapped' = (overlapped \/ Running # {})
    /\ UNCHANGED <<news, rejected>>

approve(r, n, top, trending) ==
    Begin(r, "approve", n, [status |-> "PUBLISHED", is_featured |-> top,
                            is_trending |-> trending], FALSE)
set_featured(r, n, top) ==
    Begin(r, "feature", n, [New("PUBLISHED") EXCEPT !.is_featured = top], FALSE)
set_trending(r, n, trending) ==
    Begin(r, "trend", n, [New("PUBLISHED") EXCEPT !.is_trending = trending], FALSE)
reject(r, n) == Begin(r, "reject", n, [news[n] EXCEPT !.status = "REJECTED"], TRUE)
update_story(r, n) == Begin(r, "edit", n, news[n], TRUE)

-----------------------------------------------------------------------------
(* Rows a transaction has written wait for it.                             *)
Locked(n, r) == \E q \in Running \ {r} : n \in calls[q].cleared

Trending(n) == {m \in Written \ {n} : news[m].is_trending}
CapacityPlusOne(n, was, save) ==
    save.is_trending /\ ~was => Cardinality(Trending(n)) <= MAX_TRENDING
Capacity(n, was, save) ==
    save.is_trending /\ ~was => Cardinality(Trending(n)) < MAX_TRENDING

(* _unfeature_others.                                                      *)
ClearsNone(c) == FALSE
Clears(c) == c.op \in {"approve", "feature"} /\ c.save.is_featured
Others(n) == {m \in Written \ {n} : news[m].is_featured}

(* The statements before the save.                                         *)
CheckAndClear(r) ==
    LET c == calls[r]
        clear == IF Clears(c) THEN Others(c.article) ELSE {} IN
    /\ r \in Running /\ ~c.ready
    /\ IF c.op \in {"approve", "trend"} /\ ~Capacity(c.article, c.was, c.save)
       THEN End(r)
       ELSE /\ \A m \in clear : ~Locked(m, r)
            /\ calls' = [calls EXCEPT ![r].ready = TRUE, ![r].cleared = clear]
    /\ UNCHANGED <<news, made, overlapped, rejected>>

(* The save and the commit.  The toggles name the column they write.       *)
Saved(c) ==
    CASE c.op = "feature" -> [news[c.article] EXCEPT !.is_featured = c.save.is_featured]
      [] c.op = "trend"   -> [news[c.article] EXCEPT !.is_trending = c.save.is_trending]
      [] OTHER            -> c.save

Save(r) ==
    LET c == calls[r] IN
    /\ r \in Running /\ c.ready /\ ~Locked(c.article, r) /\ End(r)
    /\ news' = [n \in Articles |->
                  CASE n = c.article -> Saved(c)
                    [] n \in c.cleared -> [news[n] EXCEPT !.is_featured = FALSE]
                    [] OTHER -> news[n]]
    /\ rejected' = CASE c.op = "reject" -> rejected \cup {c.article}
                     [] c.op = "approve" -> rejected \ {c.article}
                     [] OTHER -> rejected
    /\ UNCHANGED <<made, overlapped>>

(* Two transactions that wait for each other: the database ends one.       *)
Deadlock(r) ==
    /\ r \in Running /\ calls[r].ready /\ Locked(calls[r].article, r)
    /\ \E q \in Running \ {r} :
           calls[r].article \in calls[q].cleared /\ calls[q].article \in calls[r].cleared
    /\ End(r)
    /\ UNCHANGED <<news, made, overlapped, rejected>>

-----------------------------------------------------------------------------
Writing == \E n \in Articles : submit_for_review(n) \/ compose_and_publish(n)
Moderating == \E r \in Requests, n \in Written :
    \/ \E top, trending \in BOOLEAN : approve(r, n, top, trending)
    \/ \E on \in BOOLEAN : set_featured(r, n, on) \/ set_trending(r, n, on)
    \/ reject(r, n) \/ update_story(r, n)
Work == \E r \in Requests : CheckAndClear(r) \/ Save(r) \/ Deadlock(r)

Next == Writing \/ Moderating \/ Work

Spec == Init /\ [][Next]_vars

-----------------------------------------------------------------------------
(* "Only one Top Story at a time", and no more Trending stories than the   *)
(* capacity.                                                               *)
OneTopStory == Cardinality({n \in Written : news[n].is_featured}) <= 1
TrendingWithinCapacity ==
    Cardinality({n \in Written : news[n].is_trending}) <= MAX_TRENDING

(* One request after the other, whatever the statuses they run through,    *)
(* keeps both.                                                             *)
CurationHolds == ~overlapped => OneTopStory /\ TrendingWithinCapacity

(* A rejected article "never appears on the public feed" until it is       *)
(* approved again.                                                         *)
RejectionStands == \A n \in rejected : news[n].status = "REJECTED"

(* The Top Story is a published article.                                   *)
TopStoryIsPublished ==
    \A n \in Written : news[n].is_featured => news[n].status = "PUBLISHED"
=============================================================================
