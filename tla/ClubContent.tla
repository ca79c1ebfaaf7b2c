---------------------------- MODULE ClubContent ----------------------------
(***************************************************************************)
(* Profile versions, media and news of a club: the endpoints of its staff  *)
(* and the Celery beat task that publishes what is due.                    *)
(*                                                                         *)
(* No row is locked. A request reads an item and later writes the columns  *)
(* it changes (publish, schedule) or all of them (PATCH); the task reads   *)
(* the due rows of a kind and then publishes them one by one.              *)
(***************************************************************************)
EXTENDS Integers, FiniteSets

CONSTANTS
    Kinds,        \* subset of {"profile", "media", "news"}
    Staff,        \* concurrent requests of the club's staff
    PerKind,      \* bound on the items of a kind
    MaxItems,     \* bound on the items at a time
    MaxTime,      \* bound on the clock
    None

Items == Kinds \X (1..PerKind)         \* the number of a profile is its version
Kind(i) == i[1]
Times == 0..MaxTime
(* Nothing asks for ARCHIVED: "DRAFT" stands for it too.                   *)
ProfileStatuses == {"DRAFT", "PENDING_APPROVAL", "PUBLISHED"}
MediaStatuses == {"DRAFT", "PUBLISHED"}
NewsStatuses == {"DRAFT", "PENDING_APPROVAL", "PUBLISHED"}
Statuses(kind) ==
    CASE kind = "profile" -> ProfileStatuses
      [] kind = "media" -> MediaStatuses
      [] kind = "news" -> NewsStatuses
Rows == [status : ProfileStatuses, scheduled : Times \cup {None}]

VARIABLES
    items,        \* rows by kind and number, None where there is no row
    clock,
    calls,        \* what each request has read
    task,         \* kinds the task has read, and the rows it will publish
    changed       \* items a request has written since the task read them

vars == <<items, clock, calls, task, changed>>

Idle == [item |-> None, status |-> None, op |-> None]
Exists(i) == items[i] # None
Room == Cardinality({i \in Items : Exists(i)}) < MaxItems

TypeOK ==
    /\ items \in [Items -> Rows \cup {None}]
    /\ clock \in Times
    /\ \A c \in Staff : calls[c].op \in {None, "version", "edit"}
    /\ task.done \subseteq Kinds /\ DOMAIN task.read \subseteq Items
    /\ changed \subseteq Items

Init ==
    /\ items = [i \in Items |-> None] /\ clock = 0
    /\ calls = [c \in Staff |-> Idle]
    /\ task = [done |-> {}, read |-> << >>]
    /\ changed = {}

Finish(c) == calls' = [calls EXCEPT ![c] = Idle]
Write(i, row) ==
    /\ items' = [items EXCEPT ![i] = row]
    /\ changed' = changed \cup ({i} \cap DOMAIN task.read)

-----------------------------------------------------------------------------
(* A new profile takes the version after the last, read before the insert. *)
LastVersion == CHOOSE n \in 0..PerKind :
    /\ n > 0 => Exists(<<"profile", n>>)
    /\ \A m \in (n + 1)..PerKind : ~Exists(<<"profile", m>>)

ReadVersion(c) ==
    /\ "profile" \in Kinds /\ LastVersion < PerKind /\ Room
    /\ calls[c] = Idle
    /\ calls' = [calls EXCEPT ![c] = [Idle EXCEPT !.op = "version",
                                         !.item = <<"profile", LastVersion + 1>>]]
    /\ UNCHANGED <<items, clock, task, changed>>

(* The club and the version are unique: the second insert is refused.      *)
CreateProfile(c, status, at) ==
    LET i == calls[c].item IN
    /\ calls[c].op = "version"
    /\ IF Exists(i) THEN UNCHANGED <<items, changed>>
                    ELSE Write(i, [status |-> status, scheduled |-> at])
    /\ Finish(c)
    /\ UNCHANGED <<clock, task>>

CreateItem(i, status, at) ==
    /\ ~Exists(i) /\ Room /\ status \in Statuses(Kind(i))
    /\ Write(i, [status |-> status, scheduled |-> at])
    /\ UNCHANGED <<clock, calls, task>>

CreateMedia(i, status, at) == Kind(i) = "media" /\ CreateItem(i, status, at)
CreateNews(i, status, at) == Kind(i) = "news" /\ CreateItem(i, status, at)

Delete(i) ==
    /\ Exists(i)
    /\ Write(i, None)
    /\ UNCHANGED <<clock, calls, task>>

ReadItem(c, i) ==
    /\ calls[c] = Idle /\ Exists(i)
    /\ calls' = [calls EXCEPT ![c] = [item |-> i, status |-> items[i].status, op |-> "edit"]]
    /\ UNCHANGED <<items, clock, task, changed>>

Published == [status |-> "PUBLISHED", scheduled |-> None]

(* Publishing: nothing for an item read as published, an error if the row  *)
(* is gone.                                                                *)
Publish(c) ==
    LET i == calls[c].item IN
    /\ calls[c].op = "edit"
    /\ IF calls[c].status = "PUBLISHED" \/ ~Exists(i)
       THEN UNCHANGED <<items, changed>>
       ELSE Write(i, Published)
    /\ Finish(c)
    /\ UNCHANGED <<clock, task>>

IsAt(c, kind) == calls[c].op = "edit" /\ Kind(calls[c].item) = kind
PublishProfile(c) == IsAt(c, "profile") /\ Publish(c)
PublishMedia(c) == IsAt(c, "media") /\ Publish(c)
PublishNews(c) == IsAt(c, "news") /\ Publish(c)

(* schedule_profile and schedule_news wait for approval; schedule_media    *)
(* publishes at once.                                                      *)
ScheduledStatus(kind) == IF kind = "media" THEN "PUBLISHED" ELSE "PENDING_APPROVAL"

Schedule(c, at) ==
    LET i == calls[c].item IN
    /\ calls[c].op = "edit" /\ at > clock
    /\ IF Exists(i) THEN Write(i, [status |-> ScheduledStatus(Kind(i)), scheduled |-> at])
                    ELSE UNCHANGED <<items, changed>>
    /\ Finish(c)
    /\ UNCHANGED <<clock, task>>

ScheduleProfile(c, at) == IsAt(c, "profile") /\ Schedule(c, at)
ScheduleMedia(c, at) == IsAt(c, "media") /\ Schedule(c, at)
ScheduleNews(c, at) == IsAt(c, "news") /\ Schedule(c, at)

(* PATCH: the status and the time are columns like any other.              *)
Patch(c, status, at) ==
    LET i == calls[c].item IN
    /\ calls[c].op = "edit" /\ status \in Statuses(Kind(i))
    /\ Write(i, [status |-> status, scheduled |-> at])
    /\ Finish(c)
    /\ UNCHANGED <<clock, task>>

-----------------------------------------------------------------------------
(* publish_scheduled_content, every 300 seconds: the profiles, the media,  *)
(* the news.                                                               *)
PublishedAsked(kind) == "PUBLISHED"
TaskStatus(kind) == IF kind = "media" THEN "PUBLISHED" ELSE "PENDING_APPROVAL"
DueAnyTime(i) ==
    Exists(i) /\ items[i].status = TaskStatus(Kind(i)) /\ items[i].scheduled # None
Due(i) ==
    /\ Exists(i) /\ items[i].status = TaskStatus(Kind(i))
    /\ items[i].scheduled # None /\ items[i].scheduled <= clock

Order(kind) == CASE kind = "profile" -> 1 [] kind = "media" -> 2 [] kind = "news" -> 3

(* get_scheduled_profiles, get_scheduled_media, get_scheduled_news.        *)
ReadDue(kind) ==
    LET due == {i \in Items : Kind(i) = kind /\ Due(i)} IN
    /\ DOMAIN task.read = {} /\ kind \notin task.done
    /\ \A k \in Kinds : Order(k) < Order(kind) => k \in task.done
    /\ task' = [done |-> task.done \cup {kind},
                read |-> [i \in due |-> items[i].status]]
    /\ UNCHANGED <<items, clock, calls, changed>>

TaskPublish(i) ==
    /\ i \in DOMAIN task.read
    /\ task' = [task EXCEPT !.read = [j \in DOMAIN task.read \ {i} |-> task.read[j]]]
    /\ IF task.read[i] = "PUBLISHED" \/ ~Exists(i)
       THEN UNCHANGED items
       ELSE items' = [items EXCEPT ![i] = Published]
    /\ changed' = changed \ {i}
    /\ UNCHANGED <<clock, calls>>

TaskEnds ==
    /\ task.done = Kinds /\ DOMAIN task.read = {}
    /\ task' = [done |-> {}, read |-> << >>]
    /\ UNCHANGED <<items, clock, calls, changed>>

Tick ==
    /\ clock < MaxTime /\ clock' = clock + 1
    /\ UNCHANGED <<items, calls, task, changed>>

Request(c) ==
    \/ ReadVersion(c) \/ PublishProfile(c) \/ PublishMedia(c) \/ PublishNews(c)
    \/ \E s \in ProfileStatuses, at \in Times \cup {None} :
          CreateProfile(c, s, at) \/ Patch(c, s, at)
    \/ \E i \in Items : ReadItem(c, i)
    \/ \E at \in Times : ScheduleProfile(c, at) \/ ScheduleMedia(c, at) \/ ScheduleNews(c, at)

Task == (\E kind \in Kinds : ReadDue(kind)) \/ (\E i \in Items : TaskPublish(i)) \/ TaskEnds

Next ==
    \/ \E c \in Staff : Request(c)
    \/ \E i \in Items, s \in ProfileStatuses, at \in Times \cup {None} :
          CreateMedia(i, s, at) \/ CreateNews(i, s, at)
    \/ \E i \in Items : Delete(i)
    \/ Task \/ Tick

Spec == Init /\ [][Next]_vars /\ WF_vars(Task)

-----------------------------------------------------------------------------
(* Content is not published before its time: the task publishes only what  *)
(* is due, unless a request changed the item after the task had read it.   *)
PublishesOnTime ==
    \A i \in Items : TaskPublish(i) /\ items'[i] # items[i] =>
       i \in changed \/ (items[i].status # "PUBLISHED" /\ items[i].scheduled <= clock)
ScheduleRespected == [][PublishesOnTime]_vars

(* What is due is published: an item that waits and is due does not wait   *)
(* for ever, whatever the staff do to the other items meanwhile.           *)
Waits(i) ==
    /\ Exists(i) /\ items[i].status = "PENDING_APPROVAL"
    /\ items[i].scheduled # None /\ items[i].scheduled <= clock
DueIsPublished == \A i \in Items : Waits(i) ~> ~Waits(i)

(* What MediaService.schedule_media says, "Schedule media for future       *)
(* publication": a scheduled item is not public before its time.           *)
ScheduledIsNotPublic ==
    [][\A c \in Staff, at \in Times : Schedule(c, at) /\ Exists(calls[c].item) =>
          items'[calls[c].item].status # "PUBLISHED"]_vars
=============================================================================
