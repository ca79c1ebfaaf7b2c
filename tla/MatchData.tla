----------------------------- MODULE MatchData -----------------------------
(***************************************************************************)
(* The match statistics a club uploads as a CSV file: every row is checked *)
(* before anything is written, the ingestion is recorded in a transaction  *)
(* of its own, and one transaction writes the statistics row by row and    *)
(* completes the ingestion. The scoring of the fixtures is dispatched when *)
(* it has committed.                                                       *)
(*                                                                         *)
(* Uploads run at READ COMMITTED: a row is read, compared and then written *)
(* under the lock of the row. Two uploads that lock the same rows in the   *)
(* other order deadlock, and the database fails one of them.               *)
(***************************************************************************)
EXTENDS Integers, FiniteSets, Sequences, SequencesExt, Functions

CONSTANTS
    Uploads,      \* requests of the staff of one club
    Fixtures,
    Involved,     \* fixtures that involve the club
    Players,
    Sport,        \* players of the sport of the fixtures
    Files,        \* files: sequences of rows [fixture, player, value]
    Started,      \* statistics before the first upload: rows as in a file
    MaxCrashes,   \* bound on the processes that are lost
    None

Keys == Fixtures \X Players
Key(row) == <<row.fixture, row.player>>
KeysOf(file) == {Key(row) : row \in Range(file)}
Values == {row.value : row \in UNION {Range(file) : file \in Files} \cup Started}
Upload == [pc : {"idle", "valid", "read", "write", "dispatch", "done",
                 "refused", "failed", "lost"},
           file : Files \cup {<<>>},
           next : Nat,                        \* the row it is at
           seen : Values \cup {None},         \* what it read of that row
           written : SUBSET (Keys \X Values), \* not committed yet
           centres : SUBSET Fixtures]         \* match centres not committed

VARIABLES
    statistics,   \* committed value of each row, None where there is none
    centres,      \* committed match centres
    active,       \* is the provider of club files active?
    uploads,
    ingestion,    \* status of the ingestion of each upload
    scheduled,    \* fixtures whose scoring was dispatched, by upload
    writer,       \* the upload that wrote each statistic
    disturbed     \* uploads during which another one committed

vars == <<statistics, centres, active, uploads, ingestion, scheduled,
          writer, disturbed>>

Idle == [pc |-> "idle", file |-> <<>>, next |-> 1, seen |-> None,
         written |-> {}, centres |-> {}]

Init ==
    /\ statistics = [k \in Keys |->
           IF \E row \in Started : Key(row) = k
           THEN (CHOOSE row \in Started : Key(row) = k).value ELSE None]
    /\ centres = {row.fixture : row \in Started}
    /\ active = TRUE
    /\ uploads = [u \in Uploads |-> Idle]
    /\ ingestion = [u \in Uploads |-> None]
    /\ scheduled = [u \in Uploads |-> {}]
    /\ writer = [k \in Keys |-> None]
    /\ disturbed = {}

Ended == {"done", "refused", "failed", "lost"}
Running(u) == uploads[u].pc \in {"read", "write"}
Row(u) == uploads[u].file[uploads[u].next]
Locks(u) == {entry[1] : entry \in uploads[u].written}
Others(u) == Uploads \ {u}
-----------------------------------------------------------------------------
(* The whole file is refused for one bad row.                              *)
ResolveFixture(row) == row.fixture \in Involved
ResolvePlayer(row) == row.player \in Sport
ParseValue(row) == row.value >= 0
ValidateAllRows(file) ==
    /\ file # <<>>
    /\ \A row \in Range(file) :
           ResolveFixture(row) /\ ResolvePlayer(row) /\ ParseValue(row)
    /\ Cardinality(KeysOf(file)) = Len(file)

Validate(u, file) ==
    /\ uploads[u].pc = "idle"
    /\ uploads' = [uploads EXCEPT ![u].file = file,
           ![u].pc = IF ValidateAllRows(file) THEN "valid" ELSE "refused"]
    /\ UNCHANGED <<statistics, centres, active, ingestion, scheduled,
                   writer, disturbed>>

(* The provider is looked up after the checks; the ingestion commits before*)
(* the transaction that writes.                                            *)
StartIngestion(u) ==
    /\ uploads[u].pc = "valid"
    /\ IF active
       THEN /\ uploads' = [uploads EXCEPT ![u].pc = "read"]
            /\ ingestion' = [ingestion EXCEPT ![u] = "PROCESSING"]
       ELSE /\ uploads' = [uploads EXCEPT ![u].pc = "refused"]
            /\ UNCHANGED ingestion
    /\ UNCHANGED <<statistics, centres, active, scheduled, writer, disturbed>>
-----------------------------------------------------------------------------
(* get_or_create of the match centre waits for another one that is being   *)
(* created; then the statistic is read.                                    *)
CentreBlocked(u, v) ==
    /\ uploads[u].pc = "read"
    /\ uploads[u].next <= Len(uploads[u].file)
    /\ Row(u).fixture \in uploads[v].centres \ centres
Visible(u, k) ==
    IF k \in Locks(u)
    THEN (CHOOSE entry \in uploads[u].written : entry[1] = k)[2]
    ELSE statistics[k]

ReadRow(u) ==
    /\ uploads[u].pc = "read"
    /\ uploads[u].next <= Len(uploads[u].file)
    /\ ~ \E v \in Others(u) : CentreBlocked(u, v)
    /\ uploads' = [uploads EXCEPT ![u].pc = "write",
           ![u].seen = Visible(u, Key(Row(u))),
           ![u].centres = @ \cup ({Row(u).fixture} \ centres)]
    /\ UNCHANGED <<statistics, centres, active, ingestion, scheduled,
                   writer, disturbed>>

Unchanged(u) == uploads[u].seen = Row(u).value
RowBlocked(u, v) ==
    /\ uploads[u].pc = "write"
    /\ ~ Unchanged(u)
    /\ Key(Row(u)) \in Locks(v)
Waits(u, v) == CentreBlocked(u, v) \/ RowBlocked(u, v)

(* An insert that finds a row committed meanwhile reads it again.          *)
WriteRow(u) ==
    /\ uploads[u].pc = "write"
    /\ ~ \E v \in Others(u) : RowBlocked(u, v)
    /\ LET k == Key(Row(u)) IN
       uploads' =
           IF uploads[u].seen = None /\ statistics[k] # None
           THEN [uploads EXCEPT ![u].seen = statistics[k]]
           ELSE [uploads EXCEPT ![u].pc = "read", ![u].next = @ + 1,
                     ![u].seen = None,
                     ![u].written = IF Unchanged(u) THEN @
                                    ELSE @ \cup {<<k, Row(u).value>>}]
    /\ UNCHANGED <<statistics, centres, active, ingestion, scheduled,
                   writer, disturbed>>

WrittenRows(u) == uploads[u].written
CompleteIngestion(u) ==
    /\ uploads[u].pc = "read"
    /\ uploads[u].next > Len(uploads[u].file)
    /\ statistics' = [k \in Keys |-> Visible(u, k)]
    /\ centres' = centres \cup uploads[u].centres
    /\ writer' = [k \in Keys |-> IF k \in Locks(u) THEN u ELSE writer[k]]
    /\ ingestion' = [ingestion EXCEPT ![u] = "COMPLETED"]
    /\ uploads' = [uploads EXCEPT ![u].pc = "dispatch", ![u].written = {},
                                  ![u].centres = {}]
    /\ disturbed' = disturbed \cup
           {v \in Others(u) : uploads[v].pc \notin {"idle"} \cup {"refused"}}
    /\ UNCHANGED <<active, scheduled>>

(* A dispatch that fails is logged: the staff has to score by hand.        *)
Dispatch(u) ==
    /\ uploads[u].pc = "dispatch"
    /\ uploads' = [uploads EXCEPT ![u].pc = "done"]
    /\ \/ scheduled' = [scheduled EXCEPT
              ![u] = {row.fixture : row \in Range(uploads[u].file)}]
       \/ UNCHANGED scheduled
    /\ UNCHANGED <<statistics, centres, active, ingestion, writer, disturbed>>

(* What a transaction that rolls back leaves of its rows.                  *)
KeptOnFailure(u) == {}
RolledBack(u) ==
    /\ statistics' = [k \in Keys |->
           IF \E entry \in KeptOnFailure(u) : entry[1] = k
           THEN (CHOOSE entry \in KeptOnFailure(u) : entry[1] = k)[2]
           ELSE statistics[k]]
    /\ writer' = [k \in Keys |->
           IF \E entry \in KeptOnFailure(u) : entry[1] = k THEN u
           ELSE writer[k]]

(* The database fails one of two transactions that wait for each other.    *)
FailIngestion(u) ==
    /\ \E v \in Others(u) : Waits(u, v) /\ Waits(v, u)
    /\ uploads' = [uploads EXCEPT ![u].pc = "failed", ![u].written = {},
                                  ![u].centres = {}]
    /\ ingestion' = [ingestion EXCEPT ![u] = "FAILED"]
    /\ RolledBack(u)
    /\ UNCHANGED <<centres, active, scheduled, disturbed>>

Crash(u) ==
    /\ Running(u) \/ uploads[u].pc \in {"valid", "dispatch"}
    /\ Cardinality({v \in Uploads : uploads[v].pc = "lost"}) < MaxCrashes
    /\ uploads' = [uploads EXCEPT ![u].pc = "lost", ![u].written = {},
                                  ![u].centres = {}]
    /\ RolledBack(u)
    /\ UNCHANGED <<centres, active, ingestion, scheduled, disturbed>>

SetProvider(on) ==
    /\ active # on
    /\ active' = on
    /\ UNCHANGED <<statistics, centres, uploads, ingestion, scheduled,
                   writer, disturbed>>

Step(u) ==
    \/ StartIngestion(u) \/ ReadRow(u) \/ WriteRow(u)
    \/ CompleteIngestion(u) \/ Dispatch(u) \/ FailIngestion(u)
Next ==
    \/ \E u \in Uploads : Step(u)
    \/ \E u \in Uploads : Crash(u)
    \/ \E u \in Uploads, file \in Files : Validate(u, file)
    \/ \E on \in BOOLEAN : SetProvider(on)

Spec == Init /\ [][Next]_vars /\ \A u \in Uploads : WF_vars(Step(u))
-----------------------------------------------------------------------------
(* Variables hold values of their types, and two transactions never hold   *)
(* the lock of one row.                                                    *)
TypeOK ==
    /\ statistics \in [Keys -> Values \cup {None}]
    /\ centres \subseteq Fixtures
    /\ active \in BOOLEAN
    /\ uploads \in [Uploads -> Upload]
    /\ ingestion \in
           [Uploads -> {"PROCESSING", "COMPLETED", "FAILED", None}]
    /\ scheduled \in [Uploads -> SUBSET Fixtures]
    /\ writer \in [Keys -> Uploads \cup {None}]
    /\ disturbed \subseteq Uploads
    /\ \A u \in Uploads : \A v \in Others(u) :
           Locks(u) \cap Locks(v) = {}

(* No statistic comes from a file whose ingestion was not completed, and a *)
(* completed file that no other one disturbed is saved to the last row     *)
(* until another upload commits: the comment "the entire import is atomic" *)
(* of match_data_service.py.                                               *)
FilesAreAtomic ==
    /\ \A k \in Keys : writer[k] # None => ingestion[writer[k]] = "COMPLETED"
    /\ \A u \in Uploads \ disturbed : ingestion[u] = "COMPLETED" =>
           \A row \in Range(uploads[u].file) :
               statistics[Key(row)] = row.value

(* The same without the exception for uploads that overlap: the last file  *)
(* to be completed is in the statistics. Uploads of two processes refute   *)
(* it, because a row that already had the value is not written.            *)
LastFileIsSaved ==
    [][\A u \in Uploads : (ingestion[u] = "PROCESSING" /\
           ingestion'[u] = "COMPLETED") =>
           \A row \in Range(uploads[u].file) :
               statistics'[Key(row)] = row.value]_vars

(* An upload ends, with whatever it waits for, unless its process is lost. *)
Runs(u) == uploads[u].pc \in {"valid", "read", "write", "dispatch"}
HasEnded(u) == uploads[u].pc \in Ended
UploadsEnd == \A u \in Uploads : Runs(u) ~> HasEnded(u)
=============================================================================
