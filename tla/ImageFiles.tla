----------------------------- MODULE ImageFiles -----------------------------
(***************************************************************************)
(* The picture of a profile or the logo of a club: a column that names a   *)
(* file of the storage, and the requests that replace or remove it.  The   *)
(* row is read without a lock, the old file is deleted, the new one is     *)
(* saved and then the row.  An avatar does so in a transaction, which the  *)
(* storage takes no part in; a logo saves its row at once.  The profile    *)
(* page saves the whole row it read, the name of the picture included.     *)
(***************************************************************************)
EXTENDS Naturals, FiniteSets

CONSTANTS
    Requests,      \* concurrent requests
    Pages,         \* those of them that may be saves of the profile page
    MaxFiles,      \* bound on the files saved
    MaxFailures,   \* bound on the requests that fail
    InTransaction, \* TRUE for an avatar, FALSE for a logo
    None

VARIABLES
    row,       \* the file the committed row names, or None
    stored,    \* files in the storage
    writer,    \* the request whose transaction holds the row, or None
    calls,     \* what each request is doing
    files,     \* number of files saved
    failures,  \* number of requests that failed
    pages      \* history: a save of the profile page ran beside another request

vars == <<row, stored, writer, calls, files, failures, pages>>

Idle == [op |-> None, step |-> None, old |-> None, new |-> None]
Names == (1..MaxFiles) \cup {None}

TypeOK ==
    /\ row \in Names /\ stored \subseteq 1..MaxFiles
    /\ writer \in Requests \cup {None}
    /\ \A r \in Requests : calls[r].old \in Names /\ calls[r].new \in Names
    /\ files \in 0..MaxFiles /\ failures \in 0..MaxFailures /\ pages \in BOOLEAN

Init ==
    /\ row = None /\ stored = {} /\ writer = None
    /\ calls = [r \in Requests |-> Idle]
    /\ files = 0 /\ failures = 0 /\ pages = FALSE

Running == {r \in Requests : calls[r].op # None}
At(r, step) == r \in Running /\ calls[r].step = step
End(r) == calls' = [calls EXCEPT ![r] = Idle]

(* The row as a request reads it: its own saved row or the committed one.  *)
Begin(r, op, step) ==
    /\ r \notin Running
    /\ calls' = [calls EXCEPT ![r] = [op |-> op, step |-> step, old |-> row,
                                      new |-> None]]
    /\ pages' = (pages \/ (Running # {} /\ (op = "page"
                    \/ \E q \in Running : calls[q].op = "page")))
    /\ UNCHANGED <<row, stored, writer, files, failures>>

-----------------------------------------------------------------------------
Upload(r) ==
    /\ files + Cardinality({q \in Running : calls[q].op = "upload"
                                             /\ calls[q].new = None}) < MaxFiles
    /\ Begin(r, "upload", "unlink")

Remove(r) == Begin(r, "remove", "unlink")

(* _delete_old_avatar, _delete_logo_file: the file that the row named when *)
(* it was read; it may be gone already.                                    *)
DeleteFile(r) ==
    /\ At(r, "unlink")
    /\ stored' = stored \ {calls[r].old}
    /\ calls' = [calls EXCEPT ![r].step = IF calls[r].op = "upload" THEN "store"
                                          ELSE "save"]
    /\ UNCHANGED <<row, writer, files, failures, pages>>

(* generate_filename: a new name for every file.                           *)
NameOfUser == 1
NewName == files + 1

SaveFile(r) ==
    /\ At(r, "store")
    /\ files' = files + 1
    /\ stored' = stored \cup {NewName}
    /\ calls' = [calls EXCEPT ![r].step = "save", ![r].new = NewName]
    /\ UNCHANGED <<row, writer, failures, pages>>

(* The save of the row: it waits for the transaction that holds it.        *)
SaveRow(r) ==
    /\ At(r, "save") /\ writer = None
    /\ IF InTransaction
       THEN /\ writer' = r /\ calls' = [calls EXCEPT ![r].step = "commit"]
            /\ UNCHANGED row
       ELSE row' = calls[r].new /\ End(r) /\ UNCHANGED writer
    /\ UNCHANGED <<stored, files, failures, pages>>

Commit(r) ==
    /\ At(r, "commit") /\ End(r)
    /\ writer' = None /\ row' = calls[r].new
    /\ UNCHANGED <<stored, files, failures, pages>>

(* An error or a crash: the transaction rolls back, the files do not.      *)
Fail(r) ==
    /\ r \in Running /\ failures < MaxFailures /\ failures' = failures + 1
    /\ End(r) /\ writer' = IF writer = r THEN None ELSE writer
    /\ UNCHANGED <<row, stored, files, pages>>

(* update_profile: profile.save() writes every column of the row it read.  *)
EditProfile(r) == r \in Pages /\ InTransaction /\ Begin(r, "page", "page")

SaveProfile(r) ==
    /\ At(r, "page") /\ writer = None
    /\ writer' = r
    /\ calls' = [calls EXCEPT ![r].step = "commit", ![r].new = calls[r].old]
    /\ UNCHANGED <<row, stored, files, failures, pages>>

-----------------------------------------------------------------------------
Beginning == \E r \in Requests : Upload(r) \/ Remove(r) \/ EditProfile(r)
Work == \E r \in Requests :
    \/ DeleteFile(r) \/ SaveFile(r) \/ SaveRow(r) \/ Commit(r) \/ SaveProfile(r)
Failing == \E r \in Requests : Fail(r)

Next == Beginning \/ Work \/ Failing

Spec == Init /\ [][Next]_vars

-----------------------------------------------------------------------------
Quiet == Running = {}

(* However uploads and removals interleave, the file that the row names is *)
(* in the storage once they are done, if none of them failed and no save   *)
(* of the profile page ran beside them.                                    *)
PictureExists == Quiet /\ failures = 0 /\ ~pages => row \in stored \cup {None}

(* Requests that fail leave the picture as it was.                         *)
FailureKeepsPicture == Quiet /\ ~pages => row \in stored \cup {None}

(* A save of the profile page brings no deleted picture back.              *)
PageKeepsPicture == Quiet /\ failures = 0 => row \in stored \cup {None}

(* Each profile and club has at most one picture in the storage.           *)
OnePicture == Quiet /\ failures = 0 => Cardinality(stored) <= 1
=============================================================================
