----------------------------- MODULE FixtureDesk -----------------------------
(***************************************************************************)
(* One fixture between its creation and the review of its result: the data *)
(* staff schedule it, move its status, enter its score, complete it and    *)
(* submit the result; a reviewer verifies or rejects what was submitted.   *)
(* A view reads the rows without a lock, checks what it read, and later    *)
(* saves the columns it names.                                             *)
(***************************************************************************)
EXTENDS Naturals, FiniteSets

CONSTANTS
    Open,        \* the statuses of a fixture other than COMPLETED
    Staff,       \* people who enter data and people who review
    Scores,      \* values of a score
    MaxTime,     \* bound on time and on the times of a schedule
    Requests,    \* concurrent requests
    MaxCalls,    \* bound on the requests made
    None

Times == 1..MaxTime
Status == Open \cup {"COMPLETED"}
Decisions == {"VERIFIED", "REJECTED"}

VARIABLES
    fixture,   \* the row of the fixture
    score,     \* the score of its match centre, or None
    review,    \* its verification row, or None
    now,
    calls,     \* what each request is doing
    made,      \* number of requests made
    seen       \* history: the score when the result was last decided

vars == <<fixture, score, review, now, calls, made, seen>>

Fixtures == [status : Status, starts_at : Times, ends_at : Times \cup {None}]
Reviews == [status : {"PENDING"} \cup Decisions, submitted_by : Staff,
            reviewed_by : Staff \cup {None}]
Idle == [op |-> None, actor |-> None, value |-> None]

TypeOK ==
    /\ fixture \in Fixtures /\ review \in Reviews \cup {None}
    /\ score \in Scores \cup {None} /\ seen \in Scores \cup {None}
    /\ now \in Times /\ made \in 0..MaxCalls
    /\ \A r \in Requests : calls[r].actor \in Staff \cup {None}

(* create_fixture.                                                         *)
EndsAfter(starts, ends) == ends # None => ends >= starts

Init ==
    /\ fixture \in [status : {"SCHEDULED"}, starts_at : Times, ends_at : Times \cup {None}]
    /\ EndsAfter(fixture.starts_at, fixture.ends_at)
    /\ score = None /\ review = None /\ seen = None
    /\ now = 1 /\ made = 0
    /\ calls = [r \in Requests |-> Idle]

Running(r, op) == calls[r].op = op
End(r) == calls' = [calls EXCEPT ![r] = Idle]

Begin(r, op, actor, value) ==
    /\ Running(r, None) /\ made < MaxCalls /\ made' = made + 1
    /\ calls' = [calls EXCEPT ![r] = [op |-> op, actor |-> actor,
                                      value |-> value]]
    /\ UNCHANGED <<fixture, score, review, now, seen>>

-----------------------------------------------------------------------------
(* set_status: any status but COMPLETED, from any status.                  *)
SetStatus(r, s) == Begin(r, "status", None, s)
SaveStatus(r) ==
    /\ Running(r, "status") /\ End(r)
    /\ fixture' = [fixture EXCEPT !.status = calls[r].value]
    /\ UNCHANGED <<score, review, now, made, seen>>

(* reschedule: the times given, or those read, must be in order; a kickoff *)
(* must not be in the past.  Only the times given are saved.               *)
Reschedule(r, starts, ends) ==
    /\ starts # None => starts >= now
    /\ EndsAfter(IF starts # None THEN starts ELSE fixture.starts_at,
                 IF ends # None THEN ends ELSE fixture.ends_at)
    /\ Begin(r, "times", None, <<starts, ends>>)
SaveTimes(r) ==
    LET starts == calls[r].value[1]  ends == calls[r].value[2] IN
    /\ Running(r, "times") /\ End(r)
    /\ fixture' = [fixture EXCEPT !.starts_at = IF starts = None THEN @ ELSE starts,
                                  !.ends_at = IF ends = None THEN @ ELSE ends]
    /\ UNCHANGED <<score, review, now, made, seen>>

(* update_score: at any time, of any fixture.                              *)
UpdateScore(r, s) == Begin(r, "score", None, s)
SaveScore(r) ==
    /\ Running(r, "score") /\ End(r)
    /\ score' = calls[r].value
    /\ UNCHANGED <<fixture, review, now, made, seen>>

(* complete_fixture: a fixture read without an end ends now.               *)
Complete(r) == Begin(r, "complete", None, fixture.ends_at)
SaveCompleted(r) ==
    LET ends == calls[r].value IN
    /\ Running(r, "complete") /\ End(r)
    /\ fixture' = [fixture EXCEPT !.status = "COMPLETED",
                                  !.ends_at = IF ends = None THEN now ELSE ends]
    /\ UNCHANGED <<score, review, now, made, seen>>

-----------------------------------------------------------------------------
(* submit_result_verification: a new row, or the old one pending again.    *)
ReviewerKept(old, actor) ==
    [status |-> "PENDING", submitted_by |-> actor,
     reviewed_by |-> IF old = None THEN None ELSE old.reviewed_by]
Submitted(old, actor) ==
    [status |-> "PENDING", submitted_by |-> actor, reviewed_by |-> None]

Submit(r, u) == fixture.status = "COMPLETED" /\ Begin(r, "submit", u, None)
SaveSubmission(r) ==
    /\ Running(r, "submit") /\ End(r)
    /\ review' = Submitted(review, calls[r].actor)
    /\ UNCHANGED <<fixture, score, now, made, seen>>

(* verify_result and reject_result: whatever the status of the row.        *)
Decide(r, u, d) == review # None /\ Begin(r, "decide", u, d)
SaveDecision(r) ==
    /\ Running(r, "decide") /\ End(r)
    /\ review' = [review EXCEPT !.status = calls[r].value,
                                !.reviewed_by = calls[r].actor]
    /\ seen' = score
    /\ UNCHANGED <<fixture, score, now, made>>

Tick == now < MaxTime /\ now' = now + 1
        /\ UNCHANGED <<fixture, score, review, calls, made, seen>>

-----------------------------------------------------------------------------
Data == \E r \in Requests :
    \/ \E s \in Open : SetStatus(r, s)
    \/ \E s, e \in Times \cup {None} : Reschedule(r, s, e)
    \/ \E s \in Scores : UpdateScore(r, s)
    \/ Complete(r)
Reviewing == \E r \in Requests, u \in Staff :
    Submit(r, u) \/ \E d \in Decisions : Decide(r, u, d)
Saving == \E r \in Requests :
    \/ SaveStatus(r) \/ SaveTimes(r) \/ SaveScore(r) \/ SaveCompleted(r)
    \/ SaveSubmission(r) \/ SaveDecision(r)

Next == Data \/ Reviewing \/ Saving \/ Tick

Spec == Init /\ [][Next]_vars

-----------------------------------------------------------------------------
(* Through every order of submissions, resubmissions and decisions, a      *)
(* result names a reviewer exactly if its last save was a decision.        *)
ReviewNamesReviewer ==
    review # None => (review.status = "PENDING" <=> review.reviewed_by = None)

(* A verified score is the score that was verified.                        *)
VerifiedScoreStands ==
    review # None /\ review.status = "VERIFIED" => score = seen

(* The review is "a lightweight, independent check".                       *)
ReviewIsIndependent == review # None => review.reviewed_by # review.submitted_by

(* A completed fixture has not ended before it began.                      *)
EndsAfterStart == EndsAfter(fixture.starts_at, fixture.ends_at)
=============================================================================
