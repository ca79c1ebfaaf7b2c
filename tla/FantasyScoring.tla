---------------------------- MODULE FantasyScoring ----------------------------
(***************************************************************************)
(* One fantasy gameweek: its states, the command that a scheduler runs to  *)
(* advance them, the statistics of its fixtures, and the scoring of the    *)
(* players and of one team.                                                *)
(*                                                                         *)
(* Scoring is one transaction, but it locks nothing: it reads what it      *)
(* needs and writes every record anew, so a scoring is a step that reads   *)
(* and a step that writes. Three actors run it: the task a feed ingestion  *)
(* dispatches, the administrators, and the command, which reads every      *)
(* gameweek first and writes its states afterwards.                        *)
(***************************************************************************)
EXTENDS Integers, FiniteSetsExt

CONSTANTS
    Captain, Vice,     \* the starters of the team
    MaxValue,          \* bound on a statistic and on a corrected score
    MaxChanges,        \* bound on ingested statistics and corrections
    MaxRetries,        \* of the scoring task
    Penalty,           \* the transfer penalty of the team in this gameweek
    Multiplier,        \* FantasyCompetition.captain_multiplier
    None

Players == {Captain, Vice}
Values == 0..MaxValue
Statuses == {"DRAFT", "OPEN", "LOCKED", "LIVE", "SCORING", "FINALIZED"}
Fixtures == {"SCHEDULED", "LIVE", "COMPLETED"}
Records == [base : Values, total : Values]
NoScore == -2 * Penalty

VARIABLES
    status,      \* of the gameweek
    time,        \* 0 before starts_at, 1 before deadline_at, 2 after it
    fixture,     \* status of the fixture
    statistics,  \* MatchPlayerStatistic of a player, None before there is one
    corrected,   \* new_value of the latest correction, or None
    points,      \* FantasyPlayerGameweekPoints, None before the first scoring
    score,       \* FantasyTeamGameweekScore
    pending,     \* the queued scoring tasks, each by its retries so far
    lost,        \* a statistic has no task: none was queued, or it was skipped or dropped
    approved,    \* FantasyStatisticReview of the captain
    worker,      \* what each actor does and has read
    overlapped,  \* something a scoring reads was written while it ran
    changes      \* ingested statistics and corrections

vars == <<status, time, fixture, statistics, corrected, points, score,
          pending, lost, approved, worker, overlapped, changes>>
data == <<statistics, corrected, points, score>>

Actors == {"task", "admin", "command"}
Idle == [job |-> "idle"]
Scoring(a) == worker[a].job \in {"task", "recalculate", "finalize", "correct"}

TypeOK ==
    /\ status \in Statuses /\ time \in 0..2 /\ fixture \in Fixtures
    /\ statistics \in [Players -> Values \cup {None}]
    /\ corrected \in [Players -> Values \cup {None}]
    /\ points \in [Players -> Records \cup {None}]
    /\ score \in Int
    /\ pending \subseteq 0..MaxRetries
    /\ {lost, approved, overlapped} \subseteq BOOLEAN
    /\ DOMAIN worker = Actors /\ changes \in 0..MaxChanges

Init ==
    /\ status = "DRAFT" /\ time = 0 /\ fixture = "SCHEDULED"
    /\ statistics = [p \in Players |-> None] /\ corrected = [p \in Players |-> None]
    /\ points = [p \in Players |-> None] /\ score = NoScore
    /\ pending = {} /\ lost = FALSE /\ approved = FALSE /\ overlapped = FALSE
    /\ worker = [a \in Actors |-> Idle] /\ changes = 0

-----------------------------------------------------------------------------
(* The scoring of a player: the rule gives one point for each unit; the    *)
(* latest correction replaces the sum.                                     *)
Base(s, p) == IF s[p] = None THEN 0 ELSE s[p]
BaseOnly(s, c, p) == Base(s, p)
Corrected(s, c, p) == IF c[p] = None THEN Base(s, p) ELSE c[p]

(* The vice captain stands in for a captain who did not take part.         *)
Participated(s, p) == s[p] # None
EffectiveCaptain(s) ==
    IF ~Participated(s, Captain) /\ Participated(s, Vice) THEN Vice ELSE Captain

TeamTotal(s, c) ==
    MapThenSumSet(LAMBDA p : Corrected(s, c, p), Players)
      + Corrected(s, c, EffectiveCaptain(s)) * (Multiplier - 1) - Penalty

(* score_gameweek, its reads and its writes.                               *)
Read(a, job, n) == worker' = [worker EXCEPT ![a] =
    [job |-> job, retries |-> n, statistics |-> statistics, corrected |-> corrected,
     advance |-> job = "recalculate" /\ status \in {"LOCKED", "LIVE"}, edit |-> None]]

Write(a) ==
    LET w == worker[a] IN
    /\ points' = [p \in Players |-> [base |-> Base(w.statistics, p),
                                    total |-> Corrected(w.statistics, w.corrected, p)]]
    /\ score' = TeamTotal(w.statistics, w.corrected)

Change == changes < MaxChanges /\ changes' = changes + 1

(* A change of what another scoring has read.                              *)
Overlaps(a) == overlapped' = (overlapped \/ \E b \in Actors \ {a} : Scoring(b))

-----------------------------------------------------------------------------
Tick ==
    /\ time < 2 /\ time' = time + 1
    /\ UNCHANGED <<status, fixture, data, pending, lost, worker, approved, overlapped, changes>>

PlayFixture ==
    /\ \/ fixture = "SCHEDULED" /\ time = 2 /\ fixture' = "LIVE"
       \/ fixture = "LIVE" /\ fixture' = "COMPLETED"
    /\ UNCHANGED <<status, time, data, pending, lost, worker, approved, overlapped, changes>>

(* A feed ingestion stores a statistic and, once it is committed, queues   *)
(* the task; the ingestion stands when the queue cannot be reached.        *)
Ingest(p, v) ==
    /\ fixture # "SCHEDULED" /\ v # statistics[p]
    /\ statistics' = [statistics EXCEPT ![p] = v]
    /\ \/ pending' = pending \cup {0} /\ lost' = lost
       \/ lost' = TRUE /\ pending' = pending
    /\ Overlaps("feed") /\ Change
    /\ UNCHANGED <<status, time, fixture, corrected, points, score, worker, approved>>

(* score_affected_gameweeks: a finalized gameweek is skipped.              *)
TaskSkipsLate(s) == s \notin {"LIVE", "SCORING"}
TaskSkips(s) == s = "FINALIZED"
TaskStart ==
    \E n \in pending :
       /\ worker["task"] = Idle
       /\ pending' = pending \ {n}
       /\ IF TaskSkips(status) THEN worker' = worker ELSE Read("task", "task", n)
       /\ lost' = (lost \/ status = "FINALIZED")
       /\ UNCHANGED <<status, time, fixture, data, approved, overlapped, changes>>

TaskDone ==
    /\ worker["task"].job = "task"
    /\ Write("task") /\ Overlaps("task")
    /\ worker' = [worker EXCEPT !["task"] = Idle]
    /\ UNCHANGED <<status, time, fixture, statistics, corrected, pending, lost, changes, approved>>

(* A task that fails before it has written is retried, up to max_retries.  *)
TaskRetry ==
    /\ worker["task"].job = "task" /\ worker["task"].retries < MaxRetries
    /\ pending' = pending \cup {worker["task"].retries + 1}
    /\ worker' = [worker EXCEPT !["task"] = Idle]
    /\ UNCHANGED <<status, time, fixture, data, lost, approved, overlapped, changes>>

(* The exception of its last retry ends it; so does, at any time, the end  *)
(* of the worker, which has acknowledged it before it ran.                 *)
TaskDropped ==
    /\ worker["task"].job = "task"
    /\ lost' = TRUE /\ worker' = [worker EXCEPT !["task"] = Idle]
    /\ UNCHANGED <<status, time, fixture, data, pending, approved, overlapped, changes>>

-----------------------------------------------------------------------------
(* GameweekViewSet.transition.                                             *)
Allowed == [s \in Statuses |->
    CASE s = "DRAFT" -> {"OPEN"} [] s = "OPEN" -> {"LOCKED"}
      [] s = "LOCKED" -> {"LIVE", "SCORING"} [] s = "LIVE" -> {"SCORING"}
      [] s = "SCORING" -> {"FINALIZED", "LIVE"} [] s = "FINALIZED" -> {"SCORING"}]

Transition(target) ==
    /\ worker["admin"] = Idle /\ target \in Allowed[status]
    /\ status' = target
    /\ UNCHANGED <<time, fixture, data, pending, lost, worker, approved, overlapped, changes>>

Recalculate ==
    /\ worker["admin"] = Idle /\ Read("admin", "recalculate", 0)
    /\ UNCHANGED <<status, time, fixture, data, pending, lost, approved, overlapped, changes>>

Finalize ==
    /\ worker["admin"] = Idle /\ status = "SCORING" /\ fixture = "COMPLETED"
    /\ Read("admin", "finalize", 0)
    /\ UNCHANGED <<status, time, fixture, data, pending, lost, approved, overlapped, changes>>

(* CorrectionViewSet and MatchStatisticViewSet.correct, whatever the state  *)
(* of the gameweek: one transaction edits a record and scores with it.     *)
Edit(statistics2, corrected2, edit) ==
    /\ worker["admin"] = Idle
    /\ worker' = [worker EXCEPT !["admin"] =
          [job |-> "correct", retries |-> 0, statistics |-> statistics2, corrected |-> corrected2,
           advance |-> FALSE, edit |-> edit]]
    /\ Change
    /\ UNCHANGED <<status, time, fixture, data, pending, lost, approved, overlapped>>

CreateCorrection(p, v) ==
    /\ points[p] # None
    /\ Edit(statistics, [corrected EXCEPT ![p] = v], None)

CorrectStatistic(p, v) ==
    /\ statistics[p] # None /\ v # statistics[p]
    /\ Edit([statistics EXCEPT ![p] = v], corrected, [player |-> p, value |-> v])

(* create stores a statistic and scores nothing; approve keeps no value.   *)
CreateStatistic(p, v) ==
    /\ statistics[p] = None /\ Change
    /\ statistics' = [statistics EXCEPT ![p] = v] /\ lost' = TRUE
    /\ Overlaps("feed")
    /\ UNCHANGED <<status, time, fixture, corrected, points, score, pending,
                   approved, worker>>

Approve ==
    /\ ~approved /\ approved' = TRUE
    /\ UNCHANGED <<status, time, fixture, data, pending, lost, worker, overlapped, changes>>

(* The end of the request: a state is written from what it read.           *)
StatusAfter(w) ==
    CASE w.job = "finalize" -> "FINALIZED"
      [] w.advance -> "SCORING"
      [] OTHER -> status

AdminDone ==
    /\ worker["admin"].job \in {"recalculate", "finalize", "correct"}
    /\ Write("admin") /\ Overlaps("admin")
    /\ status' = StatusAfter(worker["admin"])
    /\ worker' = [worker EXCEPT !["admin"] = Idle]
    /\ corrected' = worker["admin"].corrected
    /\ statistics' = LET e == worker["admin"].edit IN
          IF e = None THEN statistics ELSE [statistics EXCEPT ![e.player] = e.value]
    /\ UNCHANGED <<time, fixture, pending, lost, approved, changes>>

-----------------------------------------------------------------------------
(* transition_fantasy_gameweeks: the targets first, the writes after.      *)
TargetLateLock(s) ==
    CASE s = "DRAFT" /\ time = 1 -> "OPEN"
      [] s = "LOCKED" /\ time > 0 -> "LIVE"
      [] s = "LIVE" /\ fixture = "COMPLETED" -> "SCORING"
      [] OTHER -> None
Target(s) ==
    CASE s = "DRAFT" /\ time = 1 -> "OPEN"
      [] s = "OPEN" /\ time = 2 -> "LOCKED"
      [] s = "LOCKED" /\ (time > 0 \/ fixture = "LIVE") -> "LIVE"
      [] s = "LIVE" /\ fixture = "COMPLETED" -> "SCORING"
      [] OTHER -> None

CommandRead ==
    /\ worker["command"] = Idle /\ Target(status) # None
    /\ worker' = [worker EXCEPT !["command"] = [job |-> "advance", target |-> Target(status)]]
    /\ UNCHANGED <<status, time, fixture, data, pending, lost, approved, overlapped, changes>>

CommandWrite ==
    /\ worker["command"].job = "advance"
    /\ status' = worker["command"].target
    /\ worker' = [worker EXCEPT !["command"] = Idle]
    /\ UNCHANGED <<time, fixture, data, pending, lost, approved, overlapped, changes>>

Task == TaskStart \/ TaskDone
Command == CommandRead \/ CommandWrite

Next ==
    \/ Tick \/ PlayFixture \/ Task \/ TaskRetry \/ TaskDropped \/ Command
    \/ Recalculate \/ Finalize \/ AdminDone
    \/ \E s \in Statuses : Transition(s)
    \/ \E p \in Players, v \in Values :
          \/ Ingest(p, v) \/ CreateStatistic(p, v)
          \/ CreateCorrection(p, v) \/ CorrectStatistic(p, v)
    \/ Approve

(* The command runs every minute, and a worker that lives goes on with its *)
(* task. Changes and retries are finitely many, so it is not for ever a    *)
(* retry that happens.                                                     *)
Fairness == WF_vars(Command) /\ WF_vars(TaskStart) /\ WF_vars(TaskDone) /\ WF_vars(AdminDone)
Spec == Init /\ [][Next]_vars /\ Fairness

-----------------------------------------------------------------------------
(* The statistics of a player are in his points.                           *)
IsScored(p) == statistics[p] # None => points[p] # None /\ points[p].base = statistics[p]
AllScored == \A p \in Players : IsScored(p)

(* When no scoring runs and none has overlapped a change, every player has *)
(* the points the rule gives, or those of his latest correction, and the   *)
(* team has them with one captain's bonus and one penalty: repeating a     *)
(* scoring adds nothing. If moreover no task is queued and none was lost,  *)
(* the points and the score are those of the statistics there are, with    *)
(* the bonus for the player they call captain.                             *)
ScoresExplained ==
    (~overlapped /\ \A a \in Actors : ~Scoring(a)) =>
        /\ score # NoScore =>
              /\ \A p \in Players :
                    points[p].total = IF corrected[p] = None THEN points[p].base ELSE corrected[p]
              /\ \E bonus \in Players :
                    score = MapThenSumSet(LAMBDA p : points[p].total, Players)
                              + points[bonus].total * (Multiplier - 1) - Penalty
        /\ pending = {} /\ ~lost =>
              /\ AllScored
              /\ score # NoScore => score = TeamTotal(statistics, corrected)

(* A statistic that arrives while the gameweek is open to scoring reaches  *)
(* the points, however often its task is retried, unless no task was       *)
(* queued for it or its task was dropped, another scoring wrote over it,   *)
(* or the gameweek is finalized.                                           *)
StatisticsAreScored ==
    ~AllScored ~> (AllScored \/ lost \/ overlapped \/ status = "FINALIZED")

(* A gameweek past its deadline does not stay open for transfers.          *)
IsLate == time = 2 /\ status = "OPEN"
DeadlineLocks == IsLate ~> ~IsLate

(* The task leaves a finalized gameweek to the administrators.             *)
TaskKeepsFinal == [][status = "FINALIZED" /\ worker["admin"] = worker'["admin"]
                        => score' = score]_vars

(* A gameweek is finalized when its fixtures are over and it was scored.   *)
FinalIsComplete ==
    [][status # "FINALIZED" /\ status' = "FINALIZED" => fixture = "COMPLETED" /\ score' # NoScore]_vars

(* The last correction of a player is kept by every later scoring.         *)
CorrectionsKept ==
    (\A a \in Actors : ~Scoring(a)) =>
        \A p \in Players : corrected[p] # None => points[p].total = corrected[p]
=============================================================================
