----------------------------- MODULE Onboarding -----------------------------
(***************************************************************************)
(* The guided setup of one user: country, favourite sports, competitions   *)
(* and clubs.  A request answers a step, skips one, completes the setup or *)
(* resumes it.                                                             *)
(*                                                                         *)
(* No request runs in a transaction and no row is locked: validation, the  *)
(* deletion of the old favourites, the creation of the new ones, the read  *)
(* of the progress row and each of its saves are steps of their own, and   *)
(* requests of the same user (two tabs, a repeated submission) interleave  *)
(* between them.  A save names the columns it writes.                      *)
(***************************************************************************)
EXTENDS Naturals, Sequences, SequencesExt, FiniteSetsExt

CONSTANTS
    Sports, Competitions, Clubs,  \* the catalogue
    SportOf,         \* competition |-> its sport
    CompetitionOf,   \* club |-> its competition, or None
    Requests,        \* concurrent requests of the user
    MaxCalls,        \* bound on the requests made
    None

STEP_ORDER == <<"COUNTRY", "SPORTS", "COMPETITIONS", "CLUBS">>
Step == ToSet(STEP_ORDER) \cup {"COMPLETED"}
Before(s) == {t \in ToSet(STEP_ORDER) : s = "COMPLETED"
                  \/ SelectInSeq(STEP_ORDER, LAMBDA x : x = t)
                         < SelectInSeq(STEP_ORDER, LAMBDA x : x = s)}

(* What the user can choose at a step; the country is a single choice.     *)
Items == [COUNTRY |-> {}, SPORTS |-> Sports, COMPETITIONS |-> Competitions,
          CLUBS |-> Clubs]

VARIABLES
    row,         \* the progress row
    favourites,  \* step |-> rows of its preference table
    calls,       \* what each request is doing
    made,        \* number of requests made
    given,       \* history: steps answered or skipped
    chosen       \* history: step |-> the selections submitted

vars == <<row, favourites, calls, made, given, chosen>>

Idle == [op |-> None, step |-> None, items |-> {}, row |-> None]
Rows == [step : Step, completed : BOOLEAN, skipped : SUBSET ToSet(STEP_ORDER)]

TypeOK ==
    /\ row \in Rows
    /\ \A s \in DOMAIN Items : favourites[s] \subseteq Items[s]
    /\ \A r \in Requests : calls[r].row \in Rows \cup {None}
    /\ made \in 0..MaxCalls /\ given \subseteq DOMAIN Items

(* The row is created with the first request.                              *)
Init ==
    /\ row = [step |-> "COUNTRY", completed |-> FALSE, skipped |-> {}]
    /\ favourites = [s \in DOMAIN Items |-> {}]
    /\ calls = [r \in Requests |-> Idle]
    /\ made = 0 /\ given = {} /\ chosen = [s \in DOMAIN Items |-> {{}}]

Running(r, op) == calls[r].op = op
To(r, op) == calls' = [calls EXCEPT ![r].op = op]
End(r) == calls' = [calls EXCEPT ![r] = Idle]

-----------------------------------------------------------------------------
(* The serializers: a competition belongs to a favourite sport, a club to  *)
(* a favourite competition if it is in one at all.                         *)
Allowed(s, items) ==
    CASE s = "COMPETITIONS" -> \A k \in items : SportOf[k] \in favourites["SPORTS"]
      [] s = "CLUBS" -> \A c \in items : CompetitionOf[c] # None
                            => CompetitionOf[c] \in favourites["COMPETITIONS"]
      [] OTHER -> TRUE

Submit(r, s, items) ==
    /\ Running(r, None) /\ made < MaxCalls /\ made' = made + 1
    /\ Allowed(s, items)
    /\ calls' = [calls EXCEPT ![r] = [Idle EXCEPT !.op = "delete", !.step = s,
                                                  !.items = items]]
    /\ chosen' = [chosen EXCEPT ![s] = @ \cup {items}]
    /\ UNCHANGED <<row, favourites, given>>

(* select_...: the old favourites go, then the new ones come.              *)
DeleteOld(r) ==
    /\ Running(r, "delete") /\ To(r, "create")
    /\ favourites' = [favourites EXCEPT ![calls[r].step] = {}]
    /\ UNCHANGED <<row, made, given, chosen>>

(* bulk_create: all rows, or an error when one of them is there already.   *)
CreateNew(r) ==
    LET s == calls[r].step  clash == calls[r].items \cap favourites[s] # {} IN
    /\ Running(r, "create")
    /\ IF clash THEN End(r) /\ UNCHANGED <<favourites, given>>
       ELSE /\ To(r, "advance")
            /\ favourites' = [favourites EXCEPT ![s] = @ \cup calls[r].items]
            /\ given' = given \cup {s}
    /\ UNCHANGED <<row, made, chosen>>

Skip(r, s) ==
    /\ Running(r, None) /\ made < MaxCalls /\ made' = made + 1
    /\ calls' = [calls EXCEPT ![r] = [Idle EXCEPT !.op = "skip", !.step = s,
                                                  !.row = row]]
    /\ UNCHANGED <<row, favourites, given, chosen>>

(* skip_step: the list of the row that was read, with the step added.      *)
SaveSkip(r) ==
    /\ Running(r, "skip")
    /\ given' = given \cup {calls[r].step}
    /\ row' = IF calls[r].step \in calls[r].row.skipped THEN row
              ELSE [row EXCEPT !.skipped = calls[r].row.skipped \cup {calls[r].step}]
    /\ To(r, "save")
    /\ UNCHANGED <<favourites, made, chosen>>

(* The row that an answered step advances.                                 *)
ReadRow(r) ==
    /\ Running(r, "advance")
    /\ calls' = [calls EXCEPT ![r].op = "save", ![r].row = row]
    /\ UNCHANGED <<row, favourites, made, given, chosen>>

(* advance_step, on the row as it was read.                                *)
AdvancesAlways(old, s) == ~old.completed /\ old.step # "COMPLETED"
Advances(old, s) == ~old.completed /\ old.step = s
NextStep(s) ==
    LET i == SelectInSeq(STEP_ORDER, LAMBDA x : x = s) IN
    IF i < Len(STEP_ORDER) THEN STEP_ORDER[i + 1] ELSE "COMPLETED"

AdvanceStep(r) ==
    /\ Running(r, "save") /\ End(r)
    /\ row' = IF ~Advances(calls[r].row, calls[r].step) THEN row
              ELSE [row EXCEPT !.step = NextStep(calls[r].row.step)]
    /\ UNCHANGED <<favourites, made, given, chosen>>

(* complete_onboarding and resume_onboarding.                              *)
Finish(r) ==
    /\ Running(r, None) /\ made < MaxCalls /\ made' = made + 1
    /\ calls' = [calls EXCEPT ![r].op = IF row.completed THEN None ELSE "complete"]
    /\ UNCHANGED <<row, favourites, given, chosen>>

SaveCompleted(r) ==
    /\ Running(r, "complete") /\ End(r)
    /\ row' = [row EXCEPT !.completed = TRUE, !.step = "COMPLETED"]
    /\ UNCHANGED <<favourites, made, given, chosen>>

Resume(r) ==
    /\ Running(r, None) /\ made < MaxCalls /\ made' = made + 1
    /\ calls' = [calls EXCEPT ![r].op = IF row.completed THEN "resume" ELSE None]
    /\ UNCHANGED <<row, favourites, given, chosen>>

SaveResumed(r) ==
    /\ Running(r, "resume") /\ End(r)
    /\ row' = [row EXCEPT !.completed = FALSE, !.step = "COUNTRY"]
    /\ UNCHANGED <<favourites, made, given, chosen>>

(* The profile page replaces favourites without the checks of a step and   *)
(* in one transaction; an empty selection leaves a table as it is.         *)
FromProfile(chosenSports, chosenCompetitions) ==
    /\ made < MaxCalls /\ made' = made + 1
    /\ favourites' = [favourites EXCEPT
           !["SPORTS"] = IF chosenSports = {} THEN @ ELSE chosenSports,
           !["COMPETITIONS"] = IF chosenCompetitions = {} THEN @
                               ELSE chosenCompetitions]
    /\ chosen' = [chosen EXCEPT !["SPORTS"] = @ \cup {chosenSports},
                                !["COMPETITIONS"] = @ \cup {chosenCompetitions}]
    /\ UNCHANGED <<row, calls, given>>

-----------------------------------------------------------------------------
Select == \E r \in Requests, s \in DOMAIN Items :
              \E items \in SUBSET Items[s] : Submit(r, s, items)
Skipping == \E r \in Requests, s \in DOMAIN Items : Skip(r, s)
Work == \E r \in Requests :
    \/ DeleteOld(r) \/ CreateNew(r) \/ SaveSkip(r) \/ ReadRow(r)
    \/ AdvanceStep(r) \/ SaveCompleted(r) \/ SaveResumed(r)
Ending == \E r \in Requests : Finish(r) \/ Resume(r)
Profile == \E ss \in SUBSET Sports, ks \in SUBSET Competitions : FromProfile(ss, ks)

Next == Select \/ Skipping \/ Work \/ Ending \/ Profile

Spec == Init /\ [][Next]_vars

-----------------------------------------------------------------------------
(* advance_step is replay-safe: however submissions repeat and overlap, an *)
(* unfinished setup has passed no step that the user did not answer or     *)
(* skip.                                                                   *)
PassedStepsWereAnswered == ~row.completed => Before(row.step) \subseteq given

(* The progress of a completed setup is its end.                           *)
CompletedIsAtTheEnd == row.completed => row.step = "COMPLETED"

(* The status lists every step that was skipped.                           *)
SkipsAreKept ==
    [][\A r \in Requests : SaveSkip(r) => row.skipped \subseteq row'.skipped]_vars

(* Once no request runs, the favourites are one of the selections made.    *)
FavouritesAreASelection ==
    (\A r \in Requests : calls[r] = Idle) =>
        \A s \in DOMAIN Items : favourites[s] \in chosen[s]

(* Every favourite competition is of a favourite sport.                    *)
CompetitionsFitSports ==
    \A k \in favourites["COMPETITIONS"] : SportOf[k] \in favourites["SPORTS"]
=============================================================================
