---------------------------- MODULE FeeSchedules ----------------------------
(***************************************************************************)
(* Fee schedules of the markets and the fees recorded under them.  A       *)
(* schedule is drafted by one person and activated and retired by others;  *)
(* a market without an active schedule of its own uses the global one.     *)
(*                                                                         *)
(* activate locks its own draft only: it looks for another active schedule *)
(* of the scope before it writes, and two activations may both find none.  *)
(***************************************************************************)
EXTENDS Integers, FiniteSets, FiniteSetsExt

CONSTANTS
    Staff,
    Market,       \* the market; its scope is itself, that of the default None
    Rates,        \* basis points of the one rate that is followed
    Times,        \* a set of naturals: the instants a schedule may start at
    Trades,       \* executions that charge a fee, by their references
    Requests,     \* concurrent activations
    MaxSchedules,
    None

Ids == 1..MaxSchedules
Scopes == {None, Market}
Statuses == {"DRAFT", "ACTIVE", "RETIRED"}
Schedules == [scope : Scopes, version : Ids, status : Statuses, rate : Rates,
              from : Times, by : Staff, activatedBy : Staff \cup {None}]
FeeEntries == [schedule : Ids \cup {None}, version : Ids \cup {0}, rate : Rates \cup {0}]

VARIABLES
    schedules,  \* rows, None before creation
    now,        \* the clock
    fees,       \* fee ledger entry of each trade, or None
    calls,      \* the draft an activation has locked, and its staff member
    refused,    \* trades whose replay found other values
    overlapped  \* scopes in which two activations ran at a time

vars == <<schedules, now, fees, calls, refused, overlapped>>

Idle == [id |-> None, by |-> None]
Created == {i \in Ids : schedules[i] # None}
InScope(s, status) == {i \in Created : schedules[i].scope = s /\ schedules[i].status = status}

TypeOK ==
    /\ schedules \in [Ids -> Schedules \cup {None}]
    /\ now \in Times /\ refused \subseteq Trades /\ overlapped \subseteq Scopes
    /\ fees \in [Trades -> FeeEntries \cup {None}]
    /\ calls \in [Requests -> [id : Ids \cup {None}, by : Staff \cup {None}]]

Init ==
    /\ schedules = [i \in Ids |-> None] /\ now = Min(Times)
    /\ fees = [t \in Trades |-> None] /\ refused = {} /\ overlapped = {}
    /\ calls = [c \in Requests |-> Idle]

-----------------------------------------------------------------------------
NextVersion(s) ==
    Max({0} \cup {schedules[i].version : i \in {j \in Created : schedules[j].scope = s}}) + 1

(* create_draft.  Two drafts with one version: the second is refused.      *)
CreateDraft(u, s, rate, from) ==
    /\ Created # Ids
    /\ LET i == Min(Ids \ Created) IN
       schedules' = [schedules EXCEPT ![i] =
           [scope |-> s, version |-> NextVersion(s), status |-> "DRAFT", rate |-> rate,
            from |-> from, by |-> u, activatedBy |-> None]]
    /\ UNCHANGED <<now, fees, calls, refused, overlapped>>

Locked(i) == \E c \in Requests : calls[c].id = i
Conflict(s) == InScope(s, "ACTIVE") # {}
MayActivate(i, u) == schedules[i].status = "DRAFT" /\ schedules[i].by # u

(* activate, up to the search for an active schedule of the scope.         *)
Activate(c, i, u) ==
    LET s == schedules[i].scope IN
    /\ i \in Created /\ calls[c] = Idle /\ ~Locked(i)
    /\ MayActivate(i, u) /\ ~Conflict(s)
    /\ calls' = [calls EXCEPT ![c] = [id |-> i, by |-> u]]
    /\ overlapped' = overlapped \cup
           {x \in {s} : \E d \in Requests : calls[d] # Idle /\ schedules[calls[d].id].scope = s}
    /\ UNCHANGED <<schedules, now, fees, refused>>

(* The rest of activate: the row becomes ACTIVE.                           *)
Activated(c) ==
    /\ calls[c] # Idle /\ calls' = [calls EXCEPT ![c] = Idle]
    /\ schedules' = [schedules EXCEPT ![calls[c].id].status = "ACTIVE",
                                      ![calls[c].id].activatedBy = calls[c].by]
    /\ UNCHANGED <<now, fees, refused, overlapped>>

Retire(i, u) ==
    /\ i \in Created /\ schedules[i].status = "ACTIVE" /\ schedules[i].by # u
    /\ schedules' = [schedules EXCEPT ![i].status = "RETIRED"]
    /\ UNCHANGED <<now, fees, calls, refused, overlapped>>

-----------------------------------------------------------------------------
(* effective_schedule: the market's own before the default, the latest     *)
(* start and then the highest version.                                     *)
Started(s) == {i \in InScope(s, "ACTIVE") : schedules[i].from <= now}
Latest(is) == CHOOSE i \in is : \A j \in is :
    \/ schedules[j].from < schedules[i].from
    \/ schedules[j].from = schedules[i].from /\ schedules[j].version <= schedules[i].version
EffectiveSchedule ==
    IF Started(Market) # {} THEN Latest(Started(Market))
    ELSE IF Started(None) # {} THEN Latest(Started(None)) ELSE None

(* rates: without a schedule nothing is charged.                           *)
Fee == LET i == EffectiveSchedule IN
    [schedule |-> i, version |-> IF i = None THEN 0 ELSE schedules[i].version,
     rate |-> IF i = None THEN 0 ELSE schedules[i].rate]

(* record_fee: a replay must find the values of the first record.          *)
RecordFee(t) ==
    /\ IF fees[t] = None THEN fees' = [fees EXCEPT ![t] = Fee] /\ UNCHANGED refused
       ELSE /\ refused' = IF fees[t] = Fee THEN refused ELSE refused \cup {t}
            /\ UNCHANGED fees
    /\ UNCHANGED <<schedules, now, calls, overlapped>>

Tick == /\ now' \in {x \in Times : x > now}
        /\ UNCHANGED <<schedules, fees, calls, refused, overlapped>>

Next ==
    \/ \E u \in Staff, s \in Scopes, r \in Rates, x \in Times : CreateDraft(u, s, r, x)
    \/ \E i \in Ids, u \in Staff : Retire(i, u) \/ \E c \in Requests : Activate(c, i, u)
    \/ \E c \in Requests : Activated(c)
    \/ \E t \in Trades : RecordFee(t)
    \/ Tick

Spec == Init /\ [][Next]_vars

-----------------------------------------------------------------------------
(* What was charged stays explained: the entry of a trade carries version  *)
(* and rate of a schedule that a second person activated, whatever is      *)
(* drafted, activated or retired later; and a scope has one active         *)
(* schedule, unless two activations of the scope ran at a time.            *)
FeesExplained ==
    /\ \A t \in Trades : fees[t] # None =>
        IF fees[t].schedule = None THEN fees[t].rate = 0
        ELSE LET s == schedules[fees[t].schedule] IN
             /\ s.status # "DRAFT" /\ s.activatedBy \in Staff \ {s.by}
             /\ fees[t].rate = s.rate /\ fees[t].version = s.version
    /\ \A s \in Scopes \ overlapped : Cardinality(InScope(s, "ACTIVE")) <= 1

(* A scope never has two active schedules.                                 *)
OneActivePerScope == \A s \in Scopes : Cardinality(InScope(s, "ACTIVE")) <= 1
=============================================================================
