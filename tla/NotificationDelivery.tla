-------------------------- MODULE NotificationDelivery --------------------------
(***************************************************************************)
(* The deliveries of one notification: what the policy creates for it, and *)
(* the runs of process_notification_deliveries that send them.             *)
(*                                                                         *)
(* A run marks the rows it takes in one transaction, then sends each and   *)
(* records the outcome in another; it may crash between any two of them.   *)
(* Rows left in PROCESSING for fifteen minutes are taken by a later run,   *)
(* whether the first one is dead or only slow.                             *)
(*                                                                         *)
(* Times are relative: wait counts down to next_attempt_at, age counts up  *)
(* from last_attempt_at.                                                   *)
(***************************************************************************)
EXTENDS Integers, FiniteSetsExt

CONSTANTS
    Runs,          \* runs of the command at one time
    MaxAttempts,   \* max_attempts
    StaleAfter,    \* age at which a PROCESSING row is taken again
    MaxWait,       \* longest wait between attempts
    MaxCrashes,    \* bound on the crashes of runs
    MaxChanges,    \* bound on the changes of the recipient
    None

Channels == {"IN_APP", "EMAIL"}
Terminal == {"DELIVERED", "FAILED", "CANCELLED"}
Rows == [status : {"PENDING", "DEFERRED", "PROCESSING"} \cup Terminal,
         attempts : 0..MaxAttempts, wait : 0..MaxWait, age : 0..StaleAfter]

VARIABLES
    mandatory,  \* of the notification
    consent,    \* latest EMAIL_NOTIFICATIONS consent
    enabled,    \* UserNotificationPreference of the category and EMAIL
    quiet,      \* the recipient is inside enabled quiet hours
    created,    \* the notification exists
    delivery,   \* NotificationDelivery of each channel, or None
    sent,       \* messages that left, per channel
    alerted,    \* channels whose failure was reported to the operators
    run,        \* rows a run has still to send, and the one it is sending
    slow,       \* a row was taken while its first run was still alive
    crashes, changes

vars == <<mandatory, consent, enabled, quiet, created, delivery, sent, alerted,
          run, slow, crashes, changes>>
recipient == <<mandatory, consent, enabled, quiet>>

Idle == [rows |-> {}, now |-> None, outcome |-> None, alert |-> FALSE]

TypeOK ==
    /\ {mandatory, consent, enabled, quiet, created, slow} \subseteq BOOLEAN
    /\ delivery \in [Channels -> Rows \cup {None}]
    /\ sent \in [Channels -> 0..MaxAttempts + MaxCrashes + Cardinality(Runs)]
    /\ alerted \subseteq Channels /\ DOMAIN run = Runs
    /\ crashes \in 0..MaxCrashes /\ changes \in 0..MaxChanges

Init ==
    /\ mandatory \in BOOLEAN /\ consent = FALSE /\ enabled = TRUE /\ quiet = FALSE
    /\ created = FALSE /\ delivery = [c \in Channels |-> None]
    /\ sent = [c \in Channels |-> 0] /\ alerted = {}
    /\ run = [r \in Runs |-> Idle] /\ slow = FALSE /\ crashes = 0 /\ changes = 0

-----------------------------------------------------------------------------
(* The recipient changes consent, preference or hours; night falls.        *)
Change(v, new) == changes < MaxChanges /\ changes' = changes + 1 /\ new # v
ChangeRecipient ==
    /\ \E b \in BOOLEAN :
          \/ Change(consent, b) /\ consent' = b /\ UNCHANGED <<enabled, quiet>>
          \/ Change(enabled, b) /\ enabled' = b /\ UNCHANGED <<consent, quiet>>
          \/ Change(quiet, b) /\ quiet' = b /\ UNCHANGED <<consent, enabled>>
    /\ UNCHANGED <<mandatory, created, delivery, sent, alerted, run, slow, crashes>>

(* NotificationPolicyService.channels: push is never used; the inbox takes *)
(* everything; e-mail needs consent and preference unless mandatory.       *)
Uses(c) == c = "IN_APP" \/ mandatory \/ (consent /\ enabled)
Deferred == quiet /\ ~mandatory

(* NotificationService.create; a repeated deduplication key creates none.  *)
Create ==
    /\ ~created /\ created' = TRUE
    /\ delivery' = [c \in Channels |->
          IF Uses(c) THEN [status |-> IF Deferred THEN "DEFERRED" ELSE "PENDING",
                           attempts |-> 0, wait |-> IF Deferred THEN MaxWait ELSE 0, age |-> 0]
                     ELSE None]
    /\ UNCHANGED <<recipient, sent, alerted, run, slow, crashes, changes>>

(* Time passes for every row that waits or is in a run.                    *)
Tick ==
    /\ \E c \in Channels : delivery[c] # None /\
          (delivery[c].wait > 0 \/ (delivery[c].status = "PROCESSING" /\ delivery[c].age < StaleAfter))
    /\ delivery' = [c \in Channels |->
          IF delivery[c] = None THEN None
          ELSE [delivery[c] EXCEPT !.wait = IF @ = 0 THEN 0 ELSE @ - 1,
                  !.age = IF delivery[c].status = "PROCESSING" /\ @ < StaleAfter
                          THEN @ + 1 ELSE @]]
    /\ UNCHANGED <<recipient, created, sent, alerted, run, slow, crashes, changes>>

-----------------------------------------------------------------------------
(* process: stale rows first, then every row that is due.                  *)
NeverStale(c) == FALSE
Stale(c) == delivery[c] # None /\ delivery[c].status = "PROCESSING" /\ delivery[c].age = StaleAfter
Due(c) == \/ delivery[c] # None /\ delivery[c].status \in {"PENDING", "DEFERRED"} /\ delivery[c].wait = 0
          \/ Stale(c)
Taken == {c \in Channels : Due(c)}
Holds(r, c) == c \in run[r].rows \/ run[r].now = c

Process(r) ==
    /\ run[r] = Idle /\ Taken # {}
    /\ run' = [run EXCEPT ![r].rows = Taken]
    /\ delivery' = [c \in Channels |-> IF c \in Taken
          THEN [delivery[c] EXCEPT !.status = "PROCESSING", !.age = 0, !.wait = 0]
          ELSE delivery[c]]
    /\ slow' = (slow \/ \E c \in Taken, o \in Runs : Holds(o, c))
    /\ UNCHANGED <<recipient, created, sent, alerted, crashes, changes>>

(* deliver up to its transaction: an e-mail may fail.                      *)
Send(r, c) ==
    /\ run[r].now = None /\ c \in run[r].rows
    /\ \E outcome \in IF c = "EMAIL" THEN {"DELIVERED", "FAILED"} ELSE {"DELIVERED"} :
          /\ run' = [run EXCEPT ![r].rows = @ \ {c}, ![r].now = c, ![r].outcome = outcome]
          /\ sent' = [sent EXCEPT ![c] = IF outcome = "DELIVERED" THEN @ + 1 ELSE @]
    /\ UNCHANGED <<recipient, created, delivery, alerted, slow, crashes, changes>>

(* The transaction: a delivered row stays, a row that another run has      *)
(* closed as failed refuses the save and ends the whole run.               *)
OpenAlways(c) == TRUE
Open(c) == delivery[c].status \notin Terminal

After(c, outcome) ==
    LET n == delivery[c].attempts + 1 IN
    [delivery[c] EXCEPT !.attempts = n,
        !.status = IF outcome = "DELIVERED" THEN "DELIVERED"
                   ELSE IF n >= MaxAttempts THEN "FAILED" ELSE "PENDING",
        !.wait = IF outcome = "FAILED" /\ n < MaxAttempts THEN Min({2^n, MaxWait}) ELSE 0]

Record(r) ==
    LET c == run[r].now IN
    /\ c # None /\ ~run[r].alert
    /\ IF Open(c)
       THEN /\ delivery' = [delivery EXCEPT ![c] = After(c, run[r].outcome)]
            /\ run' = [run EXCEPT ![r] = IF After(c, run[r].outcome).status = "FAILED"
                  THEN [@ EXCEPT !.alert = TRUE]
                  ELSE [@ EXCEPT !.now = None, !.outcome = None]]
       ELSE /\ delivery' = delivery
            /\ run' = [run EXCEPT ![r] = IF delivery[c].status = "DELIVERED"
                  THEN [@ EXCEPT !.now = None, !.outcome = None] ELSE Idle]
    /\ UNCHANGED <<recipient, created, sent, alerted, slow, crashes, changes>>

(* OperationalAlertService, after the transaction has committed.           *)
Alert(r) ==
    /\ run[r].alert
    /\ alerted' = alerted \cup {run[r].now}
    /\ run' = [run EXCEPT ![r] = [@ EXCEPT !.now = None, !.outcome = None, !.alert = FALSE]]
    /\ UNCHANGED <<recipient, created, delivery, sent, slow, crashes, changes>>

Crash(r) ==
    /\ run[r] # Idle /\ crashes < MaxCrashes
    /\ crashes' = crashes + 1 /\ run' = [run EXCEPT ![r] = Idle]
    /\ UNCHANGED <<recipient, created, delivery, sent, alerted, slow, changes>>

Step(r) == Process(r) \/ Record(r) \/ Alert(r) \/ \E c \in Channels : Send(r, c)

Next ==
    \/ ChangeRecipient \/ Create \/ Tick
    \/ \E r \in Runs : Step(r) \/ Crash(r)

(* The command is scheduled again and again, and time passes.              *)
Fairness == WF_vars(Tick) /\ \A r \in Runs : WF_vars(Step(r))
Spec == Init /\ [][Next]_vars /\ Fairness

-----------------------------------------------------------------------------
(* What a row says is true: a delivered message has left, a row fails only *)
(* after its attempts are used up, and unless a run was so slow that       *)
(* another took its rows, a failed row has sent nothing.                   *)
OutcomeIsTrue ==
    \A c \in Channels : delivery[c] # None =>
        /\ delivery[c].status = "DELIVERED" => sent[c] > 0
        /\ delivery[c].status = "FAILED" => delivery[c].attempts = MaxAttempts
        /\ delivery[c].status = "FAILED" /\ ~slow /\ crashes = 0 => sent[c] = 0

(* A closed delivery keeps its outcome, whichever run comes late.          *)
OutcomeStands ==
    \A c \in Channels : delivery[c] # None /\ delivery[c].status \in Terminal
       => delivery'[c].status = delivery[c].status
OutcomeIsFinal == [][OutcomeStands]_vars

(* Every delivery is closed in the end, crashes included.                  *)
IsClosed(c) == delivery[c] # None /\ delivery[c].status \in Terminal
DeliveryEnds == \A c \in Channels : (delivery[c] # None) ~> IsClosed(c)

(* A message is sent at most once.                                         *)
SentOnce == \A c \in Channels : sent[c] <= 1

(* Optional notifications respect quiet hours.                             *)
QuietRespected ==
    [][quiet /\ ~mandatory => sent'["EMAIL"] = sent["EMAIL"]]_vars
=============================================================================
