----------------------------- MODULE MCWorkers ------------------------------
(***************************************************************************)
(* The components that promise an end to what they start, in background    *)
(* tasks, scheduled commands, caches that expire or notifications of a     *)
(* provider, checked together with the fairness each of them states: every *)
(* behaviour is one of the content of a club, the verification of          *)
(* identities, the scoring of fantasy points, the delivery of              *)
(* notifications, the dashboard, the upload of match data, the public      *)
(* pages, or the deposits. Two processes are the fewest that race; Bound   *)
(* caps the changes, items and attempts, so that safety is checked with    *)
(* more of them than liveness is.                                          *)
(***************************************************************************)
EXTENDS TLC, Sequences, Sums

CONSTANTS
    Processes,   \* users, runs, requests or uploads that race
    Bound,       \* changes, items and attempts of a run
    PaymentKeys, \* idempotency keys of deposits
    Staff,       \* requests of the staff of a club at one time
    PerKind,     \* content items of a kind
    MaxTime,     \* of the clock of the content
    Documents,   \* document numbers of the verification
    Synthetic,   \* users the development bypass serves
    Tries,       \* attempts of a user, and of a delivery
    None

VARIABLES
    part,      \* the component this behaviour is about
    items, clock, calls, task, changed,
    verification, attempts, tasks, participants, warned, together, bypassed,
    purged,
    status, time, fixture, statistics, corrected, points, score, pending,
    lost, approved, worker, overlapped, changes,
    mandatory, consent, enabled, quiet, created, delivery, sent, alerted,
    run, slow, crashes, changesOfDelivery,
    favourites, name, cache, callsOfBoard, changesOfBoard, views,
    statisticsOfData, centres, active, uploads, ingestion, scheduled,
    writer, disturbed,
    rows, cacheOfPages, callsOfPages, uploadsOfPages, answer, analytics,
    changesOfPages, overlappedOfPages,
    intent, row, tracking, redirect, shown, credits, submissions, order,
    owed, startPc, startOf, handlePc, handleOf, seen, flagged

Kinds == <<"profile", "media", "news">>
Channels == <<"IN_APP", "EMAIL">>

Row(f, player, value) == [fixture |-> f, player |-> player, value |-> value]

(* Files: a good one, two that share a player, one that locks the players  *)
(* in the other order, one with a repeated player, a wrong fixture, a      *)
(* wrong value and a wrong player.                                         *)
Uploaded ==
    { <<Row(1, 1, 1)>>, <<Row(1, 1, 1), Row(1, 2, 1)>>,
      <<Row(1, 2, 2), Row(1, 1, 2)>>, <<Row(1, 1, 2), Row(1, 2, 1)>>,
      <<Row(1, 1, 1), Row(1, 1, 2)>>,
      <<Row(2, 1, 1)>>, <<Row(1, 1, -1)>>, <<Row(1, 3, 1)>> }

Content == INSTANCE ClubContent WITH
        Kinds <- {"profile", "media", "news"}, MaxItems <- Bound
Kyc == INSTANCE KycVerification WITH
        ReviewThreshold <- 400, RejectThreshold <- 750, Users <- Processes,
        MaxAttempts <- Tries, MaxRetries <- 1, MaxPurges <- Bound - 1
Scoring == INSTANCE FantasyScoring WITH
        Captain <- "captain", Vice <- "vice", MaxValue <- 1,
        MaxChanges <- Bound, MaxRetries <- 1, Penalty <- 4, Multiplier <- 2
Delivery == INSTANCE NotificationDelivery WITH
        changes <- changesOfDelivery, Runs <- Processes, MaxAttempts <- Tries,
        StaleAfter <- 1, MaxWait <- 1, MaxCrashes <- 1,
        MaxChanges <- 2 * (Bound - 1)
Board == INSTANCE Dashboard WITH
        calls <- callsOfBoard, changes <- changesOfBoard, Clubs <- {"club"},
        Names <- {1, 2}, Requests <- Processes, MaxChanges <- 2,
        MaxViews <- 2
Data == INSTANCE MatchData WITH
        statistics <- statisticsOfData, Uploads <- Processes,
        Fixtures <- {1, 2}, Involved <- {1}, Players <- 1..3,
        Sport <- {1, 2}, Files <- Uploaded, Started <- {Row(1, 1, 1)},
        MaxCrashes <- 1
Pages == INSTANCE PublicPages WITH
        cache <- cacheOfPages, calls <- callsOfPages,
        uploads <- uploadsOfPages, changes <- changesOfPages,
        overlapped <- overlappedOfPages, Pages <- {1, 2}, Search <- 0,
        Clubs <- {1}, Rankings <- {<<1, 2>>, <<2, 1>>}, PageSize <- 1,
        Requests <- {"request"}, Uploads <- {"upload"}, MaxChanges <- 1
Deposits == INSTANCE PesapalDeposits WITH
        Deposits <- PaymentKeys, Starters <- Processes,
        Handlers <- Processes, NoDeposit <- None

(* Every other component stands still, its variables at Off.               *)
Off == "off"
ContentOff ==
    items = Off /\ clock = Off /\ calls = Off /\ task = Off /\ changed = Off
KycOff ==
    verification = Off /\ attempts = Off /\ tasks = Off /\
    participants = Off /\ warned = Off /\ together = Off /\
    bypassed = Off /\ purged = Off
ScoringOff ==
    status = Off /\ time = Off /\ fixture = Off /\ statistics = Off /\
    corrected = Off /\ points = Off /\ score = Off /\ pending = Off /\
    lost = Off /\ approved = Off /\ worker = Off /\ overlapped = Off /\
    changes = Off
DeliveryOff ==
    mandatory = Off /\ consent = Off /\ enabled = Off /\ quiet = Off /\
    created = Off /\ delivery = Off /\ sent = Off /\ alerted = Off /\
    run = Off /\ slow = Off /\ crashes = Off /\ changesOfDelivery = Off
BoardOff ==
    favourites = Off /\ name = Off /\ cache = Off /\ callsOfBoard = Off /\
    changesOfBoard = Off /\ views = Off
DataOff ==
    statisticsOfData = Off /\ centres = Off /\ active = Off /\
    uploads = Off /\ ingestion = Off /\ scheduled = Off /\ writer = Off /\
    disturbed = Off
PagesOff ==
    rows = Off /\ cacheOfPages = Off /\ callsOfPages = Off /\
    uploadsOfPages = Off /\ answer = Off /\ analytics = Off /\
    changesOfPages = Off /\ overlappedOfPages = Off
DepositsOff ==
    intent = Off /\ row = Off /\ tracking = Off /\ redirect = Off /\
    shown = Off /\ credits = Off /\ submissions = Off /\ order = Off /\
    owed = Off /\ startPc = Off /\ startOf = Off /\ handlePc = Off /\
    handleOf = Off /\ seen = Off /\ flagged = Off

contentVars == <<items, clock, calls, task, changed>>
kycVars == <<verification, attempts, tasks, participants, warned, together,
             bypassed, purged>>
scoringVars == <<status, time, fixture, statistics, corrected, points,
                 score, pending, lost, approved, worker, overlapped, changes>>
deliveryVars == <<mandatory, consent, enabled, quiet, created, delivery,
                  sent, alerted, run, slow, crashes, changesOfDelivery>>
boardVars == <<favourites, name, cache, callsOfBoard, changesOfBoard, views>>
dataVars == <<statisticsOfData, centres, active, uploads, ingestion,
              scheduled, writer, disturbed>>
pagesVars == <<rows, cacheOfPages, callsOfPages, uploadsOfPages, answer,
               analytics, changesOfPages, overlappedOfPages>>
depositsVars == <<intent, row, tracking, redirect, shown, credits,
                  submissions, order, owed, startPc, startOf, handlePc,
                  handleOf, seen, flagged>>
vars == <<part, contentVars, kycVars, scoringVars, deliveryVars, boardVars, dataVars, pagesVars, depositsVars>>

Init ==
    \/ part = "Content" /\ Content!Init /\ KycOff /\ ScoringOff /\ DeliveryOff /\ BoardOff /\ DataOff /\ PagesOff /\ DepositsOff
    \/ part = "Kyc" /\ Kyc!Init /\ ContentOff /\ ScoringOff /\ DeliveryOff /\ BoardOff /\ DataOff /\ PagesOff /\ DepositsOff
    \/ part = "Scoring" /\ Scoring!Init /\ ContentOff /\ KycOff /\ DeliveryOff /\ BoardOff /\ DataOff /\ PagesOff /\ DepositsOff
    \/ part = "Delivery" /\ Delivery!Init /\ ContentOff /\ KycOff /\ ScoringOff /\ BoardOff /\ DataOff /\ PagesOff /\ DepositsOff
    \/ part = "Board" /\ Board!Init /\ ContentOff /\ KycOff /\ ScoringOff /\ DeliveryOff /\ DataOff /\ PagesOff /\ DepositsOff
    \/ part = "Data" /\ Data!Init /\ ContentOff /\ KycOff /\ ScoringOff /\ DeliveryOff /\ BoardOff /\ PagesOff /\ DepositsOff
    \/ part = "Pages" /\ Pages!Init /\ ContentOff /\ KycOff /\ ScoringOff /\ DeliveryOff /\ BoardOff /\ DataOff /\ DepositsOff
    \/ part = "Deposits" /\ Deposits!Init /\ ContentOff /\ KycOff /\ ScoringOff /\ DeliveryOff /\ BoardOff /\ DataOff /\ PagesOff

ContentStep ==
    /\ part = "Content" /\ Content!Next
    /\ UNCHANGED <<part, kycVars, scoringVars, deliveryVars, boardVars, dataVars, pagesVars, depositsVars>>
KycStep ==
    /\ part = "Kyc" /\ Kyc!Next
    /\ UNCHANGED <<part, contentVars, scoringVars, deliveryVars, boardVars, dataVars, pagesVars, depositsVars>>
ScoringStep ==
    /\ part = "Scoring" /\ Scoring!Next
    /\ UNCHANGED <<part, contentVars, kycVars, deliveryVars, boardVars, dataVars, pagesVars, depositsVars>>
DeliveryStep ==
    /\ part = "Delivery" /\ Delivery!Next
    /\ UNCHANGED <<part, contentVars, kycVars, scoringVars, boardVars, dataVars, pagesVars, depositsVars>>
BoardStep ==
    /\ part = "Board" /\ Board!Next
    /\ UNCHANGED <<part, contentVars, kycVars, scoringVars, deliveryVars, dataVars, pagesVars, depositsVars>>
DataStep ==
    /\ part = "Data" /\ Data!Next
    /\ UNCHANGED <<part, contentVars, kycVars, scoringVars, deliveryVars, boardVars, pagesVars, depositsVars>>
PagesStep ==
    /\ part = "Pages" /\ Pages!Next
    /\ UNCHANGED <<part, contentVars, kycVars, scoringVars, deliveryVars, boardVars, dataVars, depositsVars>>
DepositsStep ==
    /\ part = "Deposits" /\ Deposits!Next
    /\ UNCHANGED <<part, contentVars, kycVars, scoringVars, deliveryVars, boardVars, dataVars, pagesVars>>

Next == ContentStep \/ KycStep \/ ScoringStep \/ DeliveryStep \/ BoardStep \/ DataStep \/ PagesStep \/ DepositsStep

Spec == Init /\ [][Next]_vars

(* The fairness of each component, as its module states it.                *)
(* A behaviour is about one component, so the i-th fair action of each of  *)
(* them shares one condition.                                              *)
Weak(i) ==
    \/ part = "Content" /\ i = 1 /\ Content!Task
    \/ part = "Kyc" /\ i <= 4 /\ Kyc!Step(<<1 + (i % 2), 1 + (i \div 3)>>)
    \/ part = "Scoring" /\ i = 1 /\ Scoring!Command
    \/ part = "Scoring" /\ i = 2 /\ Scoring!TaskStart
    \/ part = "Scoring" /\ i = 3 /\ Scoring!AdminDone
    \/ part = "Scoring" /\ i = 4 /\ Scoring!TaskDone
    \/ part = "Delivery" /\ i \in Processes /\ Delivery!Step(i)
    \/ part = "Delivery" /\ i = 3 /\ Delivery!Tick
    \/ part = "Board" /\ i = 1 /\ Board!Work
    \/ part = "Board" /\ i = 2 /\ Board!Expire
    \/ part = "Data" /\ i \in Processes /\ Data!Step(i)
    \/ part = "Pages" /\ i = 1 /\ Pages!Finish("request")
    \/ part = "Pages" /\ i = 2 /\ Pages!BustCache("upload")
    \/ part = "Pages" /\ i >= 3 /\ Pages!Expire(i - 3)
    \/ part = "Deposits" /\ i = 1
          /\ \E d \in PaymentKeys, h \in Processes : owed[d] /\ Deposits!Deliver(h, d)
Strong(i) ==
    \/ part = "Deposits" /\ i \in Processes /\ Deposits!QueryStatus(i)
    \/ part = "Deposits" /\ i - 2 \in Processes /\ Deposits!ApplyStatus(i - 2)
Own ==
    CASE part = "Content" -> contentVars [] part = "Kyc" -> kycVars
      [] part = "Scoring" -> scoringVars [] part = "Delivery" -> deliveryVars
      [] part = "Board" -> boardVars     [] part = "Data" -> dataVars
      [] part = "Pages" -> pagesVars     [] part = "Deposits" -> depositsVars
FairSpec ==
    /\ Spec
    /\ \A i \in 1..5 : WF_Own(UNCHANGED part /\ Weak(i))
    /\ \A i \in 1..4 : SF_Own(UNCHANGED part /\ Strong(i))

(* What is begun and not yet ended, counted within its component: an item  *)
(* that is due, an attempt, a delivery, a stale dashboard, an upload, a    *)
(* stale page, and the points and the deadline of a gameweek.              *)
DashboardOf(i) == [favourites |-> IF i < 3 THEN {} ELSE {"club"}, name |-> 1 + (i % 2)]
Begun(i) ==
    \/ part = "Content" /\ i <= 3 /\ Content!Waits(<<Kinds[i], 1>>)
    \/ part = "Kyc" /\ i \in Processes /\ Kyc!InProgress(i)
    \/ part = "Delivery" /\ i \in Processes /\ delivery[Channels[i]] # None
    \/ part = "Board" /\ Board!Current = DashboardOf(i)
    \/ part = "Data" /\ i \in Processes /\ Data!Runs(i)
    \/ part = "Pages" /\ i \in Processes /\ ~Pages!Fresh(i)
    \/ part = "Scoring" /\ i = 1 /\ ~Scoring!AllScored
    \/ part = "Scoring" /\ i = 2 /\ Scoring!IsLate
Ended(i) ==
    \/ part = "Content" /\ i <= 3 /\ ~Content!Waits(<<Kinds[i], 1>>)
    \/ part = "Kyc" /\ i \in Processes /\ Kyc!Settled(i)
    \/ part = "Delivery" /\ i \in Processes /\ Delivery!IsClosed(Channels[i])
    \/ part = "Board" /\ Board!Caught(DashboardOf(i))
    \/ part = "Data" /\ i \in Processes /\ Data!HasEnded(i)
    \/ part = "Pages" /\ i \in Processes /\ Pages!Fresh(i)
    \/ part = "Scoring" /\ i = 1
          /\ (Scoring!AllScored \/ lost \/ overlapped \/ status = "FINALIZED")
    \/ part = "Scoring" /\ i = 2 /\ ~Scoring!IsLate

(* None is a value of its own: no deposit, channel, row of a delivery or   *)
(* status of what is closed.                                               *)
DeliveryStatuses == {"PENDING", "DEFERRED", "PROCESSING"} \cup Delivery!Terminal
DeliveryRows == [status : DeliveryStatuses, attempts : Int, wait : Int, age : Int]

ASSUME ReasonsAssumption == Kyc!ReasonsAssumption
ASSUME NoneAssumption ==
    /\ Deposits!NoDepositAssumption
    /\ None \notin [player : Scoring!Players, value : Int] \cup [base : Int, total : Int]
    /\ None \notin Delivery!Channels /\ None \notin DeliveryRows /\ None \notin Kyc!Closed
ASSUME BoundsAssumption == Tries \in Nat \ {0} /\ Bound \in Nat \ {0}

-----------------------------------------------------------------------------
(* The values of each component's variables.                              *)
TypeOK ==
    /\ part = "Content" => Content!TypeOK
    /\ part = "Kyc" => Kyc!TypeOK
    /\ part = "Scoring" => Scoring!TypeOK
    /\ part = "Delivery" => Delivery!TypeOK
    /\ part = "Board" => Board!TypeOK
    /\ part = "Data" => Data!TypeOK
    /\ part = "Pages" => Pages!TypeOK
    /\ part = "Deposits" => Deposits!TypeOK

(* What is recorded is what happened: attempts and cases of verification   *)
(* agree, and duplicates are flagged unless they were open together; a     *)
(* delivered message has left, and a failed one has not unless a run was   *)
(* slow or crashed; points and score are those of the statistics and       *)
(* corrections once no task is queued, unless a scoring overlapped a       *)
(* change or a task was lost; a completed file is in the statistics unless *)
(* another upload disturbed it; a cached page has the logo of the club     *)
(* unless an upload overlapped the reading.                                *)
OutcomesHold == 
    /\ part = "Kyc" => Kyc!AttemptsAgree
    /\ part = "Kyc" => Kyc!DuplicatesFlagged
    /\ part = "Delivery" => Delivery!OutcomeIsTrue
    /\ part = "Scoring" => Scoring!ScoresExplained
    /\ part = "Data" => Data!FilesAreAtomic
    /\ part = "Pages" => Pages!CachedLogoIsCurrent

(* PesapalDeposits: one order for a deposit and one credit, exactly when   *)
(* it is completed and only if it was paid.                                *)
DepositsCreditedOnce == 
    /\ part = "Deposits" => Deposits!CreditedExactlyWhenCompleted
    /\ part = "Deposits" => Deposits!CreditOnlyIfPaid
    /\ part = "Deposits" => Deposits!SubmittedOnce

(* No late step undoes an outcome: decisions on a case, closed deliveries  *)
(* and completed deposits stand, and content is not published early.       *)
OutcomesStand == [][
    /\ part = "Kyc" => Kyc!DecisionStands
    /\ part = "Delivery" => Delivery!OutcomeStands
    /\ part = "Content" => Content!PublishesOnTime
    /\ part = "Deposits" => Deposits!KeepsCompleted]_vars

(* What was begun comes to its end: content that is due is published, a    *)
(* submission is decided unless its task or its failure callback is lost,  *)
(* a delivery closed, an upload finished, a gameweek locked, and scored    *)
(* unless its task was never queued or is dropped, a stale dashboard or    *)
(* page replaced, and a payment that stays paid is credited.               *)
WorkersFinish == 
    /\ \A i \in 1..4 : Begun(i) ~> Ended(i)
    /\ \A d \in PaymentKeys :
          (<>[](part = "Deposits" /\ order[d] = "paid"))
              => <>(part = "Deposits" => credits[d] = 1)

(* PesapalDeposits: a reversed payment that was credited is reported for   *)
(* manual reconciliation.                                                  *)
ReversalOfCreditIsFlagged == 
    /\ part = "Deposits" => Deposits!ReversalOfCreditIsFlagged

-----------------------------------------------------------------------------
(* Pesapal deposits: why a deposit is credited once. The credit is safe    *)
(* because an answer "paid" stays true of the order ("reversed" is all     *)
(* that can follow); the single submission because only the starter that   *)
(* inserted the row goes on to submit.                                     *)

\* Starters and handlers at work hold the key of a deposit.
TokensInv ==
    /\ \A s \in Processes : startPc[s] = "idle" <=> startOf[s] = None
    /\ \A h \in Processes : handlePc[h] = "idle" <=> handleOf[h] = None

\* At most one starter of a deposit is between the row and the order.
SubmitInv ==
    /\ \A s \in Processes : startPc[s] \in {"submit", "store"} => row[startOf[s]]
    /\ \A s, t \in Processes :
           startPc[s] = "submit" /\ startPc[t] = "submit" /\ startOf[s] = startOf[t] => s = t
    /\ \A s \in Processes : startPc[s] = "submit" => submissions[startOf[s]] = 0
    /\ \A d \in PaymentKeys : submissions[d] > 0 => row[d]
    /\ \A d \in PaymentKeys : submissions[d] <= 1
    /\ \A d \in PaymentKeys : order[d] # "none" => submissions[d] > 0

\* Whoever was told "paid" was told so of his order.
CreditInv ==
    /\ Deposits!CreditedExactlyWhenCompleted
    /\ Deposits!CreditOnlyIfPaid
    /\ \A h \in Processes :
           seen[h] = "paid" => handleOf[h] # None /\ order[handleOf[h]] \in {"paid", "reversed"}

DepositsInv == Deposits!TypeOK /\ TokensInv /\ SubmitInv /\ CreditInv

LEMMA DepositsInit == Deposits!Init => DepositsInv
  BY NoneAssumption
     DEF Deposits!NoDepositAssumption, Deposits!Init, DepositsInv, Deposits!TypeOK, TokensInv,
         SubmitInv, CreditInv, Deposits!CreditedExactlyWhenCompleted, Deposits!CreditOnlyIfPaid,
         Deposits!IntentStatuses, Deposits!OrderStatuses

(* start_deposit, statement by statement.                                  *)
LEMMA StarterKeepsInv ==
    ASSUME DepositsInv, NEW s \in Processes,
           \/ \E d \in PaymentKeys : Deposits!CreateIntent(s, d)
           \/ Deposits!CreateRow(s) \/ Deposits!SubmitOrder(s)
           \/ Deposits!StoreCheckout(s) \/ Deposits!CrashStart(s)
    PROVE  DepositsInv'
  <1> USE NoneAssumption
      DEF Deposits!NoDepositAssumption, DepositsInv, Deposits!TypeOK, TokensInv, SubmitInv,
          CreditInv, Deposits!CreditedExactlyWhenCompleted, Deposits!CreditOnlyIfPaid,
          Deposits!IntentStatuses, Deposits!OrderStatuses, Deposits!dbVars,
          Deposits!providerVars, Deposits!handleVars, Deposits!StartEnds, Deposits!StartGoesTo
  <1>1. ASSUME NEW d \in PaymentKeys, Deposits!CreateIntent(s, d) PROVE DepositsInv'
    BY <1>1 DEF Deposits!CreateIntent
  <1>2. CASE Deposits!CreateRow(s)
    <2>1. startOf[s] \in PaymentKeys BY <1>2 DEF Deposits!CreateRow
    <2>2. Deposits!TypeOK' /\ TokensInv'
      <3>1. Deposits!TypeOK' BY <1>2, <2>1 DEF Deposits!CreateRow
      <3>2. TokensInv' BY <1>2, <2>1 DEF Deposits!CreateRow
      <3> QED BY <3>1, <3>2
    <2>3. SubmitInv' BY <1>2, <2>1 DEF Deposits!CreateRow
    <2>4. CreditInv' BY <1>2 DEF Deposits!CreateRow
    <2> QED BY <2>2, <2>3, <2>4
  <1>3. CASE Deposits!SubmitOrder(s)
    <2>1. startOf[s] \in PaymentKeys BY <1>3 DEF Deposits!SubmitOrder
    <2>2. Deposits!TypeOK' /\ TokensInv' BY <1>3, <2>1 DEF Deposits!SubmitOrder
    <2>3. SubmitInv' BY <1>3, <2>1 DEF Deposits!SubmitOrder
    <2>4. CreditInv' BY <1>3, <2>1 DEF Deposits!SubmitOrder
    <2> QED BY <2>2, <2>3, <2>4
  <1>4. CASE Deposits!StoreCheckout(s)
    <2>1. startOf[s] \in PaymentKeys BY <1>4 DEF Deposits!StoreCheckout
    <2>2. /\ tracking' \in [PaymentKeys -> BOOLEAN] /\ redirect' \in [PaymentKeys -> BOOLEAN]
          /\ shown' \in [PaymentKeys -> Deposits!OrderStatuses]
      <3>1. \/ UNCHANGED <<tracking, redirect, shown>>
            \/ /\ tracking' = [tracking EXCEPT ![startOf[s]] = TRUE]
               /\ redirect' = [redirect EXCEPT ![startOf[s]] = TRUE]
               /\ shown' = [shown EXCEPT ![startOf[s]] = "open"]
        BY <1>4 DEF Deposits!StoreCheckout
      <3>2. CASE UNCHANGED <<tracking, redirect, shown>> BY <3>2
      <3>3. CASE /\ tracking' = [tracking EXCEPT ![startOf[s]] = TRUE]
                 /\ redirect' = [redirect EXCEPT ![startOf[s]] = TRUE]
                 /\ shown' = [shown EXCEPT ![startOf[s]] = "open"]
        BY <2>1, <3>3
      <3> QED BY <3>1, <3>2, <3>3
    <2>3. /\ startPc' = [startPc EXCEPT ![s] = "idle"]
          /\ startOf' = [startOf EXCEPT ![s] = None]
          /\ UNCHANGED <<intent, row, credits, flagged, order, submissions, owed,
                         handlePc, handleOf, seen>>
      BY <1>4 DEF Deposits!StoreCheckout
    <2>4. Deposits!TypeOK' BY <2>2, <2>3
    <2>5. TokensInv' /\ SubmitInv' BY <2>3
    <2>6. CreditInv' BY <2>3
    <2> QED BY <2>4, <2>5, <2>6
  <1>5. CASE Deposits!CrashStart(s) BY <1>5 DEF Deposits!CrashStart
  <1> QED BY <1>1, <1>2, <1>3, <1>4, <1>5

(* A payment at Pesapal: an order that was paid stays paid or is reversed. *)
LEMMA PaymentKeepsInv ==
    ASSUME DepositsInv, NEW d \in PaymentKeys, Deposits!OrderChanges(d)
    PROVE  DepositsInv'
  <1> USE DEF DepositsInv
  <1>1. PICK state \in Deposits!OrderStatuses :
            /\ <<order[d], state>> \in Deposits!PaymentChange
            /\ order' = [order EXCEPT ![d] = state]
    BY DEF Deposits!OrderChanges
  <1>2. /\ order[d] # "none" /\ state # "none"
        /\ order[d] \in {"paid", "reversed"} => state = "reversed"
    BY <1>1 DEF Deposits!PaymentChange
  <1>3. /\ owed' = [owed EXCEPT ![d] = TRUE]
        /\ UNCHANGED <<intent, row, tracking, redirect, shown, credits, flagged, submissions,
                       startPc, startOf, handlePc, handleOf, seen>>
    BY DEF Deposits!OrderChanges, Deposits!dbVars, Deposits!startVars, Deposits!handleVars
  <1>4. Deposits!TypeOK' BY <1>1, <1>3 DEF Deposits!TypeOK
  <1>5. TokensInv' /\ SubmitInv' BY <1>1, <1>2, <1>3 DEF TokensInv, SubmitInv, Deposits!TypeOK
  <1>6. CreditInv'
    BY <1>1, <1>2, <1>3 DEF CreditInv, Deposits!CreditedExactlyWhenCompleted,
                            Deposits!CreditOnlyIfPaid, Deposits!TypeOK
  <1> QED BY <1>4, <1>5, <1>6

(* reconcile_notification, statement by statement.                         *)
LEMMA HandlerKeepsInv ==
    ASSUME DepositsInv, NEW h \in Processes,
           \/ \E d \in PaymentKeys : Deposits!Deliver(h, d)
           \/ Deposits!QueryStatus(h) \/ Deposits!HandleFails(h) \/ Deposits!ApplyStatus(h)
    PROVE  DepositsInv'
  <1> USE NoneAssumption
      DEF Deposits!NoDepositAssumption, DepositsInv, Deposits!TypeOK, TokensInv, SubmitInv,
          CreditInv, Deposits!CreditedExactlyWhenCompleted, Deposits!CreditOnlyIfPaid,
          Deposits!IntentStatuses, Deposits!OrderStatuses, Deposits!dbVars,
          Deposits!providerVars, Deposits!startVars, Deposits!HandleEnds
  <1>1. ASSUME NEW d \in PaymentKeys, Deposits!Deliver(h, d) PROVE DepositsInv'
    BY <1>1 DEF Deposits!Deliver
  <1>2. CASE Deposits!QueryStatus(h) BY <1>2 DEF Deposits!QueryStatus
  <1>3. CASE Deposits!HandleFails(h) BY <1>3 DEF Deposits!HandleFails
  <1>4. CASE Deposits!ApplyStatus(h)
    <2> DEFINE d == handleOf[h]
    <2>1. d \in PaymentKeys BY <1>4 DEF Deposits!ApplyStatus
    <2>2. \/ UNCHANGED <<credits, intent>>
          \/ /\ seen[h] = "paid" /\ intent[d] # "COMPLETED"
             /\ credits' = [credits EXCEPT ![d] = @ + 1]
             /\ intent' = [intent EXCEPT ![d] = "COMPLETED"]
          \/ /\ intent[d] # "COMPLETED" /\ UNCHANGED credits
             /\ intent' = [intent EXCEPT ![d] = "FAILED"]
      BY <1>4, <2>1 DEF Deposits!ApplyStatus, Deposits!CompleteDeposit, Deposits!FailDeposit
    <2>3. /\ tracking' = [tracking EXCEPT ![d] = TRUE]
          /\ shown' = [shown EXCEPT ![d] = seen[h]]
          /\ flagged' \in {flagged, flagged \cup {d}}
          /\ handlePc' = [handlePc EXCEPT ![h] = "idle"]
          /\ handleOf' = [handleOf EXCEPT ![h] = None]
          /\ seen' = [seen EXCEPT ![h] = "none"]
          /\ UNCHANGED <<row, redirect, order, submissions, owed, startPc, startOf>>
      BY <1>4 DEF Deposits!ApplyStatus
    <2>4. Deposits!TypeOK' BY <2>1, <2>2, <2>3
    <2>5. TokensInv' /\ SubmitInv' BY <2>3
    <2>6. CreditInv' BY <2>1, <2>2, <2>3
    <2> QED BY <2>4, <2>5, <2>6
  <1> QED BY <1>1, <1>2, <1>3, <1>4

LEMMA DepositsNext == DepositsInv /\ Deposits!Next => DepositsInv'
  BY StarterKeepsInv, PaymentKeepsInv, HandlerKeepsInv DEF Deposits!Next

LEMMA DepositsStutter == DepositsInv /\ UNCHANGED depositsVars => DepositsInv'
  BY DEF DepositsInv, depositsVars, Deposits!TypeOK, TokensInv, SubmitInv, CreditInv,
         Deposits!CreditedExactlyWhenCompleted, Deposits!CreditOnlyIfPaid

(* A step of a behaviour about deposits is one of theirs.                  *)
LEMMA DepositsOnly ==
    ASSUME [Next]_vars, part' = "Deposits"
    PROVE  part = "Deposits" /\ (Deposits!Next \/ UNCHANGED depositsVars)
  BY DEF Next, vars, ContentStep, KycStep, ScoringStep, DeliveryStep, BoardStep, DataStep,
         PagesStep, DepositsStep

(* Whatever is lost, repeated or overtaken, a deposit has one order, and   *)
(* one credit exactly when its intent is completed, and only if it was     *)
(* paid: for any keys, starters and handlers.                              *)
THEOREM DepositsSound == Spec => []DepositsCreditedOnce
  <1> DEFINE Inv == part = "Deposits" => DepositsInv
  <1>1. Init => Inv BY DepositsInit DEF Init
  <1>2. Inv /\ [Next]_vars => Inv' BY DepositsOnly, DepositsNext, DepositsStutter
  <1>3. Inv => DepositsCreditedOnce
    BY DEF DepositsCreditedOnce, DepositsInv, CreditInv, SubmitInv, Deposits!SubmittedOnce
  <1> QED BY <1>1, <1>2, <1>3, PTL DEF Spec

-----------------------------------------------------------------------------
(* Verification of identities: what a late task may still do.              *)

Tasks == [step : {"none", "queued", "started", "checked", "lost"}, retries : 0..1,
          celery : BOOLEAN, checks : Kyc!Reasons \cup {None}]

\* Tasks are well-typed, and the market role goes with a verified case.
CasesInv ==
    /\ Kyc!TypeOK
    /\ tasks \in [Processes \X (1..Tries) -> Tasks]
    /\ participants \subseteq {u \in Processes : verification[u].status = "VERIFIED"}

LEMMA CasesInit == Kyc!Init => CasesInv
  <1> SUFFICES ASSUME Kyc!Init PROVE CasesInv OBVIOUS
  <1>1. tasks \in [Processes \X (1..Tries) -> Tasks] BY DEF Kyc!Init, Kyc!NoTask, Kyc!Numbers, Tasks
  <1>2. Kyc!TypeOK BY <1>1, BoundsAssumption
       DEF Kyc!Init, Kyc!TypeOK, Kyc!Verifications, Kyc!Statuses, Kyc!DocumentNumbers,
           Kyc!Numbers, Tasks
  <1> QED BY <1>1, <1>2 DEF CasesInv, Kyc!Init

LEMMA TasksTyped ==
    ASSUME NEW t \in Tasks, NEW celery \in BOOLEAN, NEW reason \in Kyc!Reasons \cup {None}
    PROVE  /\ Kyc!NoTask \in Tasks
           /\ [t EXCEPT !.step = "queued", !.celery = celery] \in Tasks
           /\ [t EXCEPT !.step = "started"] \in Tasks
           /\ [t EXCEPT !.step = "lost"] \in Tasks
           /\ [t EXCEPT !.step = "checked", !.checks = reason] \in Tasks
           /\ t.retries < 1 =>
                 [t EXCEPT !.step = "queued", !.checks = None, !.retries = @ + 1] \in Tasks
  <1>1. Kyc!NoTask \in Tasks BY DEF Kyc!NoTask, Tasks
  <1>2. /\ [t EXCEPT !.step = "queued", !.celery = celery] \in Tasks
        /\ [t EXCEPT !.step = "started"] \in Tasks
        /\ [t EXCEPT !.step = "lost"] \in Tasks
        /\ [t EXCEPT !.step = "checked", !.checks = reason] \in Tasks
        /\ \A n \in 0..1 : [t EXCEPT !.step = "queued", !.checks = None, !.retries = n] \in Tasks
    BY DEF Tasks
  <1>3. t.retries < 1 => t.retries + 1 \in 0..1 BY DEF Tasks
  <1> QED BY <1>1, <1>2, <1>3

(* A step that moves only cases nobody has decided changes no decision.    *)
LEMMA OpenCasesMove ==
    ASSUME CasesInv, verification' \in [Processes -> Kyc!Verifications],
           attempts' \in [Processes \X (1..Tries) -> Kyc!AttemptStatuses \cup {None}],
           tasks' \in [Processes \X (1..Tries) -> Tasks],
           UNCHANGED <<participants, bypassed>>, warned' \subseteq Processes,
           together' \subseteq SUBSET Processes, purged' \subseteq Processes \X (1..Tries),
           \A v \in Processes : \/ verification'[v].status = verification[v].status
                                \/ verification[v].status \notin {"REVIEW", "VERIFIED", "REJECTED"}
    PROVE  CasesInv' /\ Kyc!DecisionStands
  <1>1. Kyc!TypeOK' BY DEF Tasks, CasesInv, Kyc!TypeOK, Kyc!Numbers
  <1>2. participants' \subseteq {u \in Processes : verification'[u].status = "VERIFIED"}
    BY DEF CasesInv
  <1> QED BY <1>1, <1>2 DEF CasesInv, Kyc!DecisionStands

(* What the fan, the development bypass and the administrator do.          *)
LEMMA UserKeepsCases ==
    ASSUME CasesInv, NEW u \in Processes,
           \/ Kyc!Bypass(u)
           \/ \E d \in Kyc!DocumentNumbers, celery \in BOOLEAN : Kyc!Submit(u, d, celery)
           \/ \E decision \in Kyc!Decisions : Kyc!Review(u, decision)
    PROVE  CasesInv' /\ Kyc!DecisionStands
  <1> USE BoundsAssumption
      DEF CasesInv, Kyc!TypeOK, Kyc!DecisionStands, Kyc!Numbers, Kyc!Verifications
  <1>1. CASE Kyc!Bypass(u) BY <1>1 DEF Kyc!Bypass, Kyc!Statuses
  <1>2. ASSUME NEW d \in Kyc!DocumentNumbers, NEW celery \in BOOLEAN, Kyc!Submit(u, d, celery)
        PROVE  CasesInv' /\ Kyc!DecisionStands
    <2> DEFINE n == verification[u].attempts + 1
               case == [status |-> "PENDING", hash |-> Kyc!HashAfter(u, d), attempts |-> n]
               queued == [Kyc!NoTask EXCEPT !.step = "queued", !.celery = celery]
    <2>0. /\ verification' = [verification EXCEPT ![u] = case]
          /\ attempts' = [attempts EXCEPT ![<<u, n>>] = "PENDING"]
          /\ tasks' = [tasks EXCEPT ![<<u, n>>] = queued]
          /\ Kyc!MaySubmit(u)
      BY <1>2 DEF Kyc!Submit
    <2>1. /\ verification[u].status \in {"NOT_STARTED", "RETRY_REQUIRED"}
          /\ verification[u].attempts < Tries /\ n \in 1..Tries
          /\ Kyc!HashAfter(u, d) \in Kyc!DocumentNumbers
      BY <2>0 DEF Kyc!MaySubmit, Kyc!HashAfter
    <2>2. verification' \in [Processes -> Kyc!Verifications] BY <2>0, <2>1 DEF Kyc!Statuses
    <2>3. attempts' \in [Processes \X (1..Tries) -> Kyc!AttemptStatuses \cup {None}]
      BY <2>0, <2>1 DEF Kyc!AttemptStatuses
    <2>4. tasks' \in [Processes \X (1..Tries) -> Tasks]
      <3>1. queued \in Tasks
        <4>1. Kyc!NoTask \in Tasks BY DEF Kyc!NoTask, Tasks
        <4>2. \A t \in Tasks : [t EXCEPT !.step = "queued", !.celery = celery] \in Tasks
          BY TasksTyped
        <4> QED BY <4>1, <4>2
      <3> QED BY <2>0, <2>1, <3>1
    <2>5. /\ UNCHANGED <<participants, warned, bypassed, purged>>
          /\ together' \subseteq SUBSET Processes
          /\ \A v \in Processes : \/ verification'[v].status = verification[v].status
                                  \/ verification[v].status \notin {"REVIEW", "VERIFIED", "REJECTED"}
      <3>1. {{u, v} : v \in {w \in Processes \ {u} : Kyc!InProgress(w)}} \subseteq SUBSET Processes
        OBVIOUS
      <3> QED BY <1>2, <2>0, <2>1, <3>1 DEF Kyc!Submit
    <2> QED BY <2>2, <2>3, <2>4, <2>5, OpenCasesMove
  <1>3. ASSUME NEW decision \in Kyc!Decisions, Kyc!Review(u, decision)
        PROVE  CasesInv' /\ Kyc!DecisionStands
    BY <1>3 DEF Kyc!Decisions, Kyc!Review, Kyc!Statuses
  <1> QED BY <1>1, <1>2, <1>3

(* What a task does, wherever it runs and however late.                    *)
LEMMA TaskKeepsCases ==
    ASSUME CasesInv, NEW a \in Processes \X (1..Tries),
           Kyc!Step(a) \/ Kyc!Retry(a) \/ Kyc!Lose(a) \/ Kyc!Purge(a)
    PROVE  CasesInv' /\ Kyc!DecisionStands
  <1> DEFINE u == a[1]
  <1> USE BoundsAssumption
      DEF CasesInv, Kyc!TypeOK, Kyc!DecisionStands, Kyc!Numbers, Kyc!Verifications
  <1>0. /\ u \in Processes /\ Kyc!NoTask \in Tasks /\ verification[u] \in Kyc!Verifications
        /\ tasks[a] \in Tasks /\ [tasks[a] EXCEPT !.step = "started"] \in Tasks
        /\ \A s \in Kyc!Statuses : [verification[u] EXCEPT !.status = s] \in Kyc!Verifications
    <2>1. u \in Processes /\ verification[u] \in Kyc!Verifications /\ tasks[a] \in Tasks OBVIOUS
    <2>2. \A s \in Kyc!Statuses : [verification[u] EXCEPT !.status = s] \in Kyc!Verifications
      BY <2>1
    <2> QED BY <2>1, <2>2, TasksTyped
  <1>1. CASE Kyc!Start(a)
    <2>1. tasks' \in [Processes \X (1..Tries) -> Tasks]
      <3>1. tasks' \in {[tasks EXCEPT ![a] = Kyc!NoTask],
                        [tasks EXCEPT ![a] = [tasks[a] EXCEPT !.step = "started"]]}
        BY <1>1 DEF Kyc!Start, Kyc!Done
      <3> QED BY <1>0, <3>1
    <2>2. verification' \in [Processes -> Kyc!Verifications]
      <3>1. verification' \in {verification,
                [verification EXCEPT ![u] = [verification[u] EXCEPT !.status = "PROCESSING"]]}
        BY <1>1 DEF Kyc!Start
      <3>2. "PROCESSING" \in Kyc!Statuses BY DEF Kyc!Statuses
      <3> QED BY <1>0, <3>1, <3>2
    <2>3. attempts' \in [Processes \X (1..Tries) -> Kyc!AttemptStatuses \cup {None}]
      BY <1>1 DEF Kyc!Start, Kyc!AttemptStatuses
    <2>4. /\ UNCHANGED <<participants, warned, together, bypassed, purged>>
          /\ \A v \in Processes : \/ verification'[v] = verification[v]
                                  \/ verification[v].status \in {"PENDING", "PROCESSING"}
      BY <1>0, <1>1 DEF Kyc!Start, Kyc!InProgress
    <2> QED BY <2>1, <2>2, <2>3, <2>4, OpenCasesMove
  <1>2. ASSUME NEW d \in Kyc!DocumentNumbers, NEW document \in BOOLEAN, NEW selfie \in BOOLEAN,
               Kyc!Check(a, d, document, selfie)
        PROVE  CasesInv' /\ Kyc!DecisionStands
    <2>1. Kyc!HashAfter(u, d) \in Kyc!DocumentNumbers BY <1>0 DEF Kyc!HashAfter
    <2>2. /\ verification' \in [Processes -> Kyc!Verifications]
          /\ \A v \in Processes : verification'[v].status = verification[v].status
      BY <1>0, <1>2, <2>1 DEF Kyc!Check
    <2>3. tasks' \in [Processes \X (1..Tries) -> Tasks]
      <3>1. PICK reason \in Kyc!PossibleReasons(document, selfie,
                                 Kyc!Duplicate(u, Kyc!HashAfter(u, d))) :
                tasks' = [tasks EXCEPT ![a].step = "checked", ![a].checks = reason]
        BY <1>2 DEF Kyc!Check
      <3>2. reason \in Kyc!Reasons BY <3>1 DEF Kyc!PossibleReasons, Kyc!Reasons
      <3>3. [tasks[a] EXCEPT !.step = "checked", !.checks = reason] \in Tasks BY <3>2, TasksTyped
      <3> QED BY <3>1, <3>3
    <2>4. UNCHANGED <<attempts, participants, warned, together, bypassed, purged>>
      BY <1>2 DEF Kyc!Check
    <2> QED BY <2>2, <2>3, <2>4, OpenCasesMove
  <1>3. CASE Kyc!Decide(a)
    <2>1. tasks' \in [Processes \X (1..Tries) -> Tasks] BY <1>0, <1>3 DEF Kyc!Decide, Kyc!Done
    <2>2. verification' \in [Processes -> Kyc!Verifications]
      BY <1>0, <1>3 DEF Kyc!Decide, Kyc!Statuses
    <2>3. attempts' \in [Processes \X (1..Tries) -> Kyc!AttemptStatuses \cup {None}]
      BY <1>3 DEF Kyc!Decide, Kyc!AttemptStatuses
    <2>4. /\ UNCHANGED <<participants, together, bypassed, purged>>
          /\ warned' \in {warned, warned \cup {u}}
          /\ \A v \in Processes : \/ verification'[v] = verification[v]
                                  \/ verification[v].status \in {"PENDING", "PROCESSING"}
      BY <1>0, <1>3 DEF Kyc!Decide, Kyc!StillOpen, Kyc!InProgress
    <2> QED BY <1>0, <2>1, <2>2, <2>3, <2>4, OpenCasesMove
  <1>4. CASE Kyc!GiveUp(a)
    <2>1. tasks' \in [Processes \X (1..Tries) -> Tasks] BY <1>0, <1>4 DEF Kyc!GiveUp, Kyc!Done
    <2>2. verification' \in [Processes -> Kyc!Verifications]
      <3>1. \/ verification' = verification
            \/ \E s \in {"RETRY_REQUIRED", "REVIEW"} :
                   verification' = [verification EXCEPT ![u] = [verification[u] EXCEPT !.status = s]]
        BY <1>4 DEF Kyc!GiveUp
      <3>2. {"RETRY_REQUIRED", "REVIEW"} \subseteq Kyc!Statuses BY DEF Kyc!Statuses
      <3> QED BY <1>0, <3>1, <3>2
    <2>3. attempts' \in [Processes \X (1..Tries) -> Kyc!AttemptStatuses \cup {None}]
      <3>1. attempts' \in {attempts, [attempts EXCEPT ![a] = "FAILED"],
                                     [attempts EXCEPT ![a] = attempts[a]]}
        BY <1>4 DEF Kyc!GiveUp
      <3> QED BY <3>1 DEF Kyc!AttemptStatuses
    <2>4. /\ UNCHANGED <<participants, together, bypassed, purged>>
          /\ warned' \in {warned, warned \cup {u}}
          /\ \A v \in Processes : \/ verification'[v] = verification[v]
                                  \/ verification[v].status \in {"PENDING", "PROCESSING"}
      BY <1>0, <1>4 DEF Kyc!GiveUp, Kyc!InProgress
    <2> QED BY <1>0, <2>1, <2>2, <2>3, <2>4, OpenCasesMove
  <1>5. CASE Kyc!Retry(a) \/ Kyc!Lose(a)
    <2>1. tasks' \in [Processes \X (1..Tries) -> Tasks]
      <3>1. CASE Kyc!Retry(a) BY <3>1, TasksTyped DEF Kyc!Retry
      <3>2. CASE Kyc!Lose(a) BY <3>2, TasksTyped DEF Kyc!Lose
      <3> QED BY <1>5, <3>1, <3>2
    <2>2. UNCHANGED <<verification, attempts, participants, warned, together, bypassed, purged>>
      BY <1>5 DEF Kyc!Retry, Kyc!Lose
    <2> QED BY <2>1, <2>2, OpenCasesMove
  <1>6. CASE Kyc!Purge(a) BY <1>6 DEF Kyc!Purge
  <1> QED BY <1>1, <1>2, <1>3, <1>4, <1>5, <1>6 DEF Kyc!Step

LEMMA CasesNext == CasesInv /\ Kyc!Next => CasesInv' /\ Kyc!DecisionStands
  BY UserKeepsCases, TaskKeepsCases DEF Kyc!Next, Kyc!Numbers, Kyc!CallbackFails

LEMMA CasesStutter == CasesInv /\ UNCHANGED kycVars => CasesInv' /\ Kyc!DecisionStands
  BY DEF CasesInv, kycVars, Kyc!TypeOK, Kyc!DecisionStands

-----------------------------------------------------------------------------
(* Content of a club: what the task has read is still so when it writes.   *)

\* Rows are typed; a row the task has read, and that no request has changed
\* since, is still the row that was due.
ReadRowsHold ==
    \A i \in DOMAIN task.read :
        /\ i \in Content!Items
        /\ i \notin changed =>
              /\ Content!Exists(i)
              /\ items[i].status = task.read[i]
              /\ items[i].scheduled \in Int /\ items[i].scheduled <= clock
ContentInv ==
    /\ items \in [Content!Items -> Content!Rows \cup {None}]
    /\ clock \in Int
    /\ task = [done |-> task.done, read |-> task.read]
    /\ ReadRowsHold

LEMMA ContentInit == Content!Init => ContentInv
  BY DEF Content!Init, ContentInv, ReadRowsHold

(* A write of a request marks the row as changed, if the task had read it. *)
LEMMA WriteKeepsContent ==
    ASSUME ContentInv, NEW i, NEW value \in Content!Rows \cup {None}, Content!Write(i, value),
           UNCHANGED <<clock, task>>
    PROVE  ContentInv'
  BY DEF ContentInv, ReadRowsHold, Content!Write, Content!Exists

LEMMA SameContentKeeps ==
    ASSUME ContentInv, UNCHANGED <<items, changed, clock, task>>
    PROVE  ContentInv'
  BY DEF ContentInv, ReadRowsHold, Content!Exists

LEMMA RequestKeepsContent ==
    ASSUME ContentInv, NEW c \in Staff, Content!Request(c)
    PROVE  ContentInv'
  <1>1. ASSUME UNCHANGED <<items, changed, clock, task>>
        PROVE  ContentInv'
    BY <1>1, SameContentKeeps
  <1>2. ASSUME NEW i, NEW value \in Content!Rows \cup {None}, Content!Write(i, value),
               UNCHANGED <<clock, task>>
        PROVE  ContentInv'
    BY <1>2, WriteKeepsContent
  <1>3. ASSUME NEW s \in Content!ProfileStatuses, NEW at \in Content!Times \cup {None},
               Content!CreateProfile(c, s, at) \/ Content!Patch(c, s, at)
        PROVE  ContentInv'
    BY <1>1, <1>2, <1>3 DEF Content!Rows, Content!CreateProfile, Content!Patch
  <1>4. ASSUME NEW at \in Content!Times, Content!Schedule(c, at)
        PROVE  ContentInv'
    BY <1>1, <1>2, <1>4 DEF Content!Rows, Content!ScheduledStatus, Content!ProfileStatuses,
       Content!Schedule
  <1>5. ASSUME Content!Publish(c) PROVE ContentInv'
    BY <1>1, <1>2, <1>5 DEF Content!Rows, Content!Published, Content!ProfileStatuses,
       Content!Publish
  <1> QED BY <1>1, <1>3, <1>4, <1>5
       DEF Content!Request, Content!ReadVersion, Content!ReadItem, Content!PublishProfile,
           Content!PublishMedia, Content!PublishNews, Content!ScheduleProfile,
           Content!ScheduleMedia, Content!ScheduleNews

LEMMA TaskKeepsContent ==
    ASSUME ContentInv, Content!Task \/ Content!Tick
    PROVE  ContentInv'
  <1> USE DEF ContentInv, ReadRowsHold, Content!Exists
  <1>1. ASSUME NEW kind \in {"profile", "media", "news"}, Content!ReadDue(kind)
        PROVE  ContentInv'
    <2> DEFINE due == {i \in Content!Items : Content!Kind(i) = kind /\ Content!Due(i)}
    <2>1. /\ task' = [done |-> task.done \cup {kind}, read |-> [i \in due |-> items[i].status]]
          /\ UNCHANGED <<items, clock, changed>>
      BY <1>1 DEF Content!ReadDue
    <2>2. \A i \in due : /\ i \in Content!Items /\ items[i] \in Content!Rows
                         /\ items[i].scheduled \in Int /\ items[i].scheduled <= clock
      BY DEF Content!Due, Content!Rows, Content!Times
    <2> HIDE DEF due
    <2>3. ReadRowsHold' BY <2>1, <2>2 DEF due, Content!Due
    <2> QED BY <2>1, <2>3
  <1>2. ASSUME NEW i \in Content!Items, Content!TaskPublish(i)
        PROVE  ContentInv'
    BY <1>2 DEF Content!Rows, Content!Published, Content!ProfileStatuses, Content!TaskPublish
  <1>3. CASE Content!TaskEnds BY <1>3 DEF Content!TaskEnds
  <1>4. CASE Content!Tick BY <1>4 DEF Content!Tick
  <1> QED BY <1>1, <1>2, <1>3, <1>4 DEF Content!Task

LEMMA ContentNext == ContentInv /\ Content!Next => ContentInv'
  <1> SUFFICES ASSUME ContentInv, Content!Next PROVE ContentInv' OBVIOUS
  <1>1. ASSUME NEW i \in Content!Items, NEW s \in Content!ProfileStatuses,
               NEW at \in Content!Times \cup {None},
               Content!CreateMedia(i, s, at) \/ Content!CreateNews(i, s, at)
        PROVE  ContentInv'
    BY <1>1, WriteKeepsContent DEF Content!Rows, Content!CreateMedia, Content!CreateNews,
       Content!CreateItem
  <1>2. ASSUME NEW i \in Content!Items, Content!Delete(i) PROVE ContentInv'
    BY <1>2, WriteKeepsContent DEF Content!Delete
  <1> QED BY <1>1, <1>2, RequestKeepsContent, TaskKeepsContent DEF Content!Next

LEMMA ContentStutter == ContentInv /\ UNCHANGED contentVars => ContentInv'
  BY SameContentKeeps DEF contentVars

(* The rows that were read bound what the task may publish.                *)
LEMMA TaskPublishesOnTime == ContentInv => Content!PublishesOnTime
  BY DEF ContentInv, ReadRowsHold, Content!PublishesOnTime, Content!TaskPublish

-----------------------------------------------------------------------------
(* Delivery of notifications: a late run finds closed rows closed.         *)

DeliveryRuns == [rows : SUBSET Delivery!Channels, now : Delivery!Channels \cup {None},
                 outcome : {"DELIVERED", "FAILED", None}, alert : BOOLEAN]

\* Only a notification that exists has rows, and a run holds only rows.
DeliveryInv ==
    /\ created \in BOOLEAN
    /\ delivery \in [Delivery!Channels -> DeliveryRows \cup {None}]
    /\ run \in [Processes -> DeliveryRuns]
    /\ ~created => \A c \in Delivery!Channels : delivery[c] = None
    /\ \A r \in Processes, c \in Delivery!Channels : Delivery!Holds(r, c) => delivery[c] # None

(* What an update makes of a row, and of a run.                            *)
Aged(x, w, g) == [x EXCEPT !.wait = w, !.age = g]
Taking(x) == [x EXCEPT !.status = "PROCESSING", !.age = 0, !.wait = 0]
Counted(x, n, s, w) == [x EXCEPT !.attempts = n, !.status = s, !.wait = w]

LEMMA RowsTyped ==
    \A x \in DeliveryRows :
        /\ x.attempts \in Int /\ x.wait \in Int /\ x.age \in Int /\ x.status \in DeliveryStatuses
        /\ Taking(x) \in DeliveryRows
        /\ \A w, g \in Int : Aged(x, w, g) \in DeliveryRows /\ Aged(x, w, g).status = x.status
        /\ \A s \in DeliveryStatuses, n, w \in Int : Counted(x, n, s, w) \in DeliveryRows
  <1> SUFFICES ASSUME NEW x \in DeliveryRows
               PROVE  RowsTyped!(x)
    OBVIOUS
  <1>1. x.attempts \in Int /\ x.wait \in Int /\ x.age \in Int /\ x.status \in DeliveryStatuses
    BY DEF DeliveryRows
  <1>2. Taking(x) \in DeliveryRows
    <2>1. "PROCESSING" \in DeliveryStatuses /\ 0 \in Int BY DEF DeliveryStatuses
    <2>2. \A s \in DeliveryStatuses, g, w \in Int :
              [x EXCEPT !.status = s, !.age = g, !.wait = w] \in DeliveryRows
      BY DEF DeliveryRows
    <2> QED BY <2>1, <2>2, Zenon DEF Taking
  <1>3. \A w, g \in Int : Aged(x, w, g) \in DeliveryRows /\ Aged(x, w, g).status = x.status
    BY DEF Aged, DeliveryRows
  <1>4. \A s \in DeliveryStatuses, n, w \in Int : Counted(x, n, s, w) \in DeliveryRows
    BY DEF Counted, DeliveryRows
  <1> QED BY <1>1, <1>2, <1>3, <1>4

Loaded(x, taken) == [x EXCEPT !.rows = taken]
Sending(x, c, outcome) == [x EXCEPT !.rows = @ \ {c}, !.now = c, !.outcome = outcome]
Alarmed(x) == [x EXCEPT !.alert = TRUE]
Through(x) == [x EXCEPT !.now = None, !.outcome = None]
Told(x) == [x EXCEPT !.now = None, !.outcome = None, !.alert = FALSE]

LEMMA RunsTyped ==
    ASSUME NEW x \in DeliveryRuns
    PROVE  /\ {Alarmed(x), Through(x), Told(x), Delivery!Idle} \subseteq DeliveryRuns
           /\ Alarmed(x).rows = x.rows /\ Alarmed(x).now = x.now
           /\ Through(x).rows = x.rows /\ Through(x).now = None
           /\ Told(x).rows = x.rows /\ Told(x).now = None
           /\ Delivery!Idle.rows = {} /\ Delivery!Idle.now = None
  <1>1. Delivery!Idle \in DeliveryRuns /\ Delivery!Idle.rows = {} /\ Delivery!Idle.now = None
    BY DEF DeliveryRuns, Delivery!Idle
  <1>2. Alarmed(x) \in DeliveryRuns /\ Alarmed(x).rows = x.rows /\ Alarmed(x).now = x.now
    BY DEF DeliveryRuns, Alarmed
  <1>3. Through(x) \in DeliveryRuns /\ Through(x).rows = x.rows /\ Through(x).now = None
    BY DEF DeliveryRuns, Through
  <1>4. Told(x) \in DeliveryRuns /\ Told(x).rows = x.rows /\ Told(x).now = None
    BY DEF DeliveryRuns, Told
  <1> QED BY <1>1, <1>2, <1>3, <1>4

LEMMA LoadedTyped ==
    ASSUME NEW x \in DeliveryRuns, NEW taken \in SUBSET Delivery!Channels
    PROVE  /\ Loaded(x, taken) \in DeliveryRuns
           /\ Loaded(x, taken).rows = taken /\ Loaded(x, taken).now = x.now
  BY DEF DeliveryRuns, Loaded

LEMMA SendingTyped ==
    ASSUME NEW x \in DeliveryRuns, NEW c \in Delivery!Channels,
           NEW outcome \in {"DELIVERED", "FAILED"}
    PROVE  /\ Sending(x, c, outcome) \in DeliveryRuns
           /\ Sending(x, c, outcome).rows = x.rows \ {c} /\ Sending(x, c, outcome).now = c
  BY DEF DeliveryRuns, Sending

LEMMA DeliveryInit == Delivery!Init => DeliveryInv
  <1>1. Delivery!Idle \in DeliveryRuns BY DEF DeliveryRuns, Delivery!Idle
  <1>2. Delivery!Idle.rows = {} /\ Delivery!Idle.now = None BY DEF Delivery!Idle
  <1> QED BY <1>1, <1>2, NoneAssumption DEF Delivery!Init, DeliveryInv, Delivery!Holds

(* A step in which one run at most lets rows go.                           *)
LEMMA LettingGo ==
    ASSUME DeliveryInv, UNCHANGED created, NEW r \in Processes, NEW x \in DeliveryRuns,
           run' = [run EXCEPT ![r] = x],
           \A c \in Delivery!Channels : c \in x.rows \/ x.now = c => Delivery!Holds(r, c),
           delivery' \in [Delivery!Channels -> DeliveryRows \cup {None}],
           \A c \in Delivery!Channels : delivery'[c] = None <=> delivery[c] = None
    PROVE  DeliveryInv'
  BY DEF DeliveryInv, Delivery!Holds

LEMMA BackoffIsInt == \A n \in Int : Delivery!Min({2^n, 1}) \in Int
  BY DEF Delivery!Min

LEMMA SystemKeepsRows ==
    ASSUME DeliveryInv, Delivery!ChangeRecipient \/ Delivery!Create \/ Delivery!Tick
    PROVE  DeliveryInv' /\ Delivery!OutcomeStands
  <1> USE NoneAssumption DEF DeliveryInv, Delivery!OutcomeStands, Delivery!Holds
  <1>1. CASE Delivery!ChangeRecipient BY <1>1 DEF Delivery!ChangeRecipient
  <1>2. CASE Delivery!Create BY <1>2 DEF DeliveryRows, DeliveryStatuses, Delivery!Create
  <1>3. CASE Delivery!Tick
    <2>1. \A c \in Delivery!Channels :
              IF delivery[c] = None THEN delivery'[c] = None
              ELSE delivery'[c] \in DeliveryRows /\ delivery'[c].status = delivery[c].status
      <3> SUFFICES ASSUME NEW c \in Delivery!Channels, delivery[c] # None
                   PROVE  delivery'[c] \in DeliveryRows /\ delivery'[c].status = delivery[c].status
        BY <1>3 DEF Delivery!Tick
      <3> DEFINE w == IF delivery[c].wait = 0 THEN 0 ELSE delivery[c].wait - 1
                 g == IF delivery[c].status = "PROCESSING" /\ delivery[c].age < 1
                      THEN delivery[c].age + 1 ELSE delivery[c].age
      <3>1. delivery[c] \in DeliveryRows OBVIOUS
      <3>2. w \in Int /\ g \in Int BY <3>1, RowsTyped
      <3>3. delivery'[c] = Aged(delivery[c], w, g) BY <1>3 DEF Delivery!Tick, Aged
      <3> HIDE DEF w, g
      <3> QED BY <3>1, <3>2, <3>3, RowsTyped
    <2>2. UNCHANGED <<created, run>> /\ delivery' = [c \in Delivery!Channels |-> delivery'[c]]
      BY <1>3 DEF Delivery!Tick
    <2> QED BY <2>1, <2>2
  <1> QED BY <1>1, <1>2, <1>3

(* What a run does, and its crash.                                         *)
LEMMA RunKeepsRows ==
    ASSUME DeliveryInv, NEW r \in Processes, Delivery!Step(r) \/ Delivery!Crash(r)
    PROVE  DeliveryInv' /\ Delivery!OutcomeStands
  <1> USE NoneAssumption DEF DeliveryInv, Delivery!OutcomeStands
  <1>0. run[r] \in DeliveryRuns OBVIOUS
  <1>1. CASE Delivery!Process(r)
    <2>1. Delivery!Taken \in SUBSET Delivery!Channels BY DEF Delivery!Taken
    <2>2. \A c \in Delivery!Taken : delivery[c] # None /\ delivery[c] \in DeliveryRows
             /\ delivery[c].status \notin Delivery!Terminal
      BY <2>1 DEF Delivery!Taken, Delivery!Due, Delivery!Stale, Delivery!Terminal
    <2>3. LET full == Loaded(run[r], Delivery!Taken)
          IN  full \in DeliveryRuns /\ full.rows = Delivery!Taken /\ full.now = run[r].now
      BY <1>0, <2>1, LoadedTyped
    <2>4. /\ run' = [run EXCEPT ![r] = Loaded(run[r], Delivery!Taken)]
          /\ delivery' = [c \in Delivery!Channels |-> IF c \in Delivery!Taken
                THEN Taking(delivery[c]) ELSE delivery[c]]
          /\ created' = created
      BY <1>1 DEF Delivery!Process, Loaded, Taking
    <2>5. delivery' \in [Delivery!Channels -> DeliveryRows \cup {None}] BY <2>2, <2>4, RowsTyped
    <2>6. /\ \A c \in Delivery!Channels : delivery'[c] = None <=> delivery[c] = None
          /\ Delivery!OutcomeStands
      BY <2>2, <2>4, RowsTyped
    <2>7. run' \in [Processes -> DeliveryRuns] BY <2>3, <2>4
    <2>8. \A q \in Processes, c \in Delivery!Channels :
              Delivery!Holds(q, c)' => delivery'[c] # None
      BY <2>2, <2>3, <2>4, <2>6 DEF Delivery!Holds
    <2> QED BY <2>4, <2>5, <2>6, <2>7, <2>8
  <1>2. ASSUME NEW c \in Delivery!Channels, Delivery!Send(r, c)
        PROVE  DeliveryInv' /\ Delivery!OutcomeStands
    <2>1. PICK outcome \in {"DELIVERED", "FAILED"} :
              run' = [run EXCEPT ![r] = Sending(run[r], c, outcome)]
      BY <1>2, Zenon DEF Delivery!Send, Sending
    <2>2. /\ c \in run[r].rows /\ UNCHANGED <<created, delivery>> BY <1>2 DEF Delivery!Send
    <2> DEFINE x == Sending(run[r], c, outcome)
    <2>3. x \in DeliveryRuns /\ x.rows = run[r].rows \ {c} /\ x.now = c BY <1>0, SendingTyped
    <2> HIDE DEF x
    <2>4. run' = [run EXCEPT ![r] = x] BY <2>1 DEF x
    <2> QED BY <2>2, <2>3, <2>4, LettingGo DEF Delivery!Holds
  <1>3. CASE Delivery!Record(r)
    <2> DEFINE c == run[r].now
               after == Delivery!After(c, run[r].outcome)
    <2>1. c \in Delivery!Channels /\ delivery[c] # None /\ delivery[c] \in DeliveryRows
      BY <1>0, <1>3 DEF Delivery!Record, Delivery!Holds, DeliveryRuns
    <2>2. after \in DeliveryRows
      <3> DEFINE n == delivery[c].attempts + 1
                 s == IF run[r].outcome = "DELIVERED" THEN "DELIVERED"
                      ELSE IF n >= Tries THEN "FAILED" ELSE "PENDING"
                 w == IF run[r].outcome = "FAILED" /\ n < Tries
                      THEN Delivery!Min({2^n, 1}) ELSE 0
      <3>1. n \in Int BY <2>1, RowsTyped
      <3>2. w \in Int BY <3>1, BackoffIsInt
      <3>3. s \in DeliveryStatuses BY DEF DeliveryStatuses, Delivery!Terminal
      <3>4. after = Counted(delivery[c], n, s, w) BY DEF Delivery!After, Counted
      <3> HIDE DEF n, s, w, after
      <3> QED BY <2>1, <3>1, <3>2, <3>3, <3>4, RowsTyped
    <2>3. UNCHANGED delivery
          \/ /\ delivery[c].status \notin Delivery!Terminal
             /\ delivery' = [delivery EXCEPT ![c] = after]
      BY <1>3 DEF Delivery!Record, Delivery!Open
    <2>4. PICK x \in {Alarmed(run[r]), Through(run[r]), Delivery!Idle} :
              run' = [run EXCEPT ![r] = x]
      BY <1>3 DEF Delivery!Record, Alarmed, Through
    <2>5. created' = created BY <1>3 DEF Delivery!Record
    <2> HIDE DEF after
    <2>6. delivery' \in [Delivery!Channels -> DeliveryRows \cup {None}] BY <2>1, <2>2, <2>3
    <2>7. /\ \A d \in Delivery!Channels : delivery'[d] = None <=> delivery[d] = None
          /\ Delivery!OutcomeStands
      BY <2>1, <2>2, <2>3
    <2>8. x \in DeliveryRuns /\ \A d \in Delivery!Channels :
              d \in x.rows \/ x.now = d => Delivery!Holds(r, d)
      BY <1>0, <2>4, RunsTyped DEF Delivery!Holds
    <2> QED BY <2>4, <2>5, <2>6, <2>7, <2>8, LettingGo
  <1>4. CASE Delivery!Alert(r) \/ Delivery!Crash(r)
    <2>1. UNCHANGED <<created, delivery>> BY <1>4 DEF Delivery!Alert, Delivery!Crash
    <2>2. PICK x \in {Told(run[r]), Delivery!Idle} : run' = [run EXCEPT ![r] = x]
      BY <1>4 DEF Delivery!Alert, Delivery!Crash, Told
    <2>3. x \in DeliveryRuns /\ \A d \in Delivery!Channels :
              d \in x.rows \/ x.now = d => Delivery!Holds(r, d)
      BY <1>0, <2>2, RunsTyped DEF Delivery!Holds
    <2> QED BY <2>1, <2>2, <2>3, LettingGo
  <1> QED BY <1>1, <1>2, <1>3, <1>4 DEF Delivery!Step

LEMMA DeliveryNext == DeliveryInv /\ Delivery!Next => DeliveryInv' /\ Delivery!OutcomeStands
  BY SystemKeepsRows, RunKeepsRows DEF Delivery!Next

LEMMA DeliveryStutter == DeliveryInv /\ UNCHANGED deliveryVars => DeliveryInv' /\ Delivery!OutcomeStands
  BY DEF DeliveryInv, deliveryVars, Delivery!OutcomeStands, Delivery!Holds

-----------------------------------------------------------------------------
(* No late step undoes an outcome, of whichever component.                 *)
LEMMA CompletedStays ==
    DepositsInv /\ (Deposits!Next \/ UNCHANGED depositsVars) => Deposits!KeepsCompleted
  <1> SUFFICES ASSUME DepositsInv, Deposits!Next \/ UNCHANGED depositsVars,
                      NEW d \in PaymentKeys, intent[d] = "COMPLETED"
               PROVE  intent'[d] = "COMPLETED"
    BY DEF Deposits!KeepsCompleted
  <1>1. intent \in [PaymentKeys -> Deposits!IntentStatuses] BY DEF DepositsInv, Deposits!TypeOK
  <1>2. ASSUME UNCHANGED intent PROVE intent'[d] = "COMPLETED" BY <1>2
  <1>3. ASSUME NEW s \in Processes, NEW k \in PaymentKeys, Deposits!CreateIntent(s, k)
        PROVE  intent'[d] = "COMPLETED"
    BY <1>1, <1>3 DEF Deposits!CreateIntent
  <1>4. ASSUME NEW h \in Processes, Deposits!ApplyStatus(h)
        PROVE  intent'[d] = "COMPLETED"
    BY <1>1, <1>4 DEF Deposits!ApplyStatus, Deposits!CompleteDeposit, Deposits!FailDeposit
  <1> QED BY <1>2, <1>3, <1>4
       DEF Deposits!Next, depositsVars, Deposits!dbVars, Deposits!CreateRow, Deposits!SubmitOrder,
           Deposits!StoreCheckout, Deposits!CrashStart, Deposits!OrderChanges, Deposits!Deliver,
           Deposits!QueryStatus, Deposits!HandleFails

(* A step of a behaviour is one of the component it is about.              *)
LEMMA PartsOnly ==
    ASSUME [Next]_vars
    PROVE  /\ part' = part
           /\ part = "Content" => Content!Next \/ UNCHANGED contentVars
           /\ part = "Kyc" => Kyc!Next \/ UNCHANGED kycVars
           /\ part = "Scoring" => Scoring!Next \/ UNCHANGED scoringVars
           /\ part = "Delivery" => Delivery!Next \/ UNCHANGED deliveryVars
           /\ part = "Data" => Data!Next \/ UNCHANGED dataVars
           /\ part = "Pages" => Pages!Next \/ UNCHANGED pagesVars
           /\ part = "Deposits" => Deposits!Next \/ UNCHANGED depositsVars
  BY DEF Next, vars, ContentStep, KycStep, ScoringStep, DeliveryStep, BoardStep, DataStep,
         PagesStep, DepositsStep

(* What was decided, closed or credited stays so, and the task publishes   *)
(* nothing early that no request changed after its reading: for any users, *)
(* runs, staff, items and attempts.                                        *)
THEOREM OutcomesAreFinal == Spec => OutcomesStand
  <1> DEFINE Inv == /\ part = "Content" => ContentInv
                    /\ part = "Kyc" => CasesInv
                    /\ part = "Delivery" => DeliveryInv
                    /\ part = "Deposits" => DepositsInv
             Stand == /\ part = "Kyc" => Kyc!DecisionStands
                      /\ part = "Delivery" => Delivery!OutcomeStands
                      /\ part = "Content" => Content!PublishesOnTime
                      /\ part = "Deposits" => Deposits!KeepsCompleted
  <1>1. Init => Inv BY ContentInit, CasesInit, DeliveryInit, DepositsInit DEF Init
  <1>2. Inv /\ [Next]_vars => Inv' /\ Stand
    <2> SUFFICES ASSUME Inv, [Next]_vars PROVE Inv' /\ Stand OBVIOUS
    <2>1. part' = part BY PartsOnly
    <2>2. CASE part = "Content"
      BY <2>1, <2>2, PartsOnly, ContentNext, ContentStutter, TaskPublishesOnTime
    <2>3. CASE part = "Kyc" BY <2>1, <2>3, PartsOnly, CasesNext, CasesStutter
    <2>4. CASE part = "Delivery" BY <2>1, <2>4, PartsOnly, DeliveryNext, DeliveryStutter
    <2>5. CASE part = "Deposits"
      BY <2>1, <2>5, PartsOnly, DepositsNext, DepositsStutter, CompletedStays
    <2> QED BY <2>1, <2>2, <2>3, <2>4, <2>5
  <1>3. Inv /\ [Next]_vars => [Stand]_vars BY <1>2
  <1> QED BY <1>1, <1>2, <1>3, PTL DEF Spec, OutcomesStand
-----------------------------------------------------------------------------
(* What is recorded is what happened, component by component.              *)

(* Public pages: a reader of a page nobody has overlapped holds the logo   *)
(* of the row, and so does what the cache keeps.                           *)
PagesInv ==
    /\ rows \in [{1, 2} -> [public : BOOLEAN, matches : BOOLEAN, logo : Int]]
    /\ changesOfPages \in Int
    /\ cacheOfPages = [k \in {0, 1, 2} |-> cacheOfPages[k]]
    /\ callsOfPages = [r \in {"request"} |-> callsOfPages[r]]
    /\ callsOfPages["request"] =
          [pc |-> callsOfPages["request"].pc, key |-> callsOfPages["request"].key,
           order |-> callsOfPages["request"].order, data |-> callsOfPages["request"].data]
    /\ uploadsOfPages = [u \in {"upload"} |-> uploadsOfPages[u]]
    /\ 1 \notin overlappedOfPages =>
          /\ cacheOfPages[1] # None /\ uploadsOfPages["upload"] # 1
                => cacheOfPages[1] = [logo |-> rows[1].logo]
          /\ callsOfPages["request"].pc = "read" /\ callsOfPages["request"].key = 1
                /\ callsOfPages["request"].data # None
                => callsOfPages["request"].data = [logo |-> rows[1].logo]

(* Fantasy points: what a scoring that nothing has overlapped read is      *)
(* still so, and what it has written is what can be computed again.        *)
PlayerValues == [Scoring!Players -> Int \cup {None}]
AdminJobs == {"recalculate", "finalize", "correct"}
Scores(w) ==
    w.job \in {"task"} \cup AdminJobs =>
        /\ w.statistics \in PlayerValues /\ w.corrected \in PlayerValues
        /\ w.edit = None \/ w.edit.value \in Int
PointsSum == Scoring!MapThenSumSet(LAMBDA p : points[p].total, Scoring!Players)
WorkersTyped ==
    worker = [a \in Scoring!Actors |-> worker[a]] /\ \A a \in Scoring!Actors : Scores(worker[a])
EditedBy(e, s) == IF e = None THEN s ELSE [s EXCEPT ![e.player] = e.value]
ReadsCurrent ==
    /\ worker["task"].job = "task" =>
          worker["task"].corrected = corrected /\ worker["task"].statistics = statistics
    /\ worker["admin"].job \in AdminJobs =>
          worker["admin"].statistics = EditedBy(worker["admin"].edit, statistics)
NoTaskLeft == ~overlapped /\ ~lost /\ pending = {} /\ worker["task"].job # "task"
Totals == \A p \in Scoring!Players :
              points[p].total = IF corrected[p] = None THEN points[p].base ELSE corrected[p]
Recomputed == score # -8 => score = Scoring!TeamTotal(statistics, corrected)
OneBonus == \E bonus \in Scoring!Players :
                score = PointsSum + points[bonus].total * (2 - 1) - 4
ScoringInv ==
    /\ WorkersTyped
    /\ statistics \in PlayerValues /\ corrected \in PlayerValues
    /\ ~overlapped => ReadsCurrent
    /\ ~overlapped /\ score # -8 => Totals
    /\ score # -8 => OneBonus
    /\ NoTaskLeft => Scoring!AllScored /\ Recomputed

(* Notifications: what a row says of its attempts, and what the runs that  *)
(* hold it have sent.                                                      *)
RowsCount ==
    \A c \in Delivery!Channels :
        /\ delivery[c] = None => sent[c] = 0
        /\ delivery[c] # None =>
              /\ delivery[c].status \notin Delivery!Terminal => delivery[c].attempts < Tries
              /\ delivery[c].status = "FAILED" => delivery[c].attempts = Tries
              /\ delivery[c].status = "DELIVERED" => sent[c] > 0
RunsTell ==
    \A r \in Processes :
        /\ run[r].now # None /\ run[r].outcome = "DELIVERED" => sent[run[r].now] > 0
        /\ run[r].now = None => ~run[r].alert
OneHolder ==
    /\ \A q, r \in Processes, c \in Delivery!Channels :
          Delivery!Holds(q, c) /\ Delivery!Holds(r, c) => q = r
    /\ \A r \in Processes, c \in Delivery!Channels :
          /\ run[r].now = c => c \notin run[r].rows
          /\ Delivery!Holds(r, c) =>
                delivery[c].status = IF run[r].now = c /\ run[r].alert THEN "FAILED" ELSE "PROCESSING"
    /\ \A c \in Delivery!Channels : sent[c] > 0 =>
          \/ delivery[c] # None /\ delivery[c].status = "DELIVERED"
          \/ \E r \in Processes : run[r].now = c /\ run[r].outcome = "DELIVERED" /\ ~run[r].alert
SentInv ==
    /\ sent \in [Delivery!Channels -> Nat] /\ crashes \in Nat
    /\ RowsCount /\ RunsTell
    /\ ~slow /\ crashes = 0 => OneHolder

(* Match data: a row of a file that is past is locked or in the statistics *)
(* already; what an upload read of its row is still there while no other   *)
(* upload commits.                                                         *)
KeyAt(u, i) == Data!Key(uploads[u].file[i])
ValueAt(u, i) == uploads[u].file[i].value
RowsOfFiles == [fixture : Int, player : Int, value : Int]

Distinct(u) ==
    /\ uploads[u].file \in Seq(RowsOfFiles)
    /\ \A i \in 1..Len(uploads[u].file) : KeyAt(u, i) \in Data!Keys
    /\ \A i, j \in 1..Len(uploads[u].file) : KeyAt(u, i) = KeyAt(u, j) => i = j
Stages(u) ==
    /\ uploads[u].pc \in {"idle", "valid"} => uploads[u].next = 1 /\ uploads[u].written = {}
    /\ uploads[u].pc \in {"valid", "read", "write"} => Distinct(u)
    /\ ingestion[u] = "COMPLETED" =>
          uploads[u].pc \in {"dispatch", "done", "lost"} /\ Distinct(u)
Entries(u) ==
    uploads[u].pc \in {"read", "write"} =>
        /\ uploads[u].next \in 1..(Len(uploads[u].file) + 1)
        /\ uploads[u].pc = "write" => uploads[u].next <= Len(uploads[u].file)
        /\ \A e \in uploads[u].written : \E i \in 1..(uploads[u].next - 1) :
              e = <<KeyAt(u, i), ValueAt(u, i)>>
Undisturbed(u) ==
    u \notin disturbed =>
        /\ uploads[u].pc \in {"read", "write"} => \A i \in 1..(uploads[u].next - 1) :
              KeyAt(u, i) \in Data!Locks(u) \/ statisticsOfData[KeyAt(u, i)] = ValueAt(u, i)
        /\ uploads[u].pc = "write" =>
              uploads[u].seen = statisticsOfData[KeyAt(u, uploads[u].next)]
        /\ ingestion[u] = "COMPLETED" => \A i \in 1..Len(uploads[u].file) :
              statisticsOfData[KeyAt(u, i)] = ValueAt(u, i)
UploadFields(u) ==
    uploads[u] = [pc |-> uploads[u].pc, file |-> uploads[u].file, next |-> uploads[u].next,
                  seen |-> uploads[u].seen, written |-> uploads[u].written,
                  centres |-> uploads[u].centres]
DataInv ==
    /\ statisticsOfData = [k \in Data!Keys |-> statisticsOfData[k]]
    /\ writer = [k \in Data!Keys |-> writer[k]]
    /\ ingestion = [u \in Processes |-> ingestion[u]]
    /\ uploads = [u \in Processes |-> uploads[u]]
    /\ \A k \in Data!Keys : writer[k] # None =>
          writer[k] \in Processes /\ ingestion[writer[k]] = "COMPLETED"
    /\ \A u \in Processes : UploadFields(u) /\ Stages(u) /\ Entries(u) /\ Undisturbed(u)

(* Verification: only the task of the newest attempt is alive, and what    *)
(* its duplicate check did not find was open at the same time.             *)
Live(u, n) == tasks[<<u, n>>].step \in {"queued", "started", "checked"}
LatestLive(u) ==
    \A n \in 1..Tries : Live(u, n) =>
        n = verification[u].attempts /\ (Kyc!InProgress(u) \/ u \in bypassed)
BypassedVerified(u) == u \in bypassed => verification[u].status = "VERIFIED"
Numbered(u) ==
    /\ Kyc!InProgress(u) => verification[u].attempts >= 1
           /\ attempts[<<u, verification[u].attempts>>] \notin Kyc!Closed
    /\ verification[u].status \in {"PENDING", "PROCESSING", "RETRY_REQUIRED"} =>
          \A n \in 1..verification[u].attempts :
              (Kyc!InProgress(u) => n # verification[u].attempts) => attempts[<<u, n>>] \in Kyc!Closed
    /\ verification[u].status = "RETRY_REQUIRED" => verification[u].attempts < Tries
    /\ verification[u].status = "NOT_STARTED" => verification[u].attempts = 0
OpenTogether ==
    \A u, v \in Processes : u # v /\ Kyc!InProgress(u) /\ Kyc!InProgress(v) => {u, v} \in together
SameDocument(u, v) ==
    u # v /\ verification[u].hash = verification[v].hash /\ verification[u].hash # None
Standing(u) == verification[u].status \in {"REVIEW", "VERIFIED"} /\ u \notin warned \cup bypassed
CheckedBefore(u) ==
    /\ Kyc!InProgress(u)
    /\ \E n \in 1..Tries : /\ tasks[<<u, n>>].step = "checked"
                           /\ tasks[<<u, n>>].checks # "duplicate_identity_detected"
KnownTogether ==
    \A u, v \in Processes :
        (CheckedBefore(u) \/ Standing(u)) /\ SameDocument(u, v) /\ Standing(v) => {u, v} \in together
KycInv ==
    /\ CasesInv
    /\ \A u \in Processes : LatestLive(u) /\ BypassedVerified(u) /\ Numbered(u)
    /\ OpenTogether /\ KnownTogether

Recorded ==
    /\ part = "Kyc" => KycInv
    /\ part = "Delivery" => DeliveryInv /\ SentInv
    /\ part = "Scoring" => ScoringInv
    /\ part = "Data" => DataInv
    /\ part = "Pages" => PagesInv

-----------------------------------------------------------------------------
(* Public pages.                                                           *)
LEMMA PagesInit == Pages!Init => PagesInv
  BY DEF Pages!Init, PagesInv, Pages!Idle, Pages!Keys

PageRows == [public : BOOLEAN, matches : BOOLEAN, logo : Int]

LEMMA PagesNext == PagesInv /\ Pages!Next => PagesInv'
  <1> SUFFICES ASSUME PagesInv, Pages!Next PROVE PagesInv' OBVIOUS
  <1> USE DEF PagesInv
  <1>1. ASSUME NEW key \in Pages!Keys, NEW ordering, Pages!Ask("request", key, ordering)
        PROVE  PagesInv'
    BY <1>1 DEF Pages!Ask
  <1>2. CASE Pages!ReadRows("request")
    <2> DEFINE call == callsOfPages["request"]
    <2>1. /\ callsOfPages' = [callsOfPages EXCEPT !["request"] =
                 [call EXCEPT !.pc = "read", !.data = Pages!ReadOf(call.key, call.order)]]
          /\ UNCHANGED <<rows, cacheOfPages, uploadsOfPages, changesOfPages, overlappedOfPages>>
      BY <1>2 DEF Pages!ReadRows
    <2>2. call.key = 1 => Pages!ReadOf(call.key, call.order) \in {None, [logo |-> rows[1].logo]}
      BY DEF Pages!ReadOf, Pages!PublicPage
    <2>3. PICK read : read = Pages!ReadOf(call.key, call.order) OBVIOUS
    <2>4. callsOfPages'["request"] = [pc |-> "read", key |-> call.key, order |-> call.order,
                                      data |-> read]
      BY <2>1, <2>3
    <2>5. callsOfPages' = [r \in {"request"} |-> callsOfPages'[r]] BY <2>1
    <2> QED BY <2>1, <2>2, <2>3, <2>4, <2>5
  <1>3. CASE Pages!Store("request")
    <2> DEFINE call == callsOfPages["request"]
    <2>1. /\ call.pc = "read"
          /\ cacheOfPages' = IF call.data = None THEN cacheOfPages
                             ELSE [cacheOfPages EXCEPT ![call.key] = call.data]
          /\ callsOfPages' = [callsOfPages EXCEPT !["request"] = Pages!Idle]
          /\ UNCHANGED <<rows, uploadsOfPages, changesOfPages, overlappedOfPages>>
      BY <1>3 DEF Pages!Store, Pages!CacheKey
    <2> QED BY <2>1 DEF Pages!Idle
  <1>4. CASE Pages!SearchFails("request") BY <1>4 DEF Pages!SearchFails, Pages!Idle
  <1>5. ASSUME NEW k \in Pages!Keys, Pages!Expire(k) PROVE PagesInv'
    BY <1>5 DEF Pages!Expire, Pages!Readers
  <1>6. CASE Pages!SaveLogo("upload", 1)
    <2>1. /\ rows' = [rows EXCEPT ![1] = [rows[1] EXCEPT !.logo = changesOfPages + 1]]
          /\ changesOfPages' = changesOfPages + 1
          /\ uploadsOfPages' = [uploadsOfPages EXCEPT !["upload"] = 1]
          /\ UNCHANGED <<cacheOfPages, callsOfPages>>
          /\ 1 \notin overlappedOfPages' => 1 \notin overlappedOfPages /\ ~Pages!Readers(1)
      BY <1>6 DEF Pages!SaveLogo
    <2>2. rows' \in [{1, 2} -> PageRows] BY <2>1 DEF PageRows
    <2> QED BY <2>1, <2>2 DEF Pages!Readers, PageRows
  <1>7. CASE Pages!BustCache("upload") BY <1>7 DEF Pages!BustCache, Pages!Busted
  <1>8. ASSUME NEW p \in {1, 2}, Pages!Change(p) PROVE PagesInv'
    <2>1. PICK new : /\ new \in {[rows[p] EXCEPT !.public = ~ @], [rows[p] EXCEPT !.matches = ~ @]}
                     /\ rows' = [rows EXCEPT ![p] = new]
      BY <1>8 DEF Pages!Change
    <2>2. rows[p] \in PageRows BY DEF PageRows
    <2>3. new \in PageRows /\ new.logo = rows[p].logo BY <2>1, <2>2 DEF PageRows
    <2>4. rows' \in [{1, 2} -> PageRows] /\ rows'[1].logo = rows[1].logo BY <2>1, <2>3 DEF PageRows
    <2>5. /\ changesOfPages' = changesOfPages + 1
          /\ UNCHANGED <<cacheOfPages, callsOfPages, uploadsOfPages, overlappedOfPages>>
      BY <1>8 DEF Pages!Change
    <2> QED BY <2>4, <2>5 DEF PageRows
  <1> QED BY <1>1, <1>2, <1>3, <1>4, <1>5, <1>6, <1>7, <1>8
          DEF Pages!Next, Pages!AskAny, Pages!Finish

LEMMA PagesStutter == PagesInv /\ UNCHANGED pagesVars => PagesInv'
  BY DEF PagesInv, pagesVars

LEMMA PagesAreCurrent == PagesInv => Pages!CachedLogoIsCurrent
  BY DEF PagesInv, Pages!CachedLogoIsCurrent

-----------------------------------------------------------------------------
(* Fantasy points.                                                         *)
LEMMA ScoringInit == Scoring!Init => ScoringInv
  <1> SUFFICES ASSUME Scoring!Init PROVE ScoringInv OBVIOUS
  <1>1. score = -8 BY DEF Scoring!Init, Scoring!NoScore
  <1>2. \A a \in Scoring!Actors : worker[a].job = "idle" BY DEF Scoring!Init, Scoring!Idle
  <1>3. Scoring!AllScored BY DEF Scoring!Init, Scoring!AllScored, Scoring!IsScored
  <1>4. ReadsCurrent BY <1>2 DEF ReadsCurrent, AdminJobs, Scoring!Actors
  <1>5. WorkersTyped /\ statistics \in PlayerValues /\ corrected \in PlayerValues
    BY <1>2 DEF Scoring!Init, WorkersTyped, PlayerValues, Scores, AdminJobs, Scoring!Actors
  <1> QED BY <1>1, <1>3, <1>4, <1>5 DEF ScoringInv, Recomputed

(* The recursions of the two sums are the one of SumOf.                    *)
Team(s, c) == [p \in Scoring!Players |-> Scoring!Corrected(s, c, p)]
TeamIn(s, c, P) ==
    (CHOOSE g : g = [t \in SUBSET P |->
                        IF t = {} THEN 0
                        ELSE Scoring!Corrected(s, c, CHOOSE x \in t : TRUE)
                             + g[t \ {CHOOSE x \in t : TRUE}]])[P]
PointsIn(f, P) ==
    (CHOOSE g : g = [t \in SUBSET P |->
                        IF t = {} THEN 0
                        ELSE f[CHOOSE x \in t : TRUE].total
                             + g[t \ {CHOOSE x \in t : TRUE}]])[P]

LEMMA PlayersAreFinite == IsFiniteSet(Scoring!Players)
  <1>1. Scoring!Players = ({} \cup {"captain"}) \cup {"vice"} BY DEF Scoring!Players
  <1>2. IsFiniteSet({} \cup {"captain"}) BY FS_EmptySet, FS_AddElement
  <1> QED BY <1>1, <1>2, FS_AddElement

LEMMA CorrectedIsInt ==
    ASSUME NEW s \in PlayerValues, NEW c \in PlayerValues, NEW p \in Scoring!Players
    PROVE  Scoring!Corrected(s, c, p) \in Int
  BY DEF PlayerValues, Scoring!Corrected, Scoring!Base

LEMMA TeamInIsSum ==
    ASSUME NEW P, IsFiniteSet(P), NEW s, NEW c, NEW f,
           \A p \in P : f[p] \in Int /\ f[p] = Scoring!Corrected(s, c, p)
    PROVE  TeamIn(s, c, P) = SumOf(f, P)
  <1> DEFINE G == CHOOSE g : g = [t \in SUBSET P |->
                        IF t = {} THEN 0
                        ELSE Scoring!Corrected(s, c, CHOOSE x \in t : TRUE)
                             + g[t \ {CHOOSE x \in t : TRUE}]]
  <1>2. PICK g \in [SUBSET P -> Int] :
            (\A t \in SUBSET P : Solves(g, f, t)) /\ SumOf(f, P) = g[P]
    BY SumIsSolution
  <1>0. \A t \in SUBSET P : t # {} => f[Some(t)] = Scoring!Corrected(s, c, Some(t)) BY SomeIsMember
  <1>3. g = [t \in SUBSET P |->
                        IF t = {} THEN 0
                        ELSE Scoring!Corrected(s, c, CHOOSE x \in t : TRUE)
                             + g[t \ {CHOOSE x \in t : TRUE}]]
    BY <1>0, <1>2 DEF Solves, Some
  <1>4. PICK h : /\ h = [t \in SUBSET P |->
                        IF t = {} THEN 0
                        ELSE Scoring!Corrected(s, c, CHOOSE x \in t : TRUE)
                             + h[t \ {CHOOSE x \in t : TRUE}]]
                 /\ TeamIn(s, c, P) = h[P]
    <2>1. G = [t \in SUBSET P |->
                        IF t = {} THEN 0
                        ELSE Scoring!Corrected(s, c, CHOOSE x \in t : TRUE)
                             + G[t \ {CHOOSE x \in t : TRUE}]]
      BY <1>3, ZenonT(30)
    <2> QED BY <2>1, Zenon DEF TeamIn
  <1>5. \A t \in SUBSET P : Solves(h, f, t) BY <1>0, <1>4 DEF Solves, Some
  <1>6. SumOf(f, P) = h[P] BY <1>5, SumOfSubset
  <1> QED BY <1>4, <1>6

LEMMA PointsInIsSum ==
    ASSUME NEW P, IsFiniteSet(P), NEW r, NEW f,
           \A p \in P : f[p] \in Int /\ f[p] = r[p].total
    PROVE  PointsIn(r, P) = SumOf(f, P)
  <1> DEFINE G == CHOOSE g : g = [t \in SUBSET P |->
                        IF t = {} THEN 0
                        ELSE r[CHOOSE x \in t : TRUE].total
                             + g[t \ {CHOOSE x \in t : TRUE}]]
  <1>2. PICK g \in [SUBSET P -> Int] :
            (\A t \in SUBSET P : Solves(g, f, t)) /\ SumOf(f, P) = g[P]
    BY SumIsSolution
  <1>0. \A t \in SUBSET P : t # {} => f[Some(t)] = r[Some(t)].total BY SomeIsMember
  <1>3. g = [t \in SUBSET P |->
                        IF t = {} THEN 0
                        ELSE r[CHOOSE x \in t : TRUE].total
                             + g[t \ {CHOOSE x \in t : TRUE}]]
    BY <1>0, <1>2 DEF Solves, Some
  <1>4. PICK h : /\ h = [t \in SUBSET P |->
                        IF t = {} THEN 0
                        ELSE r[CHOOSE x \in t : TRUE].total
                             + h[t \ {CHOOSE x \in t : TRUE}]]
                 /\ PointsIn(r, P) = h[P]
    <2>1. G = [t \in SUBSET P |->
                        IF t = {} THEN 0
                        ELSE r[CHOOSE x \in t : TRUE].total
                             + G[t \ {CHOOSE x \in t : TRUE}]]
      BY <1>3, ZenonT(30)
    <2> QED BY <2>1, Zenon DEF PointsIn
  <1>5. \A t \in SUBSET P : Solves(h, f, t) BY <1>0, <1>4 DEF Solves, Some
  <1>6. SumOf(f, P) = h[P] BY <1>5, SumOfSubset
  <1> QED BY <1>4, <1>6

(* A score is the points of the players, with one bonus and the penalty.   *)
LEMMA PointsSumStays == UNCHANGED points => PointsSum' = PointsSum
  BY DEF PointsSum, Scoring!MapThenSumSet, Scoring!MapThenFoldSet

LEMMA TotalOfData ==
    ASSUME NEW s, NEW c, statistics = s, corrected = c
    PROVE  Scoring!TeamTotal(statistics, corrected) = Scoring!TeamTotal(s, c)
  OBVIOUS

LEMMA NextTotalOfData ==
    ASSUME NEW s, NEW c, statistics' = s, corrected' = c
    PROVE  Scoring!TeamTotal(statistics, corrected)' = Scoring!TeamTotal(s, c)
  BY DEF Scoring!TeamTotal, Scoring!Corrected, Scoring!Base, Scoring!EffectiveCaptain,
         Scoring!Participated, Scoring!MapThenSumSet, Scoring!MapThenFoldSet

LEMMA WriteExplains ==
    ASSUME NEW a, Scoring!Write(a), worker[a].statistics \in PlayerValues,
           worker[a].corrected \in PlayerValues
    PROVE  /\ corrected' = worker[a].corrected => Totals'
           /\ OneBonus'
           /\ statistics' = worker[a].statistics => Scoring!AllScored'
           /\ statistics' = worker[a].statistics /\ corrected' = worker[a].corrected => Recomputed'
  <1>1. PICK s \in PlayerValues, c \in PlayerValues :
            s = worker[a].statistics /\ c = worker[a].corrected
    OBVIOUS
  <1>2. /\ points' = [p \in Scoring!Players |-> [base |-> Scoring!Base(s, p),
                                               total |-> Scoring!Corrected(s, c, p)]]
        /\ score' = Scoring!TeamTotal(s, c)
    BY <1>1 DEF Scoring!Write
  <1>3. PICK f : f = Team(s, c) OBVIOUS
  <1>4. \A p \in Scoring!Players : f[p] \in Int /\ f[p] = Scoring!Corrected(s, c, p)
    BY <1>3, CorrectedIsInt DEF Team
  <1>5. \A p \in Scoring!Players : points'[p].total = Scoring!Corrected(s, c, p) BY <1>2
  <1>6. PointsSum' = SumOf(f, Scoring!Players)
    <2>1. PointsSum' = PointsIn(points', Scoring!Players)
      BY DEF PointsSum, Scoring!MapThenSumSet, Scoring!MapThenFoldSet, PointsIn
    <2>2. \A p \in Scoring!Players : f[p] \in Int /\ f[p] = points'[p].total BY <1>4, <1>5
    <2>3. PointsIn(points', Scoring!Players) = SumOf(f, Scoring!Players)
      BY <2>2, PlayersAreFinite, PointsInIsSum
    <2> QED BY <2>1, <2>3
  <1>7. TeamIn(s, c, Scoring!Players) = SumOf(f, Scoring!Players)
    BY <1>4, PlayersAreFinite, TeamInIsSum
  <1>8. Scoring!TeamTotal(s, c) = TeamIn(s, c, Scoring!Players)
            + Scoring!Corrected(s, c, Scoring!EffectiveCaptain(s)) * (2 - 1) - 4
    BY DEF Scoring!TeamTotal, Scoring!MapThenSumSet, Scoring!MapThenFoldSet, TeamIn
  <1>9. Scoring!EffectiveCaptain(s) \in Scoring!Players
    BY DEF Scoring!EffectiveCaptain, Scoring!Players
  <1>10. score' = PointsSum' + points'[Scoring!EffectiveCaptain(s)].total * (2 - 1) - 4
    BY <1>2, <1>5, <1>6, <1>7, <1>8, <1>9
  <1>11. \A p \in Scoring!Players : points'[p].base = Scoring!Base(s, p) BY <1>2
  <1>12. corrected' = c => Totals' BY <1>5, <1>11 DEF Totals, Scoring!Corrected
  <1>13. OneBonus' BY <1>9, <1>10 DEF OneBonus
  <1>14. statistics' = s => Scoring!AllScored'
    BY <1>2, <1>11, CorrectedIsInt, NoneAssumption DEF Scoring!AllScored, Scoring!IsScored,
       Scoring!Base, PlayerValues
  <1>15. statistics' = s /\ corrected' = c => Recomputed' BY <1>2, NextTotalOfData DEF Recomputed
  <1> QED BY <1>1, <1>12, <1>13, <1>14, <1>15

(* A step that scores nothing: what the actors keep of their readings.     *)
LEMMA NothingScored ==
    ASSUME ScoringInv, UNCHANGED <<corrected, points, score>>,
           WorkersTyped', statistics' \in PlayerValues,
           overlapped => overlapped', ~overlapped' => ReadsCurrent',
           NoTaskLeft' => NoTaskLeft /\ statistics' = statistics
    PROVE  ScoringInv'
  <1>1. ~overlapped' /\ score' # -8 => Totals' BY DEF ScoringInv, Totals
  <1>2. score' # -8 => OneBonus' BY PointsSumStays DEF ScoringInv, OneBonus
  <1>3. NoTaskLeft' => Scoring!AllScored'
    BY DEF ScoringInv, Scoring!AllScored, Scoring!IsScored
  <1>4. NoTaskLeft' => Recomputed' BY TotalOfData, NextTotalOfData DEF ScoringInv, Recomputed
  <1> QED BY <1>1, <1>2, <1>3, <1>4 DEF ScoringInv

LEMMA ReadingsAreKept ==
    ASSUME ScoringInv, NEW a \in {"task", "admin"}, NEW n,
           NEW job \in IF a = "task" THEN {"task"} ELSE {"recalculate", "finalize"},
           Scoring!Read(a, job, n), UNCHANGED <<statistics, corrected, overlapped>>
    PROVE  /\ WorkersTyped'
           /\ ~overlapped' => ReadsCurrent'
           /\ worker'["task"].job = "task" \/ worker'["task"] = worker["task"]
  <1>1. PICK w : w = [job |-> job, retries |-> n, statistics |-> statistics, corrected |-> corrected,
            advance |-> job = "recalculate" /\ status \in {"LOCKED", "LIVE"}, edit |-> None]
    OBVIOUS
  <1>2. worker' = [worker EXCEPT ![a] = w] BY <1>1 DEF Scoring!Read
  <1>3. w.corrected = corrected /\ w.statistics = statistics /\ w.edit = None /\ w.job = job
    BY <1>1
  <1>4. Scores(w) BY <1>3 DEF Scores, ScoringInv
  <1>5. WorkersTyped' BY <1>2, <1>3, <1>4 DEF ScoringInv, WorkersTyped, Scores, Scoring!Actors
  <1>6. worker'[a] = w /\ \A b \in {"task", "admin"} \ {a} : worker'[b] = worker[b]
    BY <1>2 DEF ScoringInv, WorkersTyped, Scoring!Actors
  <1>7. ~overlapped' => ReadsCurrent'
    BY <1>3, <1>6 DEF ScoringInv, ReadsCurrent, EditedBy, AdminJobs
  <1> QED BY <1>3, <1>5, <1>6, <1>7

Turns(a, w) == worker' = [worker EXCEPT ![a] = w]

LEMMA ActorRests ==
    ASSUME ScoringInv, NEW a \in Scoring!Actors, NEW w, w.job \in {"idle", "advance"},
           Turns(a, w)
    PROVE  /\ WorkersTyped'
           /\ \A b \in {"task", "admin"} \ {a} : worker'[b] = worker[b]
           /\ worker'[a].job \notin {"task"} \cup AdminJobs
  BY DEF ScoringInv, WorkersTyped, Scores, Scoring!Actors, AdminJobs, Turns

LEMMA EditIsKept ==
    ASSUME ScoringInv, NEW s \in PlayerValues, NEW c \in PlayerValues, NEW edit,
           edit = None \/ edit.value \in Int, s = EditedBy(edit, statistics),
           Scoring!Edit(s, c, edit)
    PROVE  ScoringInv'
  <1>1. PICK w : w = [job |-> "correct", retries |-> 0, statistics |-> s, corrected |-> c,
                      advance |-> FALSE, edit |-> edit]
    OBVIOUS
  <1>2. worker' = [worker EXCEPT !["admin"] = w] BY <1>1 DEF Scoring!Edit
  <1>3. Scores(w) BY <1>1 DEF Scores
  <1>4. /\ WorkersTyped'
        /\ worker'["task"] = worker["task"] /\ worker'["admin"] = w
    BY <1>2, <1>3 DEF ScoringInv, WorkersTyped, Scores, Scoring!Actors
  <1>5. UNCHANGED <<statistics, corrected, points, score, overlapped, lost, pending>>
    BY DEF Scoring!Edit, Scoring!data
  <1>6. ~overlapped' => ReadsCurrent'
    BY <1>1, <1>4, <1>5 DEF ScoringInv, ReadsCurrent, EditedBy
  <1>7. NoTaskLeft' => NoTaskLeft BY <1>4, <1>5 DEF NoTaskLeft
  <1>8. statistics' \in PlayerValues BY <1>5 DEF ScoringInv
  <1> QED BY <1>4, <1>5, <1>6, <1>7, <1>8, NothingScored

LEMMA TaskIsExplained ==
    ASSUME ScoringInv, Scoring!TaskDone
    PROVE  ScoringInv'
  <1>1. /\ worker["task"].job = "task" /\ Scoring!Write("task")
        /\ worker' = [worker EXCEPT !["task"] = Scoring!Idle]
        /\ UNCHANGED <<statistics, corrected>>
        /\ ~overlapped' => ~overlapped /\ ~Scoring!Scoring("admin")
    BY DEF Scoring!TaskDone, Scoring!Overlaps, Scoring!Actors
  <1>2. worker["task"].statistics \in PlayerValues /\ worker["task"].corrected \in PlayerValues
    BY <1>1 DEF ScoringInv, WorkersTyped, Scores, Scoring!Actors
  <1>3. /\ corrected' = worker["task"].corrected => Totals'
        /\ OneBonus'
        /\ statistics' = worker["task"].statistics => Scoring!AllScored'
        /\ statistics' = worker["task"].statistics /\ corrected' = worker["task"].corrected
              => Recomputed'
    BY <1>1, <1>2, WriteExplains
  <1>4. /\ WorkersTyped'
        /\ worker'["admin"] = worker["admin"] /\ worker'["task"].job # "task"
    <2>1. Scoring!Idle.job = "idle" BY DEF Scoring!Idle
    <2>2. {"task", "admin"} \subseteq Scoring!Actors BY DEF Scoring!Actors
    <2>3. Turns("task", Scoring!Idle) BY <1>1 DEF Turns
    <2> QED BY <2>1, <2>2, <2>3, ActorRests
  <1>5. ~overlapped' => /\ corrected' = worker["task"].corrected
                        /\ statistics' = worker["task"].statistics
    BY <1>1 DEF ScoringInv, ReadsCurrent
  <1>6. ~overlapped' => ReadsCurrent'
    BY <1>1, <1>4 DEF ReadsCurrent, Scoring!Scoring, AdminJobs
  <1>7. NoTaskLeft' => ~overlapped' BY DEF NoTaskLeft
  <1> QED BY <1>1, <1>3, <1>4, <1>5, <1>6, <1>7 DEF ScoringInv

LEMMA AdminIsExplained ==
    ASSUME ScoringInv, Scoring!AdminDone
    PROVE  ScoringInv'
  <1>1. /\ worker["admin"].job \in AdminJobs
        /\ Scoring!Write("admin")
        /\ worker' = [worker EXCEPT !["admin"] = Scoring!Idle]
        /\ corrected' = worker["admin"].corrected
        /\ statistics' = EditedBy(worker["admin"].edit, statistics)
        /\ ~overlapped' => ~overlapped /\ ~Scoring!Scoring("task")
    BY DEF Scoring!AdminDone, Scoring!Overlaps, Scoring!Actors, AdminJobs, EditedBy
  <1>2. /\ worker["admin"].statistics \in PlayerValues /\ worker["admin"].corrected \in PlayerValues
        /\ worker["admin"].edit = None \/ worker["admin"].edit.value \in Int
    BY <1>1 DEF ScoringInv, WorkersTyped, Scores, Scoring!Actors
  <1>3. /\ corrected' = worker["admin"].corrected => Totals'
        /\ OneBonus'
        /\ statistics' = worker["admin"].statistics => Scoring!AllScored'
        /\ statistics' = worker["admin"].statistics /\ corrected' = worker["admin"].corrected
              => Recomputed'
    BY <1>1, <1>2, WriteExplains
  <1>4. /\ WorkersTyped'
        /\ worker'["task"] = worker["task"] /\ worker'["admin"].job \notin AdminJobs
    <2>1. Scoring!Idle.job = "idle" BY DEF Scoring!Idle
    <2>2. {"task", "admin"} \subseteq Scoring!Actors BY DEF Scoring!Actors
    <2>3. Turns("admin", Scoring!Idle) BY <1>1 DEF Turns
    <2> QED BY <2>1, <2>2, <2>3, ActorRests
  <1>5. ~overlapped' => worker'["task"].job # "task" BY <1>1, <1>4 DEF Scoring!Scoring
  <1>6. statistics' \in PlayerValues
    BY <1>1, <1>2 DEF ScoringInv, EditedBy, PlayerValues
  <1>7. ~overlapped' => statistics' = worker["admin"].statistics
    BY <1>1 DEF ScoringInv, ReadsCurrent
  <1>8. ~overlapped' => ReadsCurrent' BY <1>4, <1>5 DEF ReadsCurrent
  <1>9. NoTaskLeft' => ~overlapped' BY DEF NoTaskLeft
  <1> QED BY <1>1, <1>2, <1>3, <1>4, <1>6, <1>7, <1>8, <1>9 DEF ScoringInv

LEMMA ScoringNext == ScoringInv /\ Scoring!Next => ScoringInv'
  <1> SUFFICES ASSUME ScoringInv, Scoring!Next PROVE ScoringInv' OBVIOUS
  <1>0. /\ statistics \in PlayerValues /\ corrected \in PlayerValues
        /\ Scoring!Idle.job = "idle"
        /\ "task" \in Scoring!Actors /\ "command" \in Scoring!Actors
    BY DEF ScoringInv, Scoring!Idle, Scoring!Actors
  <1>2. CASE Scoring!Tick \/ Scoring!PlayFixture \/ Scoring!Approve
             \/ \E s \in Scoring!Statuses : Scoring!Transition(s)
    <2>1. UNCHANGED <<statistics, corrected, points, score, worker, overlapped, lost, pending>>
      BY <1>2 DEF Scoring!Tick, Scoring!PlayFixture, Scoring!Approve, Scoring!Transition, Scoring!data
    <2>2. (NoTaskLeft' => NoTaskLeft) /\ WorkersTyped' /\ (~overlapped' => ReadsCurrent')
      BY <2>1 DEF NoTaskLeft, ScoringInv, WorkersTyped, Scores, ReadsCurrent
    <2> QED BY <1>0, <2>1, <2>2, NothingScored
  <1>3. ASSUME NEW p \in Scoring!Players, NEW v \in Scoring!Values,
               Scoring!Ingest(p, v) \/ Scoring!CreateStatistic(p, v)
        PROVE  ScoringInv'
    <2>1. /\ statistics' = [statistics EXCEPT ![p] = v]
          /\ UNCHANGED <<corrected, points, score, worker>>
          /\ overlapped => overlapped'
          /\ ~overlapped' => ~Scoring!Scoring("task") /\ ~Scoring!Scoring("admin")
          /\ lost' = TRUE \/ 0 \in pending'
      BY <1>3 DEF Scoring!Ingest, Scoring!CreateStatistic, Scoring!Overlaps, Scoring!Actors
    <2>2. v \in Int BY DEF Scoring!Values
    <2>3. statistics' \in PlayerValues BY <1>0, <2>1, <2>2 DEF PlayerValues
    <2>4. WorkersTyped' BY <2>1 DEF ScoringInv, WorkersTyped, Scores
    <2>5. ~overlapped' => ReadsCurrent'
      BY <2>1 DEF ReadsCurrent, Scoring!Scoring, AdminJobs
    <2>6. ~NoTaskLeft' BY <2>1 DEF NoTaskLeft
    <2> QED BY <2>1, <2>3, <2>4, <2>5, <2>6, NothingScored
  <1>4. CASE Scoring!TaskStart
    <2>1. PICK n \in pending :
              /\ IF Scoring!TaskSkips(status) THEN worker' = worker ELSE Scoring!Read("task", "task", n)
              /\ lost' = (lost \/ status = "FINALIZED")
              /\ UNCHANGED <<statistics, corrected, points, score, overlapped>>
      BY <1>4 DEF Scoring!TaskStart, Scoring!data
    <2>2. CASE Scoring!TaskSkips(status)
      <3>1. worker' = worker /\ lost' = TRUE BY <2>1, <2>2 DEF Scoring!TaskSkips
      <3>2. ~NoTaskLeft' /\ WorkersTyped' /\ (~overlapped' => ReadsCurrent')
        BY <2>1, <3>1 DEF NoTaskLeft, ScoringInv, WorkersTyped, Scores, ReadsCurrent
      <3> QED BY <1>0, <2>1, <3>2, NothingScored
    <2>3. CASE ~Scoring!TaskSkips(status)
      BY <1>0, <2>1, <2>3, ReadingsAreKept, NothingScored DEF Scoring!Read, ScoringInv,
         WorkersTyped, Scoring!Actors, NoTaskLeft
    <2> QED BY <2>2, <2>3
  <1>5. CASE Scoring!TaskRetry \/ Scoring!TaskDropped \/ Scoring!CommandRead \/ Scoring!CommandWrite
    <2>1. UNCHANGED <<statistics, corrected, points, score, overlapped>>
      BY <1>5 DEF Scoring!TaskRetry, Scoring!TaskDropped, Scoring!CommandRead, Scoring!CommandWrite,
                  Scoring!data
    <2>2. PICK w : w = [job |-> "advance", target |-> Scoring!Target(status)] OBVIOUS
    <2>3. \/ Turns("task", Scoring!Idle) /\ (lost' = TRUE \/ pending' # {})
          \/ Turns("command", Scoring!Idle) /\ UNCHANGED <<lost, pending>>
          \/ Turns("command", w) /\ UNCHANGED <<lost, pending>>
      BY <1>5, <2>2 DEF Scoring!TaskRetry, Scoring!TaskDropped, Scoring!CommandRead,
                        Scoring!CommandWrite, Turns
    <2>4. PICK i : i = Scoring!Idle OBVIOUS
    <2>5. i.job = "idle" /\ w.job = "advance" BY <1>0, <2>2, <2>4
    <2>6. PICK a \in Scoring!Actors, x \in {i, w} :
              Turns(a, x) /\ ((a = "command" /\ UNCHANGED <<lost, pending>>) \/ ~NoTaskLeft')
      BY <1>0, <2>3, <2>4 DEF NoTaskLeft
    <2>7. /\ WorkersTyped'
          /\ \A b \in {"task", "admin"} \ {a} : worker'[b] = worker[b]
          /\ worker'[a].job \notin {"task"} \cup AdminJobs
      BY <2>5, <2>6, ActorRests
    <2>8. ~overlapped' => ReadsCurrent' BY <2>1, <2>7 DEF ScoringInv, ReadsCurrent
    <2>9. NoTaskLeft' => NoTaskLeft BY <2>1, <2>6, <2>7 DEF NoTaskLeft
    <2> QED BY <1>0, <2>1, <2>7, <2>8, <2>9, NothingScored
  <1>6. CASE Scoring!Recalculate \/ Scoring!Finalize
    BY <1>0, <1>6, ReadingsAreKept, NothingScored DEF Scoring!Recalculate, Scoring!Finalize,
       Scoring!data, NoTaskLeft
  <1>7. ASSUME NEW p \in Scoring!Players, NEW v \in Scoring!Values,
               Scoring!CreateCorrection(p, v) \/ Scoring!CorrectStatistic(p, v)
        PROVE  ScoringInv'
    <2>1. v \in Int BY DEF Scoring!Values
    <2>2. PICK e : e = [player |-> p, value |-> v] OBVIOUS
    <2>3. e.value \in Int /\ e # None /\ e.player = p /\ e.value = v BY <2>1, <2>2, NoneAssumption
    <2>4. /\ [corrected EXCEPT ![p] = v] \in PlayerValues
          /\ [statistics EXCEPT ![p] = v] \in PlayerValues
          /\ [statistics EXCEPT ![p] = v] = EditedBy(e, statistics)
          /\ statistics = EditedBy(None, statistics)
      BY <1>0, <2>1, <2>3 DEF PlayerValues, EditedBy
    <2>5. \/ Scoring!Edit(statistics, [corrected EXCEPT ![p] = v], None)
          \/ Scoring!Edit([statistics EXCEPT ![p] = v], corrected, e)
      BY <1>7, <2>2 DEF Scoring!CreateCorrection, Scoring!CorrectStatistic
    <2> QED BY <1>0, <2>3, <2>4, <2>5, EditIsKept
  <1> QED BY <1>2, <1>3, <1>4, <1>5, <1>6, <1>7, TaskIsExplained, AdminIsExplained
          DEF Scoring!Next, Scoring!Task, Scoring!Command

LEMMA ScoringStutter == ScoringInv /\ UNCHANGED scoringVars => ScoringInv'
  <1> SUFFICES ASSUME ScoringInv, UNCHANGED scoringVars PROVE ScoringInv' OBVIOUS
  <1>1. UNCHANGED <<statistics, corrected, points, score, worker, overlapped, lost, pending>>
    BY DEF scoringVars
  <1>2. /\ (NoTaskLeft' => NoTaskLeft) /\ WorkersTyped' /\ (~overlapped' => ReadsCurrent')
        /\ statistics' \in PlayerValues
    BY <1>1 DEF NoTaskLeft, ScoringInv, WorkersTyped, Scores, ReadsCurrent
  <1> QED BY <1>1, <1>2, NothingScored

LEMMA ScoresAreExplained == ScoringInv => Scoring!ScoresExplained
  <1> SUFFICES ASSUME ScoringInv, ~overlapped, \A a \in Scoring!Actors : ~Scoring!Scoring(a)
               PROVE  /\ score # Scoring!NoScore => Totals /\ OneBonus
                      /\ pending = {} /\ ~lost =>
                            /\ Scoring!AllScored
                            /\ score # Scoring!NoScore => score = Scoring!TeamTotal(statistics, corrected)
    BY DEF Scoring!ScoresExplained, Totals, OneBonus, PointsSum
  <1>1. Scoring!NoScore = -8 BY DEF Scoring!NoScore
  <1>2. worker["task"].job # "task" BY DEF Scoring!Scoring, Scoring!Actors
  <1> QED BY <1>1, <1>2 DEF ScoringInv, NoTaskLeft, Recomputed

-----------------------------------------------------------------------------
(* Notifications.                                                          *)
LEMMA SentInit == Delivery!Init => SentInv
  <1>1. Delivery!Idle.rows = {} /\ Delivery!Idle.now = None /\ ~Delivery!Idle.alert
    BY DEF Delivery!Idle
  <1> QED BY <1>1, NoneAssumption
          DEF Delivery!Init, SentInv, RowsCount, RunsTell, OneHolder, Delivery!Holds


LEMMA SystemKeepsSent ==
    ASSUME DeliveryInv, SentInv, Delivery!ChangeRecipient \/ Delivery!Create \/ Delivery!Tick
    PROVE  SentInv'
  <1>1. CASE Delivery!ChangeRecipient
    BY <1>1 DEF Delivery!ChangeRecipient, SentInv, RowsCount, RunsTell, OneHolder, Delivery!Holds
  <1>2. CASE Delivery!Create
    <2>1. /\ UNCHANGED <<sent, run, slow, crashes>>
          /\ \A c \in Delivery!Channels : delivery[c] = None /\ sent[c] = 0
      BY <1>2 DEF Delivery!Create, DeliveryInv, SentInv, RowsCount
    <2>2. \A c \in Delivery!Channels : delivery'[c] # None =>
              delivery'[c].status \in {"DEFERRED", "PENDING"} /\ delivery'[c].attempts = 0
      BY <1>2 DEF Delivery!Create
    <2>3. \A r \in Processes, c \in Delivery!Channels : ~Delivery!Holds(r, c)
      BY <2>1 DEF DeliveryInv
    <2>4. RowsCount' BY <2>1, <2>2, BoundsAssumption DEF RowsCount, Delivery!Terminal
    <2>5. RunsTell' BY <2>1 DEF RunsTell, SentInv
    <2>6. OneHolder' BY <2>1, <2>3 DEF OneHolder, Delivery!Holds
    <2> QED BY <2>1, <2>4, <2>5, <2>6 DEF SentInv
  <1>3. CASE Delivery!Tick
    <2>1. UNCHANGED <<sent, run, slow, crashes>> BY <1>3 DEF Delivery!Tick
    <2>2. \A c \in Delivery!Channels :
              IF delivery[c] = None THEN delivery'[c] = None
              ELSE /\ delivery'[c] # None /\ delivery'[c].status = delivery[c].status
                   /\ delivery'[c].attempts = delivery[c].attempts
      <3> SUFFICES ASSUME NEW c \in Delivery!Channels, delivery[c] # None
                   PROVE  /\ delivery'[c] # None /\ delivery'[c].status = delivery[c].status
                          /\ delivery'[c].attempts = delivery[c].attempts
        BY <1>3 DEF Delivery!Tick
      <3>1. delivery[c] \in DeliveryRows BY DEF DeliveryInv
      <3>2. delivery[c].wait \in Int /\ delivery[c].age \in Int BY <3>1, RowsTyped
      <3>3. PICK w \in Int, g \in Int : delivery'[c] = Aged(delivery[c], w, g)
        <4> DEFINE w == IF delivery[c].wait = 0 THEN 0 ELSE delivery[c].wait - 1
                   g == IF delivery[c].status = "PROCESSING" /\ delivery[c].age < 1
                        THEN delivery[c].age + 1 ELSE delivery[c].age
        <4>1. w \in Int /\ g \in Int BY <3>2
        <4>2. delivery'[c] = Aged(delivery[c], w, g) BY <1>3 DEF Delivery!Tick, Aged
        <4> QED BY <4>1, <4>2
      <3>4. delivery'[c] \in DeliveryRows /\ delivery'[c].status = delivery[c].status
        BY <3>1, <3>3, RowsTyped
      <3>5. delivery'[c].attempts = delivery[c].attempts BY <3>1, <3>3 DEF Aged, DeliveryRows
      <3> QED BY <3>4, <3>5, NoneAssumption
    <2> QED BY <2>1, <2>2 DEF SentInv, RowsCount, RunsTell, OneHolder, Delivery!Holds
  <1> QED BY <1>1, <1>2, <1>3

(* A run takes rows that nobody holds, unless a run has been slow.         *)
LEMMA ProcessKeepsSent ==
    ASSUME DeliveryInv, SentInv, NEW r \in Processes, Delivery!Process(r)
    PROVE  SentInv'
  <1> DEFINE T == Delivery!Taken
  <1>0. T \subseteq Delivery!Channels BY DEF Delivery!Taken
  <1>1. \A c \in T : /\ delivery[c] # None /\ delivery[c] \in DeliveryRows
                     /\ delivery[c].status \notin Delivery!Terminal
    BY <1>0 DEF DeliveryInv, Delivery!Taken, Delivery!Due, Delivery!Stale, Delivery!Terminal
  <1>2. /\ delivery' = [c \in Delivery!Channels |-> IF c \in T THEN Taking(delivery[c]) ELSE delivery[c]]
        /\ run' = [run EXCEPT ![r] = Loaded(run[r], T)]
        /\ run[r].now = None /\ run[r].rows = {} /\ ~run[r].alert
        /\ UNCHANGED <<sent, crashes>>
        /\ ~slow' => ~slow /\ \A c \in T, o \in Processes : ~Delivery!Holds(o, c)
    <2>1. /\ delivery' = [c \in Delivery!Channels |-> IF c \in T THEN Taking(delivery[c]) ELSE delivery[c]]
          /\ run' = [run EXCEPT ![r] = Loaded(run[r], T)]
          /\ UNCHANGED <<sent, crashes>>
      BY DEF Delivery!Process, Loaded, Taking
    <2>2. run[r].now = None /\ run[r].rows = {} /\ ~run[r].alert
      <3>1. run[r] = Delivery!Idle BY DEF Delivery!Process
      <3>2. Delivery!Idle.now = None /\ Delivery!Idle.rows = {} /\ ~Delivery!Idle.alert
        BY DEF Delivery!Idle
      <3> QED BY <3>1, <3>2
    <2>3. ~slow' => ~slow /\ \A c \in T, o \in Processes : ~Delivery!Holds(o, c)
      BY DEF Delivery!Process
    <2> QED BY <2>1, <2>2, <2>3
  <1>3. \A c \in T : /\ delivery'[c] # None /\ delivery'[c].status = "PROCESSING"
                     /\ delivery'[c].attempts = delivery[c].attempts
    BY <1>0, <1>1, <1>2, RowsTyped, NoneAssumption DEF Taking, DeliveryRows
  <1>4. \A c \in Delivery!Channels \ T : delivery'[c] = delivery[c] BY <1>2
  <1> HIDE DEF T
  <1>5. RowsCount' BY <1>0, <1>1, <1>2, <1>3, <1>4 DEF SentInv, RowsCount, Delivery!Terminal
  <1>6. /\ run' = [q \in Processes |-> run'[q]]
        /\ run'[r].rows = T /\ run'[r].now = None /\ ~run'[r].alert
        /\ run'[r].outcome = run[r].outcome
        /\ \A q \in Processes \ {r} : run'[q] = run[q]
    BY <1>2 DEF DeliveryInv, DeliveryRuns, Loaded
  <1>7. RunsTell' BY <1>2, <1>6 DEF SentInv, RunsTell
  <1>8. ASSUME ~slow', crashes' = 0 PROVE OneHolder'
    <2>1. OneHolder /\ \A c \in T, o \in Processes : ~Delivery!Holds(o, c) BY <1>2, <1>8 DEF SentInv
    <2>2. \A c \in Delivery!Channels : Delivery!Holds(r, c)' <=> c \in T
      BY <1>6, NoneAssumption DEF Delivery!Holds
    <2>3. \A q \in Processes \ {r}, c \in Delivery!Channels :
              (Delivery!Holds(q, c)' <=> Delivery!Holds(q, c)) /\ ~(Delivery!Holds(q, c) /\ c \in T)
      BY <1>6, <2>1 DEF Delivery!Holds
    <2>4. \A q, p \in Processes, c \in Delivery!Channels :
              Delivery!Holds(q, c)' /\ Delivery!Holds(p, c)' => q = p
      BY <2>1, <2>2, <2>3 DEF OneHolder
    <2>5. ASSUME NEW q \in Processes, NEW c \in Delivery!Channels
          PROVE  /\ run'[q].now = c => c \notin run'[q].rows
                 /\ Delivery!Holds(q, c)' => delivery'[c].status =
                       IF run'[q].now = c /\ run'[q].alert THEN "FAILED" ELSE "PROCESSING"
      <3>1. CASE q = r BY <1>3, <1>6, <2>2, <3>1, NoneAssumption
      <3>2. CASE q # r BY <1>4, <1>6, <2>1, <2>3, <3>2 DEF OneHolder
      <3> QED BY <3>1, <3>2
    <2>6. ASSUME NEW c \in Delivery!Channels, sent'[c] > 0
          PROVE  \/ delivery'[c] # None /\ delivery'[c].status = "DELIVERED"
                 \/ \E q \in Processes : run'[q].now = c /\ run'[q].outcome = "DELIVERED" /\ ~run'[q].alert
      <3>1. CASE delivery[c] # None /\ delivery[c].status = "DELIVERED"
        BY <1>1, <1>4, <3>1 DEF Delivery!Terminal
      <3>2. ASSUME NEW q \in Processes, run[q].now = c, run[q].outcome = "DELIVERED", ~run[q].alert
            PROVE  run'[q].now = c /\ run'[q].outcome = "DELIVERED" /\ ~run'[q].alert
        BY <1>2, <1>6, <3>2, NoneAssumption
      <3> QED BY <1>2, <2>1, <2>6, <3>1, <3>2 DEF OneHolder
    <2> QED BY <2>4, <2>5, <2>6 DEF OneHolder
  <1> QED BY <1>2, <1>5, <1>7, <1>8 DEF SentInv

(* A run sends one of its rows.                                            *)
LEMMA SendKeepsSent ==
    ASSUME DeliveryInv, SentInv, NEW r \in Processes, NEW c \in Delivery!Channels,
           Delivery!Send(r, c)
    PROVE  SentInv'
  <1>1. PICK outcome \in {"DELIVERED", "FAILED"} :
            /\ run' = [run EXCEPT ![r] = Sending(run[r], c, outcome)]
            /\ sent' = [sent EXCEPT ![c] = IF outcome = "DELIVERED" THEN sent[c] + 1 ELSE sent[c]]
    BY Zenon DEF Delivery!Send, Sending
  <1>2. /\ run[r].now = None /\ c \in run[r].rows /\ UNCHANGED <<delivery, slow, crashes>>
        /\ Delivery!Holds(r, c) /\ ~run[r].alert
    BY DEF Delivery!Send, Delivery!Holds, SentInv, RunsTell
  <1>3. /\ run'[r].now = c /\ run'[r].outcome = outcome /\ ~run'[r].alert
        /\ run'[r].rows = run[r].rows \ {c}
        /\ \A q \in Processes \ {r} : run'[q] = run[q]
    BY <1>1, <1>2 DEF DeliveryInv, DeliveryRuns, Sending
  <1>4. /\ sent' \in [Delivery!Channels -> Nat]
        /\ sent'[c] \in Nat /\ sent[c] \in Nat /\ sent'[c] >= sent[c]
        /\ outcome = "DELIVERED" => sent'[c] > 0
        /\ outcome = "FAILED" => sent'[c] = sent[c]
        /\ \A d \in Delivery!Channels \ {c} : sent'[d] = sent[d]
    BY <1>1 DEF SentInv
  <1>5. c # None /\ delivery[c] # None /\ None \notin Delivery!Channels
    BY <1>2, NoneAssumption DEF DeliveryInv
  <1>6. RowsCount' BY <1>2, <1>4, <1>5 DEF SentInv, RowsCount
  <1>7. RunsTell'
    <2> SUFFICES ASSUME NEW q \in Processes
                 PROVE  /\ run'[q].now # None /\ run'[q].outcome = "DELIVERED" => sent'[run'[q].now] > 0
                        /\ run'[q].now = None => ~run'[q].alert
      BY DEF RunsTell
    <2>1. CASE q = r BY <1>3, <1>4, <1>5, <2>1
    <2>2. CASE q # r BY <1>3, <1>4, <2>2 DEF DeliveryInv, DeliveryRuns, SentInv, RunsTell
    <2> QED BY <2>1, <2>2
  <1>8. ASSUME ~slow', crashes' = 0 PROVE OneHolder'
    <2>1. OneHolder BY <1>2, <1>8 DEF SentInv
    <2>2. \A q \in Processes, d \in Delivery!Channels : Delivery!Holds(q, d)' <=> Delivery!Holds(q, d)
      BY <1>2, <1>3, <1>5 DEF Delivery!Holds
    <2>3. ASSUME NEW q \in Processes, NEW d \in Delivery!Channels
          PROVE  /\ run'[q].now = d => d \notin run'[q].rows
                 /\ Delivery!Holds(q, d)' => delivery'[d].status =
                       IF run'[q].now = d /\ run'[q].alert THEN "FAILED" ELSE "PROCESSING"
      <3>1. CASE q = r BY <1>2, <1>3, <2>1, <2>2, <3>1 DEF OneHolder
      <3>2. CASE q # r BY <1>2, <1>3, <2>1, <2>2, <3>2 DEF OneHolder
      <3> QED BY <3>1, <3>2
    <2>4. ASSUME NEW d \in Delivery!Channels, sent'[d] > 0
          PROVE  \/ delivery'[d] # None /\ delivery'[d].status = "DELIVERED"
                 \/ \E q \in Processes : run'[q].now = d /\ run'[q].outcome = "DELIVERED" /\ ~run'[q].alert
      <3>1. CASE d = c /\ outcome = "DELIVERED" BY <1>3, <3>1
      <3>2. CASE ~(d = c /\ outcome = "DELIVERED")
        <4>1. sent[d] > 0 BY <1>4, <2>4, <3>2
        <4>2. ASSUME NEW q \in Processes, run[q].now = d, run[q].outcome = "DELIVERED", ~run[q].alert
              PROVE  run'[q].now = d /\ run'[q].outcome = "DELIVERED" /\ ~run'[q].alert
          BY <1>2, <1>3, <1>5, <4>2
        <4> QED BY <1>2, <2>1, <4>1, <4>2 DEF OneHolder
      <3> QED BY <3>1, <3>2
    <2> QED BY <2>1, <2>2, <2>3, <2>4 DEF OneHolder
  <1> QED BY <1>2, <1>4, <1>6, <1>7, <1>8 DEF SentInv

(* A run records what came of the row it sent.                             *)
LEMMA RecordKeepsSent ==
    ASSUME DeliveryInv, SentInv, NEW r \in Processes, Delivery!Record(r)
    PROVE  SentInv'
  <1>0. PICK c, outcome : c = run[r].now /\ outcome = run[r].outcome OBVIOUS
  <1>1. /\ run[r] \in DeliveryRuns /\ c \in Delivery!Channels /\ c # None /\ ~run[r].alert
        /\ delivery[c] \in DeliveryRows /\ Delivery!Holds(r, c)
        /\ UNCHANGED <<sent, slow, crashes>>
    BY <1>0, NoneAssumption DEF Delivery!Record, Delivery!Holds, DeliveryRuns, DeliveryInv
  <1>2. sent[c] \in Nat /\ (outcome = "DELIVERED" => sent[c] > 0)
    BY <1>0, <1>1 DEF SentInv, RunsTell
  <1>3. delivery[c] # None /\ delivery[c].attempts \in Int BY <1>1, RowsTyped DEF DeliveryInv
  <1> DEFINE n == delivery[c].attempts + 1
             s == IF outcome = "DELIVERED" THEN "DELIVERED"
                  ELSE IF n >= Tries THEN "FAILED" ELSE "PENDING"
             w == IF outcome = "FAILED" /\ n < Tries THEN Delivery!Min({2^n, 1}) ELSE 0
  <1>4. Delivery!After(c, outcome) = Counted(delivery[c], n, s, w) BY DEF Delivery!After, Counted
  <1>5. n \in Int /\ w \in Int /\ s \in DeliveryStatuses
    BY <1>3, BackoffIsInt DEF DeliveryStatuses, Delivery!Terminal
  <1>6. LET after == Delivery!After(c, outcome)
        IN  after \in DeliveryRows /\ after # None /\ after.status = s /\ after.attempts = n
    <2>1. Counted(delivery[c], n, s, w) \in DeliveryRows BY <1>1, <1>5, RowsTyped
    <2>2. Counted(delivery[c], n, s, w).status = s /\ Counted(delivery[c], n, s, w).attempts = n
      BY <1>1 DEF Counted, DeliveryRows
    <2> QED BY <1>4, <2>1, <2>2, NoneAssumption
  <1>7. \/ /\ delivery[c].status \notin Delivery!Terminal
           /\ delivery' = [delivery EXCEPT ![c] = Delivery!After(c, outcome)]
           /\ s = "FAILED" => run' = [run EXCEPT ![r] = Alarmed(run[r])]
           /\ s # "FAILED" => run' = [run EXCEPT ![r] = Through(run[r])]
        \/ /\ delivery[c].status \in Delivery!Terminal /\ UNCHANGED delivery
           /\ \/ run' = [run EXCEPT ![r] = Through(run[r])]
              \/ run' = [run EXCEPT ![r] = Delivery!Idle]
    BY <1>0, <1>6 DEF Delivery!Record, Delivery!Open, Alarmed, Through
  <1>8. delivery[c].status \notin Delivery!Terminal =>
            /\ n <= Tries
            /\ s # "DELIVERED" /\ s # "FAILED" => n < Tries
            /\ s = "FAILED" => n = Tries
            /\ s = "DELIVERED" <=> outcome = "DELIVERED"
            /\ s \in Delivery!Terminal => s \in {"DELIVERED", "FAILED"}
    BY <1>1, <1>3, <1>5, BoundsAssumption DEF SentInv, RowsCount, Delivery!Terminal
  <1>9. /\ Alarmed(run[r]).rows = run[r].rows /\ Alarmed(run[r]).now = c /\ Alarmed(run[r]).alert
        /\ Alarmed(run[r]).outcome = outcome
        /\ Through(run[r]).rows = run[r].rows /\ Through(run[r]).now = None /\ ~Through(run[r]).alert
        /\ Delivery!Idle.rows = {} /\ Delivery!Idle.now = None /\ ~Delivery!Idle.alert
    BY <1>0, <1>1 DEF Alarmed, Through, Delivery!Idle, DeliveryRuns
  <1> HIDE DEF n, s, w
  <1>10. PICK x : /\ run' = [run EXCEPT ![r] = x]
                  /\ x.rows \subseteq run[r].rows
                  /\ \/ x.now = None /\ ~x.alert /\ (delivery[c].status \in Delivery!Terminal \/ s # "FAILED")
                     \/ /\ x.now = c /\ x.alert /\ x.outcome = outcome
                        /\ s = "FAILED" /\ delivery[c].status \notin Delivery!Terminal
    BY <1>7, <1>9
  <1>11. run'[r] = x /\ \A q \in Processes \ {r} : run'[q] = run[q] BY <1>10 DEF DeliveryInv
  <1>12. \A d \in Delivery!Channels \ {c} : delivery'[d] = delivery[d] BY <1>7 DEF DeliveryInv
  <1>13. \/ delivery'[c] = delivery[c] /\ delivery[c].status \in Delivery!Terminal
         \/ /\ delivery[c].status \notin Delivery!Terminal /\ delivery'[c] # None
            /\ delivery'[c].status = s /\ delivery'[c].attempts = n
    BY <1>1, <1>6, <1>7 DEF DeliveryInv
  <1>14. RowsCount'
    <2>1. RowsCount BY DEF SentInv
    <2>2. ASSUME NEW d \in Delivery!Channels \ {c}
          PROVE  /\ delivery'[d] = None => sent'[d] = 0
                 /\ delivery'[d] # None =>
                       /\ delivery'[d].status \notin Delivery!Terminal => delivery'[d].attempts < Tries
                       /\ delivery'[d].status = "FAILED" => delivery'[d].attempts = Tries
                       /\ delivery'[d].status = "DELIVERED" => sent'[d] > 0
      BY <1>1, <1>12, <2>1 DEF RowsCount
    <2>3. /\ delivery'[c] # None
          /\ delivery'[c].status \notin Delivery!Terminal => delivery'[c].attempts < Tries
          /\ delivery'[c].status = "FAILED" => delivery'[c].attempts = Tries
          /\ delivery'[c].status = "DELIVERED" => sent'[c] > 0
      <3>1. CASE delivery'[c] = delivery[c] BY <1>1, <1>3, <2>1, <3>1 DEF RowsCount
      <3>2. CASE delivery'[c] # delivery[c] BY <1>1, <1>2, <1>8, <1>13, <3>2 DEF Delivery!Terminal
      <3> QED BY <3>1, <3>2
    <2> QED BY <2>2, <2>3 DEF RowsCount
  <1>15. RunsTell' BY <1>1, <1>2, <1>10, <1>11 DEF RunsTell, SentInv
  <1>16. ASSUME ~slow', crashes' = 0 PROVE OneHolder'
    <2>1. OneHolder BY <1>1, <1>16 DEF SentInv
    <2>2. delivery[c].status = "PROCESSING" /\ delivery[c].status \notin Delivery!Terminal
      BY <1>0, <1>1, <2>1 DEF OneHolder, Delivery!Terminal
    <2>3. \A q \in Processes \ {r} : ~Delivery!Holds(q, c) /\ run[q].now # c
      BY <1>1, <2>1 DEF OneHolder, Delivery!Holds
    <2>4. \A q \in Processes, d \in Delivery!Channels : Delivery!Holds(q, d)' => Delivery!Holds(q, d)
      BY <1>0, <1>1, <1>10, <1>11, NoneAssumption DEF Delivery!Holds
    <2>5. c \notin run[r].rows BY <1>0, <1>1, <2>1 DEF OneHolder
    <2>6. ASSUME NEW q \in Processes, NEW d \in Delivery!Channels
          PROVE  /\ run'[q].now = d => d \notin run'[q].rows
                 /\ Delivery!Holds(q, d)' => delivery'[d].status =
                       IF run'[q].now = d /\ run'[q].alert THEN "FAILED" ELSE "PROCESSING"
      <3>1. CASE q = r /\ d = c
        <4>1. Delivery!Holds(r, c)' => x.now = c BY <1>10, <1>11, <2>5 DEF Delivery!Holds
        <4>2. x.now = c => x.alert /\ delivery'[c].status = "FAILED" /\ c \notin x.rows
          BY <1>1, <1>10, <1>13, <2>5
        <4> QED BY <1>11, <3>1, <4>1, <4>2
      <3>2. CASE q = r /\ d # c
        <4>1. x.now # d /\ (Delivery!Holds(r, d)' => d \in run[r].rows)
          BY <1>1, <1>10, <1>11, <3>2, NoneAssumption DEF Delivery!Holds
        <4>2. d \in run[r].rows => delivery[d].status = "PROCESSING"
          BY <2>1, <3>2 DEF OneHolder, Delivery!Holds
        <4> QED BY <1>11, <1>12, <3>2, <4>1, <4>2
      <3>3. CASE q # r /\ d = c BY <1>11, <2>3, <2>4, <3>3
      <3>4. CASE q # r /\ d # c BY <1>11, <1>12, <2>1, <2>4, <3>4 DEF OneHolder
      <3> QED BY <3>1, <3>2, <3>3, <3>4
    <2>7. ASSUME NEW d \in Delivery!Channels, sent'[d] > 0
          PROVE  \/ delivery'[d] # None /\ delivery'[d].status = "DELIVERED"
                 \/ \E q \in Processes : run'[q].now = d /\ run'[q].outcome = "DELIVERED" /\ ~run'[q].alert
      <3>0. \/ delivery[d] # None /\ delivery[d].status = "DELIVERED"
            \/ \E q \in Processes : run[q].now = d /\ run[q].outcome = "DELIVERED" /\ ~run[q].alert
        BY <1>1, <2>1, <2>7 DEF OneHolder
      <3>1. CASE d = c
        <4>1. outcome = "DELIVERED" BY <1>0, <2>2, <2>3, <3>0, <3>1
        <4>2. delivery'[c] # None /\ delivery'[c].status = "DELIVERED" BY <1>8, <1>13, <2>2, <4>1
        <4> QED BY <3>1, <4>2
      <3>2. CASE d # c
        <4>1. ASSUME NEW q \in Processes, run[q].now = d, run[q].outcome = "DELIVERED", ~run[q].alert
              PROVE  run'[q].now = d /\ run'[q].outcome = "DELIVERED" /\ ~run'[q].alert
          BY <1>0, <1>11, <3>2, <4>1
        <4> QED BY <1>12, <3>0, <3>2, <4>1
      <3> QED BY <3>1, <3>2
    <2>8. \A q, p \in Processes, d \in Delivery!Channels :
              Delivery!Holds(q, d)' /\ Delivery!Holds(p, d)' => q = p
      BY <2>1, <2>4 DEF OneHolder
    <2> QED BY <2>6, <2>7, <2>8 DEF OneHolder
  <1> QED BY <1>1, <1>14, <1>15, <1>16 DEF SentInv

(* A run reports a failure, or is lost.                                    *)
LEMMA AlertKeepsSent ==
    ASSUME DeliveryInv, SentInv, NEW r \in Processes, Delivery!Alert(r)
    PROVE  SentInv'
  <1>1. /\ run' = [run EXCEPT ![r] = Told(run[r])]
        /\ run[r].alert /\ run[r] \in DeliveryRuns
        /\ UNCHANGED <<delivery, sent, slow, crashes>>
    BY DEF Delivery!Alert, Told, DeliveryInv
  <1>2. /\ run'[r].rows = run[r].rows /\ run'[r].now = None /\ ~run'[r].alert
        /\ \A q \in Processes \ {r} : run'[q] = run[q]
    BY <1>1 DEF DeliveryInv, DeliveryRuns, Told
  <1>3. RowsCount' /\ RunsTell' BY <1>1, <1>2 DEF SentInv, RowsCount, RunsTell
  <1>4. ASSUME ~slow', crashes' = 0 PROVE OneHolder'
    <2>1. OneHolder BY <1>1, <1>4 DEF SentInv
    <2>2. \A q \in Processes, d \in Delivery!Channels : Delivery!Holds(q, d)' => Delivery!Holds(q, d)
      BY <1>2, NoneAssumption DEF Delivery!Holds
    <2>3. ASSUME NEW q \in Processes, NEW d \in Delivery!Channels
          PROVE  /\ run'[q].now = d => d \notin run'[q].rows
                 /\ Delivery!Holds(q, d)' => delivery'[d].status =
                       IF run'[q].now = d /\ run'[q].alert THEN "FAILED" ELSE "PROCESSING"
      <3>1. CASE q = r BY <1>1, <1>2, <2>1, <3>1, NoneAssumption DEF Delivery!Holds, OneHolder
      <3>2. CASE q # r BY <1>1, <1>2, <2>1, <2>2, <3>2 DEF OneHolder
      <3> QED BY <3>1, <3>2
    <2>4. ASSUME NEW q \in Processes, ~run[q].alert PROVE run'[q] = run[q] BY <1>1, <1>2, <2>4
    <2> QED BY <1>1, <2>1, <2>2, <2>3, <2>4 DEF OneHolder
  <1> QED BY <1>1, <1>3, <1>4 DEF SentInv

LEMMA CrashKeepsSent ==
    ASSUME DeliveryInv, SentInv, NEW r \in Processes, Delivery!Crash(r)
    PROVE  SentInv'
  <1>1. /\ run' = [run EXCEPT ![r] = Delivery!Idle] /\ crashes' = crashes + 1
        /\ UNCHANGED <<delivery, sent, slow>>
        /\ Delivery!Idle.now = None /\ ~Delivery!Idle.alert
    BY DEF Delivery!Crash, Delivery!Idle
  <1>2. RowsCount' /\ RunsTell' BY <1>1 DEF SentInv, RowsCount, RunsTell, DeliveryInv
  <1>3. crashes' \in Nat /\ crashes' # 0 BY <1>1 DEF SentInv
  <1> QED BY <1>1, <1>2, <1>3 DEF SentInv

LEMMA SentNext == DeliveryInv /\ SentInv /\ Delivery!Next => SentInv'
  BY SystemKeepsSent, ProcessKeepsSent, SendKeepsSent, RecordKeepsSent, AlertKeepsSent,
     CrashKeepsSent DEF Delivery!Next, Delivery!Step

LEMMA SentStutter == SentInv /\ UNCHANGED deliveryVars => SentInv'
  BY DEF SentInv, RowsCount, RunsTell, OneHolder, Delivery!Holds, deliveryVars

LEMMA OutcomesAreTrueOfRows == DeliveryInv /\ SentInv => Delivery!OutcomeIsTrue
  BY DEF Delivery!OutcomeIsTrue, SentInv, OneHolder, Delivery!Holds, RowsCount

-----------------------------------------------------------------------------
(* Match data.                                                             *)
LEMMA FilesAreRows == \A file \in Uploaded : file \in Seq(RowsOfFiles)
  <1>1. \A f, p, v \in Int : Row(f, p, v) \in RowsOfFiles BY DEF Row, RowsOfFiles
  <1>2. \A a, b \in RowsOfFiles : <<a>> \in Seq(RowsOfFiles) /\ <<a, b>> \in Seq(RowsOfFiles)
    OBVIOUS
  <1>3. /\ Row(1, 1, 1) \in RowsOfFiles /\ Row(1, 2, 1) \in RowsOfFiles
        /\ Row(1, 2, 2) \in RowsOfFiles /\ Row(1, 1, 2) \in RowsOfFiles
        /\ Row(2, 1, 1) \in RowsOfFiles /\ Row(1, 1, -1) \in RowsOfFiles
        /\ Row(1, 3, 1) \in RowsOfFiles
    BY <1>1
  <1> QED BY <1>2, <1>3 DEF Uploaded

LEMMA SameCardinality == \A S : Data!Cardinality(S) = Cardinality(S)
  BY DEF Data!Cardinality, Cardinality

(* A file with as many keys as rows has no key twice.                      *)
LEMMA CheckedFileIsDistinct ==
    ASSUME NEW file \in Uploaded, Data!ValidateAllRows(file)
    PROVE  /\ \A i \in 1..Len(file) : Data!Key(file[i]) \in Data!Keys
           /\ \A i, j \in 1..Len(file) : Data!Key(file[i]) = Data!Key(file[j]) => i = j
  <1>0. /\ file \in Seq(RowsOfFiles) /\ Len(file) \in Nat /\ DOMAIN file = 1..Len(file)
    BY FilesAreRows
  <1>1. \A i \in 1..Len(file) : file[i] \in Data!Range(file) BY <1>0 DEF Data!Range
  <1>2. \A i \in 1..Len(file) : Data!Key(file[i]) \in Data!Keys
    BY <1>1 DEF Data!ValidateAllRows, Data!ResolveFixture, Data!ResolvePlayer, Data!Key, Data!Keys
  <1> DEFINE K == Data!KeysOf(file)
             keyAt == [i \in 1..Len(file) |-> Data!Key(file[i])]
  <1>3. K = {Data!Key(file[i]) : i \in 1..Len(file)} BY <1>0 DEF Data!KeysOf, Data!Range
  <1>4. keyAt \in Surjection(1..Len(file), K) BY <1>3 DEF Surjection
  <1>5. IsFiniteSet(1..Len(file)) /\ Cardinality(1..Len(file)) = Len(file) BY <1>0, FS_Interval
  <1>6. Cardinality(K) = Len(file) BY SameCardinality DEF Data!ValidateAllRows
  <1>7. keyAt \in Injection(1..Len(file), K) BY <1>4, <1>5, <1>6, FS_Surjection
  <1>8. \A i, j \in 1..Len(file) : keyAt[i] = keyAt[j] => i = j BY <1>7 DEF Injection, IsInjective
  <1> QED BY <1>2, <1>8

LEMMA NoneClosed == None \notin {"COMPLETED", "FAILED"}
  BY NoneAssumption DEF Kyc!Closed

LEMMA DataInit == Data!Init => DataInv
  <1> SUFFICES ASSUME Data!Init PROVE DataInv OBVIOUS
  <1>1. /\ statisticsOfData = [k \in Data!Keys |-> statisticsOfData[k]]
        /\ writer = [k \in Data!Keys |-> writer[k]]
        /\ ingestion = [u \in Processes |-> ingestion[u]]
        /\ uploads = [u \in Processes |-> uploads[u]]
    BY DEF Data!Init
  <1>2. /\ \A k \in Data!Keys : writer[k] = None
        /\ \A u \in Processes : ingestion[u] = None /\ uploads[u] = Data!Idle
    BY DEF Data!Init
  <1>3. ASSUME NEW u \in Processes
        PROVE  UploadFields(u) /\ Stages(u) /\ Entries(u) /\ Undisturbed(u)
    BY <1>2, NoneClosed DEF Data!Idle, UploadFields, Stages, Entries, Undisturbed
  <1> QED BY <1>1, <1>2, <1>3 DEF DataInv

(* One upload moves and nothing is committed.                              *)
Moves(u, r, s) ==
    /\ uploads' = [uploads EXCEPT ![u] = r]
    /\ ingestion' = [ingestion EXCEPT ![u] = s]
    /\ UNCHANGED <<statisticsOfData, writer, disturbed>>
Sound(u) == UploadFields(u) /\ Stages(u) /\ Entries(u) /\ Undisturbed(u)

LEMMA OthersAreKept ==
    ASSUME NEW v, Sound(v), uploads'[v] = uploads[v], ingestion'[v] = ingestion[v],
           UNCHANGED <<statisticsOfData, disturbed>>
    PROVE  Sound(v)'
  BY DEF Sound, UploadFields, Stages, Entries, Undisturbed, Distinct, KeyAt, ValueAt, Data!Locks

LEMMA MoveKeepsData ==
    ASSUME DataInv, NEW u \in Processes, NEW r, NEW s, Moves(u, r, s),
           ingestion[u] = "COMPLETED" => s = "COMPLETED", Sound(u)'
    PROVE  DataInv'
  BY OthersAreKept DEF Moves, DataInv, Sound

LEMMA ValidateKeepsData ==
    ASSUME DataInv, NEW u \in Processes, NEW file \in Uploaded, Data!Validate(u, file)
    PROVE  DataInv'
  <1> DEFINE pc == IF Data!ValidateAllRows(file) THEN "valid" ELSE "refused"
             r == [uploads[u] EXCEPT !.file = file, !.pc = pc]
  <1>1. /\ uploads[u].pc = "idle" /\ Moves(u, r, ingestion[u])
        /\ uploads'[u] = r /\ ingestion'[u] = ingestion[u]
    BY DEF Data!Validate, Moves, DataInv
  <1>2. UploadFields(u) /\ Stages(u) BY DEF DataInv
  <1>3. /\ r.pc = pc /\ r.file = file /\ r.next = 1 /\ r.written = {}
        /\ ingestion[u] # "COMPLETED"
    BY <1>1, <1>2 DEF UploadFields, Stages
  <1>4. Data!ValidateAllRows(file) => Distinct(u)'
    BY <1>1, <1>3, FilesAreRows, CheckedFileIsDistinct DEF Distinct, KeyAt
  <1>5. UploadFields(u)' BY <1>1, <1>2 DEF UploadFields
  <1>6. Sound(u)' BY <1>1, <1>3, <1>4, <1>5 DEF Sound, Stages, Entries, Undisturbed
  <1> QED BY <1>1, <1>6, MoveKeepsData

LEMMA StartKeepsData ==
    ASSUME DataInv, NEW u \in Processes, Data!StartIngestion(u)
    PROVE  DataInv'
  <1> DEFINE r == [uploads[u] EXCEPT !.pc = IF active THEN "read" ELSE "refused"]
             s == IF active THEN "PROCESSING" ELSE ingestion[u]
  <1>1. /\ uploads[u].pc = "valid" /\ Moves(u, r, s)
        /\ uploads'[u] = r /\ ingestion'[u] = s
    BY DEF Data!StartIngestion, Moves, DataInv
  <1>2. UploadFields(u) /\ Stages(u) BY DEF DataInv
  <1>3. /\ r.pc = (IF active THEN "read" ELSE "refused") /\ r.file = uploads[u].file
        /\ r.next = 1 /\ r.written = {}
        /\ ingestion[u] # "COMPLETED" /\ Distinct(u)
    BY <1>1, <1>2 DEF UploadFields, Stages
  <1>4. Distinct(u)' /\ Len(r.file) \in Nat BY <1>1, <1>3 DEF Distinct, KeyAt
  <1>5. UploadFields(u)' BY <1>1, <1>2 DEF UploadFields
  <1>6. Stages(u)' BY <1>1, <1>3, <1>4 DEF Stages
  <1>7. Entries(u)' BY <1>1, <1>3, <1>4 DEF Entries
  <1>8. Undisturbed(u)' BY <1>1, <1>3 DEF Undisturbed
  <1> QED BY <1>1, <1>3, <1>5, <1>6, <1>7, <1>8, MoveKeepsData DEF Sound

(* What is under lock is a row that is past.                               *)
LEMMA LocksArePast ==
    ASSUME DataInv, NEW u \in Processes, uploads[u].pc \in {"read", "write"}
    PROVE  /\ Len(uploads[u].file) \in Nat /\ uploads[u].next \in 1..(Len(uploads[u].file) + 1)
           /\ \A k \in Data!Locks(u) : \E i \in 1..(uploads[u].next - 1) : k = KeyAt(u, i)
           /\ \A i \in 1..Len(uploads[u].file) : KeyAt(u, i) \in Data!Locks(u) =>
                 i < uploads[u].next /\ Data!Visible(u, KeyAt(u, i)) = ValueAt(u, i)
           /\ \A k : k \notin Data!Locks(u) => Data!Visible(u, k) = statisticsOfData[k]
  <1>1. Distinct(u) /\ Entries(u) BY DEF DataInv, Stages
  <1>2. Len(uploads[u].file) \in Nat /\ uploads[u].next \in 1..(Len(uploads[u].file) + 1)
    BY <1>1 DEF Distinct, Entries
  <1>3. \A e \in uploads[u].written : \E i \in 1..(uploads[u].next - 1) :
            e = <<KeyAt(u, i), ValueAt(u, i)>>
    BY <1>1 DEF Entries
  <1>4. \A k \in Data!Locks(u) : \E i \in 1..(uploads[u].next - 1) : k = KeyAt(u, i)
    BY <1>3 DEF Data!Locks
  <1>5. ASSUME NEW i \in 1..Len(uploads[u].file), KeyAt(u, i) \in Data!Locks(u)
        PROVE  i < uploads[u].next /\ Data!Visible(u, KeyAt(u, i)) = ValueAt(u, i)
    <2>1. PICK k \in Data!Locks(u) : k = KeyAt(u, i) BY <1>5
    <2> DEFINE e == CHOOSE entry \in uploads[u].written : entry[1] = k
    <2>2. \E entry \in uploads[u].written : entry[1] = k BY DEF Data!Locks
    <2>3. e \in uploads[u].written /\ e[1] = k BY <2>2
    <2>4. Data!Visible(u, k) = e[2] BY DEF Data!Visible
    <2> HIDE DEF e
    <2>5. PICK j \in 1..(uploads[u].next - 1) : e = <<KeyAt(u, j), ValueAt(u, j)>> BY <1>3, <2>3
    <2>6. j \in 1..Len(uploads[u].file) /\ j < uploads[u].next BY <1>2
    <2>7. j = i BY <1>1, <2>1, <2>3, <2>5, <2>6 DEF Distinct
    <2> QED BY <2>1, <2>4, <2>5, <2>6, <2>7
  <1>6. \A k : k \notin Data!Locks(u) => Data!Visible(u, k) = statisticsOfData[k]
    BY DEF Data!Visible
  <1> QED BY <1>2, <1>4, <1>5, <1>6

LEMMA ReadKeepsData ==
    ASSUME DataInv, NEW u \in Processes, Data!ReadRow(u)
    PROVE  DataInv'
  <1> DEFINE n == uploads[u].next
             found == Data!Visible(u, Data!Key(Data!Row(u)))
             r == [uploads[u] EXCEPT !.pc = "write", !.seen = found,
                       !.centres = @ \cup ({Data!Row(u).fixture} \ centres)]
  <1>1. /\ uploads[u].pc = "read" /\ n <= Len(uploads[u].file)
        /\ Moves(u, r, ingestion[u])
        /\ uploads'[u] = r /\ ingestion'[u] = ingestion[u]
    BY DEF Data!ReadRow, Moves, DataInv
  <1>2. UploadFields(u) /\ Stages(u) /\ Entries(u) /\ Undisturbed(u) BY DEF DataInv
  <1>3. /\ r.pc = "write" /\ r.file = uploads[u].file /\ r.next = n /\ r.seen = found
        /\ r.written = uploads[u].written
        /\ ingestion[u] # "COMPLETED" /\ Distinct(u)
    BY <1>1, <1>2 DEF UploadFields, Stages
  <1>4. Distinct(u)' BY <1>1, <1>3 DEF Distinct, KeyAt
  <1>5. UploadFields(u)' BY <1>1, <1>2 DEF UploadFields
  <1>6. Stages(u)' BY <1>1, <1>3, <1>4 DEF Stages
  <1>7. n \in 1..Len(uploads[u].file) /\ KeyAt(u, n) \notin Data!Locks(u) BY <1>1, LocksArePast
  <1>8. Entries(u)' BY <1>1, <1>2, <1>3, <1>7 DEF Entries, KeyAt, ValueAt
  <1>9. found = statisticsOfData[KeyAt(u, n)] BY <1>1, <1>7, LocksArePast DEF KeyAt, Data!Row
  <1>10. statisticsOfData' = statisticsOfData /\ disturbed' = disturbed BY <1>1 DEF Moves
  <1>11. Undisturbed(u)'
    BY <1>1, <1>2, <1>3, <1>9, <1>10 DEF Undisturbed, KeyAt, ValueAt, Data!Locks
  <1> QED BY <1>1, <1>3, <1>5, <1>6, <1>8, <1>11, MoveKeepsData DEF Sound

LEMMA WriteKeepsData ==
    ASSUME DataInv, NEW u \in Processes, Data!WriteRow(u)
    PROVE  DataInv'
  <1> DEFINE n == uploads[u].next
             k == KeyAt(u, n)
             again == uploads[u].seen = None /\ statisticsOfData[k] # None
             written == IF Data!Unchanged(u) THEN uploads[u].written
                        ELSE uploads[u].written \cup {<<k, ValueAt(u, n)>>}
             reread == [uploads[u] EXCEPT !.seen = statisticsOfData[k]]
             passed == [uploads[u] EXCEPT !.pc = "read", !.next = @ + 1, !.seen = None,
                                          !.written = written]
             r == IF again THEN reread ELSE passed
  <1>1. uploads[u].pc = "write" /\ k = Data!Key(Data!Row(u)) /\ ValueAt(u, n) = Data!Row(u).value
    BY DEF Data!WriteRow, KeyAt, ValueAt, Data!Row
  <1>2. UploadFields(u) /\ Stages(u) /\ Entries(u) /\ Undisturbed(u) BY DEF DataInv
  <1>3. Moves(u, r, ingestion[u]) BY <1>1 DEF Data!WriteRow, DataInv, Moves
  <1>4. uploads'[u] = r /\ ingestion'[u] = ingestion[u]
        /\ statisticsOfData' = statisticsOfData /\ disturbed' = disturbed
    BY <1>3 DEF Moves, DataInv
  <1>5. ingestion[u] # "COMPLETED" /\ Distinct(u) BY <1>1, <1>2 DEF Stages
  <1>6. n \in 1..Len(uploads[u].file) /\ Len(uploads[u].file) \in Nat /\ k \notin Data!Locks(u)
    BY <1>1, <1>2, LocksArePast DEF Entries
  <1>7. CASE again
    <2>1. /\ r.pc = "write" /\ r.file = uploads[u].file /\ r.next = n
          /\ r.written = uploads[u].written /\ r.seen = statisticsOfData[k]
      BY <1>1, <1>2, <1>7 DEF UploadFields
    <2>2. Distinct(u)' BY <1>4, <1>5, <2>1 DEF Distinct, KeyAt
    <2>3. UploadFields(u)' /\ Stages(u)'
      BY <1>2, <1>4, <1>5, <1>7, <2>1, <2>2 DEF UploadFields, Stages
    <2>4. Entries(u)' BY <1>1, <1>2, <1>4, <2>1 DEF Entries, KeyAt, ValueAt
    <2>5. Undisturbed(u)'
      BY <1>1, <1>2, <1>4, <1>5, <2>1 DEF Undisturbed, KeyAt, ValueAt, Data!Locks
    <2> QED BY <1>3, <1>5, <2>3, <2>4, <2>5, MoveKeepsData DEF Sound
  <1>8. CASE ~again
    <2>1. /\ r.pc = "read" /\ r.file = uploads[u].file /\ r.next = n + 1 /\ r.written = written
      BY <1>2, <1>8 DEF UploadFields
    <2>2. Distinct(u)' BY <1>4, <1>5, <2>1 DEF Distinct, KeyAt
    <2>3. UploadFields(u)' /\ Stages(u)'
      BY <1>2, <1>4, <1>5, <1>8, <2>1, <2>2 DEF UploadFields, Stages
    <2>4. n + 1 \in 1..(Len(uploads[u].file) + 1) /\ (n + 1) - 1 = n /\ n - 1 < n
          /\ 1..(n - 1) \subseteq 1..n /\ n \in 1..n /\ 1..n = 1..(n - 1) \cup {n}
      BY <1>6
    <2>5. \A e \in written : \E i \in 1..n : e = <<KeyAt(u, i), ValueAt(u, i)>>
      BY <1>1, <1>2, <2>4 DEF Entries
    <2>6. Entries(u)'
      <3>1. \A i : KeyAt(u, i)' = KeyAt(u, i) /\ ValueAt(u, i)' = ValueAt(u, i)
        BY <1>4, <2>1 DEF KeyAt, ValueAt
      <3> QED BY <1>4, <2>1, <2>4, <2>5, <3>1 DEF Entries
    <2>7. ASSUME u \notin disturbed, NEW i \in 1..n
          PROVE  KeyAt(u, i) \in Data!Locks(u)' \/ statisticsOfData[KeyAt(u, i)] = ValueAt(u, i)
      <3>1. Data!Locks(u) \subseteq Data!Locks(u)' BY <1>4, <2>1 DEF Data!Locks
      <3>2. CASE i \in 1..(n - 1) BY <1>1, <1>2, <2>7, <3>1, <3>2 DEF Undisturbed
      <3>3. CASE i = n /\ Data!Unchanged(u)
        BY <1>1, <1>2, <2>7, <3>3 DEF Undisturbed, Data!Unchanged
      <3>4. CASE i = n /\ ~Data!Unchanged(u)
        <4>1. <<k, ValueAt(u, n)>> \in uploads'[u].written BY <1>4, <2>1, <3>4
        <4>2. k \in {entry[1] : entry \in uploads'[u].written} BY <4>1
        <4> QED BY <3>4, <4>2 DEF Data!Locks
      <3> QED BY <2>4, <3>2, <3>3, <3>4
    <2>8. Undisturbed(u)'
      <3>1. \A i : KeyAt(u, i)' = KeyAt(u, i) /\ ValueAt(u, i)' = ValueAt(u, i)
        BY <1>4, <2>1 DEF KeyAt, ValueAt
      <3> QED BY <1>4, <1>5, <2>1, <2>4, <2>7, <3>1 DEF Undisturbed
    <2> QED BY <1>3, <1>5, <2>3, <2>6, <2>8, MoveKeepsData DEF Sound
  <1> QED BY <1>7, <1>8

LEMMA CompleteKeepsData ==
    ASSUME DataInv, NEW u \in Processes, Data!CompleteIngestion(u)
    PROVE  DataInv'
  <1> DEFINE r == [uploads[u] EXCEPT !.pc = "dispatch", !.written = {}, !.centres = {}]
             len == Len(uploads[u].file)
  <1>1. /\ uploads[u].pc = "read" /\ uploads[u].next > len
        /\ uploads' = [uploads EXCEPT ![u] = r]
        /\ ingestion' = [ingestion EXCEPT ![u] = "COMPLETED"]
        /\ statisticsOfData' = [k \in Data!Keys |-> Data!Visible(u, k)]
        /\ writer' = [k \in Data!Keys |-> IF k \in Data!Locks(u) THEN u ELSE writer[k]]
        /\ disturbed' = disturbed \cup
               {v \in Processes \ {u} : uploads[v].pc \notin {"idle"} \cup {"refused"}}
    BY DEF Data!CompleteIngestion, Data!Others
  <1>2. /\ uploads' = [v \in Processes |-> uploads'[v]]
        /\ ingestion' = [v \in Processes |-> ingestion'[v]]
        /\ statisticsOfData' = [k \in Data!Keys |-> statisticsOfData'[k]]
        /\ writer' = [k \in Data!Keys |-> writer'[k]]
        /\ uploads'[u] = r /\ ingestion'[u] = "COMPLETED"
        /\ \A v \in Processes \ {u} : uploads'[v] = uploads[v] /\ ingestion'[v] = ingestion[v]
    BY <1>1 DEF DataInv
  <1>3. \A k \in Data!Keys : writer'[k] # None =>
            writer'[k] \in Processes /\ ingestion'[writer'[k]] = "COMPLETED"
    BY <1>1, <1>2 DEF DataInv
  <1>4. UploadFields(u) /\ Stages(u) /\ Entries(u) /\ Undisturbed(u) /\ Distinct(u)
    BY <1>1 DEF DataInv, Stages
  <1>5. r.pc = "dispatch" /\ r.file = uploads[u].file /\ r.next = uploads[u].next
    BY <1>4 DEF UploadFields
  <1>6. UploadFields(u)' /\ Distinct(u)' BY <1>2, <1>4, <1>5 DEF UploadFields, Distinct, KeyAt
  <1>7. Stages(u)' /\ Entries(u)' BY <1>2, <1>5, <1>6 DEF Stages, Entries
  <1>8. ASSUME u \notin disturbed', NEW i \in 1..len
        PROVE  statisticsOfData'[KeyAt(u, i)] = ValueAt(u, i)
    BY <1>1, <1>4, <1>8, LocksArePast DEF Distinct, Undisturbed
  <1>9. Undisturbed(u)' BY <1>2, <1>5, <1>8 DEF Undisturbed, KeyAt, ValueAt
  <1>10. ASSUME NEW v \in Processes \ {u} PROVE Sound(v)'
    <2>1. UploadFields(v) /\ Stages(v) /\ Entries(v) /\ Undisturbed(v) BY DEF DataInv
    <2>2. uploads'[v] = uploads[v] /\ ingestion'[v] = ingestion[v] BY <1>2
    <2>3. UploadFields(v)' /\ Stages(v)' /\ Entries(v)'
      BY <2>1, <2>2 DEF UploadFields, Stages, Entries, Distinct, KeyAt, ValueAt
    <2>4. v \notin disturbed' => uploads[v].pc \in {"idle", "refused"} BY <1>1
    <2>5. Undisturbed(v)' BY <2>1, <2>2, <2>4 DEF Undisturbed, Stages
    <2> QED BY <2>3, <2>5 DEF Sound
  <1>11. \A v \in Processes : Sound(v)' BY <1>6, <1>7, <1>9, <1>10 DEF Sound
  <1> QED BY <1>2, <1>3, <1>11 DEF DataInv, Sound

(* A transaction that rolls back leaves nothing.                           *)
LEMMA RollBackLeavesNothing ==
    DataInv /\ (\E u \in Processes : Data!RolledBack(u)) => UNCHANGED <<statisticsOfData, writer>>
  BY DEF DataInv, Data!RolledBack, Data!KeptOnFailure

(* An upload that is past the checks and leaves the transaction.           *)
LEMMA LeaveKeepsData ==
    ASSUME DataInv, NEW u \in Processes, NEW pc \in {"done", "failed", "lost"}, NEW s,
           \/ uploads[u].pc \in {"valid", "read", "write"} /\ s # "COMPLETED"
           \/ uploads[u].pc \in {"valid", "read", "write", "dispatch"} /\ s = ingestion[u]
                 /\ pc # "failed",
           NEW written, NEW rest,
           Moves(u, [uploads[u] EXCEPT !.pc = pc, !.written = written, !.centres = rest], s)
    PROVE  DataInv'
  <1> DEFINE r == [uploads[u] EXCEPT !.pc = pc, !.written = written, !.centres = rest]
  <1>1. /\ uploads'[u] = r /\ ingestion'[u] = s
        /\ statisticsOfData' = statisticsOfData /\ disturbed' = disturbed
    BY DEF Moves, DataInv
  <1>2. UploadFields(u) /\ Stages(u) /\ Undisturbed(u) BY DEF DataInv
  <1>3. /\ r.pc = pc /\ r.file = uploads[u].file /\ UploadFields(u)'
        /\ \A i : KeyAt(u, i)' = KeyAt(u, i) /\ ValueAt(u, i)' = ValueAt(u, i)
    BY <1>1, <1>2 DEF UploadFields, KeyAt, ValueAt
  <1>4. ingestion[u] = "COMPLETED" => uploads[u].pc = "dispatch" BY <1>2 DEF Stages
  <1>5. s = "COMPLETED" => ingestion[u] = "COMPLETED" /\ pc \in {"done", "lost"} BY <1>4
  <1>6. ingestion[u] = "COMPLETED" => s = "COMPLETED" BY <1>4
  <1>7. Stages(u)' BY <1>1, <1>2, <1>3, <1>5 DEF Stages, Distinct, KeyAt
  <1>8. Entries(u)' /\ Undisturbed(u)' BY <1>1, <1>2, <1>3, <1>5 DEF Entries, Undisturbed
  <1> QED BY <1>3, <1>6, <1>7, <1>8, MoveKeepsData DEF Sound

LEMMA EndKeepsData ==
    ASSUME DataInv, NEW u \in Processes,
           Data!Dispatch(u) \/ Data!FailIngestion(u) \/ Data!Crash(u)
    PROVE  DataInv'
  <1> DEFINE Left(pc, written, rest) ==
                [uploads[u] EXCEPT !.pc = pc, !.written = written, !.centres = rest]
  <1>0. UploadFields(u) /\ ingestion = [v \in Processes |-> ingestion[v]] BY DEF DataInv
  <1>1. CASE Data!Dispatch(u)
    <2>1. Left("done", uploads[u].written, uploads[u].centres) = [uploads[u] EXCEPT !.pc = "done"]
      BY <1>0 DEF UploadFields
    <2>2. /\ uploads[u].pc = "dispatch"
          /\ Moves(u, Left("done", uploads[u].written, uploads[u].centres), ingestion[u])
      BY <1>0, <1>1, <2>1 DEF Data!Dispatch, Moves
    <2> QED BY <2>2, LeaveKeepsData
  <1>2. CASE Data!FailIngestion(u)
    BY <1>2, RollBackLeavesNothing, LeaveKeepsData DEF Data!FailIngestion, Data!Waits,
       Data!CentreBlocked, Data!RowBlocked, Moves
  <1>3. CASE Data!Crash(u)
    <2>1. uploads[u].pc \in {"valid", "read", "write", "dispatch"}
      BY <1>3 DEF Data!Crash, Data!Running
    <2>2. UNCHANGED <<statisticsOfData, writer>> BY <1>3, RollBackLeavesNothing DEF Data!Crash
    <2>3. Moves(u, Left("lost", {}, {}), ingestion[u]) BY <1>0, <1>3, <2>2 DEF Data!Crash, Moves
    <2> QED BY <2>1, <2>3, LeaveKeepsData
  <1> QED BY <1>1, <1>2, <1>3

LEMMA DataStutter == DataInv /\ UNCHANGED dataVars => DataInv'
  BY OthersAreKept DEF dataVars, DataInv, Sound

LEMMA DataNext == DataInv /\ Data!Next => DataInv'
  <1> SUFFICES ASSUME DataInv, Data!Next PROVE DataInv' OBVIOUS
  <1>1. ASSUME NEW on \in BOOLEAN, Data!SetProvider(on) PROVE DataInv'
    BY <1>1, OthersAreKept DEF Data!SetProvider, DataInv, Sound
  <1> QED
    BY <1>1, ValidateKeepsData, StartKeepsData, ReadKeepsData, WriteKeepsData,
       CompleteKeepsData, EndKeepsData DEF Data!Next, Data!Step

LEMMA FilesAreWhole == DataInv => Data!FilesAreAtomic
  <1> SUFFICES ASSUME DataInv PROVE Data!FilesAreAtomic OBVIOUS
  <1>1. ASSUME NEW u \in Processes \ disturbed, ingestion[u] = "COMPLETED",
               NEW line \in Data!Range(uploads[u].file)
        PROVE  statisticsOfData[Data!Key(line)] = line.value
    <2>1. Distinct(u) /\ Undisturbed(u) BY <1>1 DEF DataInv, Stages
    <2>2. DOMAIN uploads[u].file = 1..Len(uploads[u].file) BY <2>1 DEF Distinct
    <2>3. PICK i \in 1..Len(uploads[u].file) : line = uploads[u].file[i] BY <2>2 DEF Data!Range
    <2> QED BY <1>1, <2>1, <2>3 DEF Undisturbed, KeyAt, ValueAt
  <1> QED BY <1>1 DEF DataInv, Data!FilesAreAtomic

-----------------------------------------------------------------------------
(* Verification of identities.                                             *)
CaseSound(u) == LatestLive(u) /\ BypassedVerified(u) /\ Numbered(u)

LEMMA KycInit == Kyc!Init => KycInv
  <1> SUFFICES ASSUME Kyc!Init PROVE KycInv OBVIOUS
  <1>1. /\ bypassed = {}
        /\ \A u \in Processes : verification[u].status = "NOT_STARTED" /\ verification[u].attempts = 0
        /\ \A a \in Processes \X (1..Tries) : tasks[a].step = "none"
    BY DEF Kyc!Init, Kyc!NoTask, Kyc!Numbers
  <1>2. \A u \in Processes : LatestLive(u) /\ BypassedVerified(u) /\ Numbered(u)
    BY <1>1 DEF LatestLive, BypassedVerified, Numbered, Live, Kyc!InProgress
  <1>3. OpenTogether /\ KnownTogether
    BY <1>1 DEF OpenTogether, KnownTogether, Kyc!InProgress, Standing
  <1> QED BY <1>2, <1>3, CasesInit DEF KycInv

LEMMA CaseTyped ==
    ASSUME CasesInv, NEW u \in Processes
    PROVE  /\ verification[u].attempts \in 0..Tries /\ verification[u].status \in Kyc!Statuses
           /\ \A s : /\ [verification[u] EXCEPT !.status = s].status = s
                     /\ [verification[u] EXCEPT !.status = s].hash = verification[u].hash
                     /\ [verification[u] EXCEPT !.status = s].attempts = verification[u].attempts
           /\ \A h : /\ [verification[u] EXCEPT !.hash = h].status = verification[u].status
                     /\ [verification[u] EXCEPT !.hash = h].hash = h
                     /\ [verification[u] EXCEPT !.hash = h].attempts = verification[u].attempts
  BY DEF CasesInv, Kyc!TypeOK, Kyc!Verifications

(* The case of one user, when nobody moves it.                             *)
Rests(v) ==
    /\ verification'[v] = verification[v] /\ (v \in bypassed' <=> v \in bypassed)
    /\ \A n \in 1..Tries : attempts'[<<v, n>>] = attempts[<<v, n>>]
                           /\ tasks'[<<v, n>>] = tasks[<<v, n>>]

LEMMA RestingCaseIsKept ==
    ASSUME CasesInv, NEW v \in Processes, CaseSound(v), Rests(v)
    PROVE  CaseSound(v)'
  <1>1. verification[v].attempts \in 0..Tries /\ Tries \in Nat BY CaseTyped, BoundsAssumption
  <1>2. LatestLive(v)' /\ BypassedVerified(v)'
    BY DEF CaseSound, Rests, LatestLive, BypassedVerified, Live, Kyc!InProgress
  <1>3. \A n \in 1..verification[v].attempts : n \in 1..Tries BY <1>1
  <1>4. verification[v].attempts >= 1 => verification[v].attempts \in 1..Tries BY <1>1
  <1>5. Numbered(v)' BY <1>3, <1>4 DEF CaseSound, Rests, Numbered, Kyc!InProgress
  <1> QED BY <1>2, <1>5 DEF CaseSound

(* A task moves the case of its user to the status s and the attempt to x. *)
TaskMoves(a, s, x) ==
    /\ \A v \in Processes \ {a[1]} : verification'[v] = verification[v]
    /\ verification'[a[1]].status = s
    /\ verification'[a[1]].attempts = verification[a[1]].attempts
    /\ attempts'[a] = x
    /\ \A b \in Processes \X (1..Tries) : b # a =>
          attempts'[b] = attempts[b] /\ tasks'[b] = tasks[b]
    /\ UNCHANGED <<bypassed, together>>

LEMMA TaskKeepsCase ==
    ASSUME CasesInv, \A v \in Processes : CaseSound(v),
           NEW a \in Processes \X (1..Tries), Live(a[1], a[2]), NEW s, NEW x, TaskMoves(a, s, x),
           \/ s = verification[a[1]].status /\ x = attempts[a]
           \/ Kyc!InProgress(a[1]) /\ s = "PROCESSING" /\ x \notin Kyc!Closed
           \/ Kyc!InProgress(a[1]) /\ ~Live(a[1], a[2])' /\ x \in Kyc!Closed
                 /\ (s = "REVIEW" \/ (s = "RETRY_REQUIRED" /\ a[2] < Tries))
    PROVE  \A v \in Processes : CaseSound(v)'
  <1> DEFINE u == a[1]
             n == a[2]
  <1>1. /\ u \in Processes /\ n \in 1..Tries /\ a = <<u, n>> /\ n = verification[u].attempts
        /\ (Kyc!InProgress(u) \/ u \in bypassed)
    BY DEF CaseSound, LatestLive
  <1>2. ASSUME NEW v \in Processes, v # u PROVE CaseSound(v)'
    BY <1>1, <1>2, RestingCaseIsKept DEF Rests, TaskMoves
  <1>3. \A m \in 1..Tries : m # n => tasks'[<<u, m>>] = tasks[<<u, m>>]
                                     /\ attempts'[<<u, m>>] = attempts[<<u, m>>]
    BY <1>1 DEF TaskMoves
  <1>4. \A m \in 1..Tries : Live(u, m)' => m = n BY <1>1, <1>3 DEF CaseSound, LatestLive, Live
  <1>5. /\ verification'[u].status = s /\ verification'[u].attempts = n
        /\ attempts'[<<u, n>>] = x /\ bypassed' = bypassed
        /\ \A m \in 1..n : m # n => attempts'[<<u, m>>] = attempts[<<u, m>>]
    BY <1>1, <1>3, BoundsAssumption DEF TaskMoves
  <1>6. LatestLive(u)' BY <1>1, <1>4, <1>5 DEF LatestLive, Kyc!InProgress
  <1>7. u \in bypassed => verification[u].status = "VERIFIED"
    BY <1>1 DEF CaseSound, BypassedVerified
  <1>8. BypassedVerified(u)' BY <1>5, <1>7 DEF BypassedVerified, Kyc!InProgress
  <1>9. Numbered(u) BY <1>1 DEF CaseSound
  <1>10. n \in Nat /\ n >= 1 BY <1>1, BoundsAssumption
  <1>11. Numbered(u)' BY <1>1, <1>5, <1>9, <1>10 DEF Numbered, Kyc!InProgress
  <1> QED BY <1>2, <1>6, <1>8, <1>11 DEF CaseSound

(* What a step of a task may do to the case and the attempt.               *)
MayMove(a, s, x) ==
    \/ s = verification[a[1]].status /\ x = attempts[a]
    \/ Kyc!InProgress(a[1]) /\ s = "PROCESSING" /\ x \notin Kyc!Closed
    \/ Kyc!InProgress(a[1]) /\ ~Live(a[1], a[2])' /\ x \in Kyc!Closed
          /\ (s = "REVIEW" \/ (s = "RETRY_REQUIRED" /\ a[2] < Tries))

LEMMA KycFunctions ==
    CasesInv => /\ verification = [u \in Processes |-> verification[u]]
                /\ attempts = [a \in Processes \X (1..Tries) |-> attempts[a]]
                /\ tasks = [a \in Processes \X (1..Tries) |-> tasks[a]]
                /\ \A a \in Processes \X (1..Tries) : tasks[a] \in Tasks
  BY DEF CasesInv, Kyc!TypeOK, Kyc!Numbers

LEMMA TaskStepsMove ==
    ASSUME CasesInv, NEW a \in Processes \X (1..Tries),
           Kyc!Step(a) \/ Kyc!Retry(a) \/ Kyc!Lose(a)
    PROVE  Live(a[1], a[2]) /\ \E s, x : TaskMoves(a, s, x) /\ MayMove(a, s, x)
  <1> DEFINE u == a[1]
  <1>0. u \in Processes /\ a = <<a[1], a[2]>> OBVIOUS
  <1>1. Live(a[1], a[2])
    BY <1>0 DEF Kyc!Step, Kyc!Retry, Kyc!Lose, Kyc!Start, Kyc!Check, Kyc!Decide, Kyc!GiveUp, Live
  <1>2. ASSUME UNCHANGED <<verification, attempts, bypassed, together>>, NEW t,
               tasks' = [tasks EXCEPT ![a] = t]
        PROVE  TaskMoves(a, verification[u].status, attempts[a]) /\ MayMove(a, verification[u].status, attempts[a])
    BY <1>2, KycFunctions DEF TaskMoves, MayMove
  <1>3. ASSUME NEW s, NEW x, NEW t,
               verification' = [verification EXCEPT ![u] = [verification[u] EXCEPT !.status = s]],
               attempts' = [attempts EXCEPT ![a] = x], tasks' = [tasks EXCEPT ![a] = t],
               UNCHANGED <<bypassed, together>>
        PROVE  TaskMoves(a, s, x) /\ tasks'[a] = t
    BY <1>3, KycFunctions, CaseTyped DEF TaskMoves
  <1>4. ASSUME Kyc!Retry(a) \/ Kyc!Lose(a)
        PROVE  \E s, x : TaskMoves(a, s, x) /\ MayMove(a, s, x)
    BY <1>2, <1>4 DEF Kyc!Retry, Kyc!Lose
  <1>5. ASSUME Kyc!Start(a) PROVE \E s, x : TaskMoves(a, s, x) /\ MayMove(a, s, x)
    <2>1. CASE attempts[a] \notin Kyc!Closed /\ Kyc!InProgress(u)
      <3> DEFINE t == [tasks[a] EXCEPT !.step = "started"]
      <3>1. /\ verification' = [verification EXCEPT ![u] = [verification[u] EXCEPT !.status = "PROCESSING"]]
            /\ attempts' = [attempts EXCEPT ![a] = "PROCESSING"] /\ tasks' = [tasks EXCEPT ![a] = t]
            /\ UNCHANGED <<bypassed, together>>
        BY <1>5, <2>1 DEF Kyc!Start
      <3> HIDE DEF t
      <3>2. TaskMoves(a, "PROCESSING", "PROCESSING") BY <1>3, <3>1
      <3>3. "PROCESSING" \notin Kyc!Closed BY DEF Kyc!Closed
      <3> QED BY <2>1, <3>2, <3>3 DEF MayMove
    <2>2. CASE ~(attempts[a] \notin Kyc!Closed /\ Kyc!InProgress(u))
      BY <1>2, <1>5, <2>2 DEF Kyc!Start, Kyc!Done
    <2> QED BY <2>1, <2>2
  <1>6. ASSUME NEW d \in Kyc!DocumentNumbers, NEW document \in BOOLEAN, NEW selfie \in BOOLEAN,
               Kyc!Check(a, d, document, selfie)
        PROVE  \E s, x : TaskMoves(a, s, x) /\ MayMove(a, s, x)
    <2> DEFINE h == Kyc!HashAfter(u, d)
    <2>1. PICK reason : tasks' = [tasks EXCEPT ![a].step = "checked", ![a].checks = reason]
      BY <1>6 DEF Kyc!Check
    <2>2. /\ verification' = [verification EXCEPT ![u] = [verification[u] EXCEPT !.hash = h]]
          /\ UNCHANGED <<attempts, bypassed, together>>
      BY <1>6 DEF Kyc!Check
    <2> HIDE DEF h
    <2>3. verification'[u] = [verification[u] EXCEPT !.hash = h] BY <2>2, KycFunctions
    <2>4. /\ verification'[u].status = verification[u].status
          /\ verification'[u].attempts = verification[u].attempts
      BY <2>3, CaseTyped
    <2>5. \A v \in Processes \ {u} : verification'[v] = verification[v] BY <2>2, KycFunctions
    <2>6. \A b \in Processes \X (1..Tries) : b # a => tasks'[b] = tasks[b] BY <2>1, KycFunctions
    <2> QED BY <2>2, <2>4, <2>5, <2>6 DEF TaskMoves, MayMove
  <1>7. ASSUME Kyc!Decide(a) PROVE \E s, x : TaskMoves(a, s, x) /\ MayMove(a, s, x)
    <2>0. tasks' = [tasks EXCEPT ![a] = Kyc!NoTask] /\ UNCHANGED <<bypassed, together>>
      BY <1>7 DEF Kyc!Decide, Kyc!Done
    <2>1. CASE Kyc!StillOpen(a)
      <3> DEFINE s == IF Kyc!Retake(a) THEN "RETRY_REQUIRED" ELSE "REVIEW"
                 x == IF Kyc!Retake(a) THEN "FAILED" ELSE "COMPLETED"
      <3>1. /\ verification' = [verification EXCEPT ![u] = [verification[u] EXCEPT !.status = s]]
            /\ attempts' = [attempts EXCEPT ![a] = x]
        BY <1>7, <2>1 DEF Kyc!Decide
      <3>2. /\ s = "REVIEW" \/ (s = "RETRY_REQUIRED" /\ a[2] < Tries)
            /\ x \in Kyc!Closed /\ Kyc!InProgress(u)
        BY <2>1 DEF Kyc!StillOpen, Kyc!Retake, Kyc!RetryLeft, Kyc!Closed
      <3> HIDE DEF s, x
      <3>3. TaskMoves(a, s, x) /\ tasks'[a] = Kyc!NoTask BY <1>3, <2>0, <3>1
      <3>4. ~Live(a[1], a[2])' BY <1>0, <3>3 DEF Live, Kyc!NoTask
      <3> QED BY <3>2, <3>3, <3>4 DEF MayMove
    <2>2. CASE ~Kyc!StillOpen(a) BY <1>2, <1>7, <2>0, <2>2 DEF Kyc!Decide
    <2> QED BY <2>1, <2>2
  <1>8. ASSUME Kyc!GiveUp(a) PROVE \E s, x : TaskMoves(a, s, x) /\ MayMove(a, s, x)
    <2>0. tasks' = [tasks EXCEPT ![a] = Kyc!NoTask] /\ UNCHANGED <<bypassed, together>>
      BY <1>8 DEF Kyc!GiveUp, Kyc!Done
    <2>1. CASE Kyc!InProgress(u) /\ Kyc!Newest(a)
      <3> DEFINE s == IF Kyc!RetryLeft(a) THEN "RETRY_REQUIRED" ELSE "REVIEW"
                 x == IF attempts[a] \in Kyc!Closed THEN attempts[a] ELSE "FAILED"
      <3>1. /\ verification' = [verification EXCEPT ![u] = [verification[u] EXCEPT !.status = s]]
            /\ attempts' = [attempts EXCEPT ![a] = x]
        BY <1>8, <2>1 DEF Kyc!GiveUp
      <3>2. /\ s = "REVIEW" \/ (s = "RETRY_REQUIRED" /\ a[2] < Tries)
            /\ x \in Kyc!Closed /\ Kyc!InProgress(u)
        BY <2>1 DEF Kyc!RetryLeft, Kyc!Closed
      <3> HIDE DEF s, x
      <3>3. TaskMoves(a, s, x) /\ tasks'[a] = Kyc!NoTask BY <1>3, <2>0, <3>1
      <3>4. ~Live(a[1], a[2])' BY <1>0, <3>3 DEF Live, Kyc!NoTask
      <3> QED BY <3>2, <3>3, <3>4 DEF MayMove
    <2>2. CASE ~(Kyc!InProgress(u) /\ Kyc!Newest(a)) BY <1>2, <1>8, <2>0, <2>2 DEF Kyc!GiveUp
    <2> QED BY <2>1, <2>2
  <1> QED BY <1>1, <1>4, <1>5, <1>6, <1>7, <1>8 DEF Kyc!Step

(* What the fan, the development bypass and the administrator move.        *)
LEMMA UserKeepsCase ==
    ASSUME CasesInv, \A v \in Processes : CaseSound(v), NEW u \in Processes,
           \/ Kyc!Bypass(u)
           \/ \E d \in Kyc!DocumentNumbers, celery \in BOOLEAN : Kyc!Submit(u, d, celery)
           \/ \E decision \in Kyc!Decisions : Kyc!Review(u, decision)
    PROVE  \A v \in Processes : CaseSound(v)'
  <1>0. /\ LatestLive(u) /\ BypassedVerified(u) /\ Numbered(u)
        /\ verification[u].attempts \in 0..Tries /\ Tries \in Nat
    BY CaseTyped, BoundsAssumption DEF CaseSound
  <1>1. CASE Kyc!Bypass(u)
    <2>1. /\ verification' = [verification EXCEPT ![u] = [verification[u] EXCEPT !.status = "VERIFIED"]]
          /\ bypassed' = bypassed \cup {u} /\ UNCHANGED <<attempts, tasks>>
      BY <1>1 DEF Kyc!Bypass
    <2>2. verification'[u] = [verification[u] EXCEPT !.status = "VERIFIED"] BY <2>1, KycFunctions
    <2>3. /\ verification'[u].status = "VERIFIED"
          /\ verification'[u].attempts = verification[u].attempts
      BY <2>2, CaseTyped
    <2>4. CaseSound(u)' BY <1>0, <2>1, <2>3
         DEF CaseSound, LatestLive, BypassedVerified, Numbered, Live, Kyc!InProgress
    <2>5. \A v \in Processes \ {u} : Rests(v) BY <2>1, KycFunctions DEF Rests
    <2> QED BY <2>4, <2>5, RestingCaseIsKept
  <1>2. ASSUME NEW d \in Kyc!DocumentNumbers, NEW celery \in BOOLEAN, Kyc!Submit(u, d, celery)
        PROVE  \A v \in Processes : CaseSound(v)'
    <2> DEFINE n == verification[u].attempts + 1
               queued == [Kyc!NoTask EXCEPT !.step = "queued", !.celery = celery]
               h == Kyc!HashAfter(u, d)
    <2>1. /\ verification[u].attempts < Tries
          /\ verification[u].status \in {"NOT_STARTED", "RETRY_REQUIRED"}
          /\ verification' = [verification EXCEPT ![u] = [status |-> "PENDING", hash |-> h, attempts |-> n]]
          /\ attempts' = [attempts EXCEPT ![<<u, n>>] = "PENDING"]
          /\ tasks' = [tasks EXCEPT ![<<u, n>>] = queued]
          /\ bypassed' = bypassed
      BY <1>2 DEF Kyc!Submit, Kyc!MaySubmit
    <2> HIDE DEF h, queued
    <2>2. /\ n \in 1..Tries /\ n >= 1 /\ <<u, n>> \in Processes \X (1..Tries)
          /\ \A m \in 1..n : m # n => m \in 1..verification[u].attempts /\ m \in 1..Tries
      BY <1>0, <2>1
    <2>3. verification'[u] = [status |-> "PENDING", hash |-> h, attempts |-> n]
      BY <2>1, KycFunctions
    <2>4. attempts'[<<u, n>>] = "PENDING" /\ "PENDING" \notin Kyc!Closed
      BY <2>1, <2>2, KycFunctions DEF Kyc!Closed
    <2>5. \A b \in Processes \X (1..Tries) : b # <<u, n>> =>
              attempts'[b] = attempts[b] /\ tasks'[b] = tasks[b]
      BY <2>1, KycFunctions
    <2>6. \A m \in 1..Tries : m # n => attempts'[<<u, m>>] = attempts[<<u, m>>]
                                       /\ tasks'[<<u, m>>] = tasks[<<u, m>>]
      BY <2>5
    <2>7. ~Kyc!InProgress(u) /\ u \notin bypassed BY <1>0, <2>1 DEF BypassedVerified, Kyc!InProgress
    <2>8. \A m \in 1..Tries : Live(u, m)' => m = n BY <1>0, <2>6, <2>7 DEF LatestLive, Live
    <2>9. LatestLive(u)' /\ BypassedVerified(u)'
      BY <2>1, <2>3, <2>7, <2>8 DEF LatestLive, BypassedVerified, Kyc!InProgress
    <2>10. \A m \in 1..n : m # n => attempts'[<<u, m>>] \in Kyc!Closed
      <3>1. ASSUME NEW m \in 1..n, m # n PROVE attempts[<<u, m>>] \in Kyc!Closed
        BY <1>0, <2>1, <2>2, <2>7, <3>1 DEF Numbered
      <3> QED BY <2>2, <2>6, <3>1
    <2>11. Numbered(u)' BY <2>2, <2>3, <2>4, <2>10 DEF Numbered, Kyc!InProgress
    <2>12. ASSUME NEW v \in Processes \ {u} PROVE CaseSound(v)'
      BY <2>1, <2>5, KycFunctions, RestingCaseIsKept DEF Rests
    <2> QED BY <2>9, <2>11, <2>12 DEF CaseSound
  <1>3. ASSUME NEW decision \in Kyc!Decisions, Kyc!Review(u, decision)
        PROVE  \A v \in Processes : CaseSound(v)'
    <2>1. /\ verification[u].status = "REVIEW" /\ decision \in {"VERIFIED", "REJECTED"}
          /\ verification' = [verification EXCEPT ![u] = [verification[u] EXCEPT !.status = decision]]
          /\ UNCHANGED <<attempts, tasks, bypassed>>
      BY <1>3 DEF Kyc!Review, Kyc!Decisions
    <2>2. verification'[u] = [verification[u] EXCEPT !.status = decision] BY <2>1, KycFunctions
    <2>3. /\ verification'[u].status = decision
          /\ verification'[u].attempts = verification[u].attempts
      BY <2>2, CaseTyped
    <2>4. ~Kyc!InProgress(u) /\ u \notin bypassed BY <1>0, <2>1 DEF BypassedVerified, Kyc!InProgress
    <2>5. CaseSound(u)' BY <1>0, <2>1, <2>3, <2>4
         DEF CaseSound, LatestLive, BypassedVerified, Numbered, Live, Kyc!InProgress
    <2>6. \A v \in Processes \ {u} : Rests(v) BY <2>1, KycFunctions DEF Rests
    <2> QED BY <2>5, <2>6, RestingCaseIsKept
  <1> QED BY <1>1, <1>2, <1>3

(* Who was open with whom is not forgotten.                                *)
LEMMA OpenTogetherStays ==
    ASSUME OpenTogether, together \subseteq together',
           \A v \in Processes : Kyc!InProgress(v)' => Kyc!InProgress(v)
    PROVE  OpenTogether'
  BY DEF OpenTogether

LEMMA KnownTogetherStays ==
    ASSUME KnownTogether, together \subseteq together',
           \A v \in Processes :
              /\ Standing(v)' => Standing(v) /\ verification'[v].hash = verification[v].hash
              /\ CheckedBefore(v)' => CheckedBefore(v) /\ verification'[v].hash = verification[v].hash
    PROVE  KnownTogether'
  BY DEF KnownTogether, SameDocument

LEMMA UserKeepsTogether ==
    ASSUME KycInv, NEW u \in Processes,
           \/ Kyc!Bypass(u)
           \/ \E d \in Kyc!DocumentNumbers, celery \in BOOLEAN : Kyc!Submit(u, d, celery)
           \/ \E decision \in Kyc!Decisions : Kyc!Review(u, decision)
    PROVE  OpenTogether' /\ KnownTogether'
  <1>0. /\ CasesInv /\ OpenTogether /\ KnownTogether
        /\ LatestLive(u) /\ BypassedVerified(u) /\ Numbered(u)
    BY DEF KycInv
  <1>1. CASE Kyc!Bypass(u)
    <2>1. /\ verification' = [verification EXCEPT ![u] = [verification[u] EXCEPT !.status = "VERIFIED"]]
          /\ bypassed' = bypassed \cup {u} /\ UNCHANGED <<tasks, warned, together>>
      BY <1>1 DEF Kyc!Bypass
    <2>2. verification'[u].status = "VERIFIED" /\ u \in bypassed'
      BY <1>0, <2>1, CaseTyped, KycFunctions
    <2>3. \A v \in Processes \ {u} : verification'[v] = verification[v] /\ (v \in bypassed' <=> v \in bypassed)
      BY <1>0, <2>1, KycFunctions
    <2>4. \A v \in Processes : Kyc!InProgress(v)' => Kyc!InProgress(v) /\ v # u
      BY <2>2, <2>3 DEF Kyc!InProgress
    <2>5. \A v \in Processes :
              /\ Standing(v)' => Standing(v) /\ verification'[v].hash = verification[v].hash
              /\ CheckedBefore(v)' => CheckedBefore(v) /\ verification'[v].hash = verification[v].hash
      BY <2>1, <2>2, <2>3, <2>4 DEF Standing, CheckedBefore
    <2> QED BY <1>0, <2>1, <2>4, <2>5, OpenTogetherStays, KnownTogetherStays
  <1>2. ASSUME NEW d \in Kyc!DocumentNumbers, NEW celery \in BOOLEAN, Kyc!Submit(u, d, celery)
        PROVE  OpenTogether' /\ KnownTogether'
    <2> DEFINE n == verification[u].attempts + 1
               queued == [Kyc!NoTask EXCEPT !.step = "queued", !.celery = celery]
               h == Kyc!HashAfter(u, d)
    <2>1. /\ verification[u].attempts < Tries
          /\ verification[u].status \in {"NOT_STARTED", "RETRY_REQUIRED"}
          /\ verification' = [verification EXCEPT ![u] = [status |-> "PENDING", hash |-> h, attempts |-> n]]
          /\ tasks' = [tasks EXCEPT ![<<u, n>>] = queued]
          /\ together' = together \cup {{u, v} : v \in {w \in Processes \ {u} : Kyc!InProgress(w)}}
          /\ UNCHANGED <<warned, bypassed>>
      BY <1>2 DEF Kyc!Submit, Kyc!MaySubmit
    <2>2. queued.step = "queued" BY DEF Kyc!NoTask
    <2> HIDE DEF h, queued
    <2>3. verification'[u].status = "PENDING" BY <1>0, <2>1, KycFunctions
    <2>4. \A v \in Processes \ {u} : verification'[v] = verification[v] BY <1>0, <2>1, KycFunctions
    <2>5. \A b \in Processes \X (1..Tries) : b # <<u, n>> => tasks'[b] = tasks[b]
      BY <1>0, <2>1, KycFunctions
    <2>6. ~Kyc!InProgress(u) /\ u \notin bypassed BY <1>0, <2>1 DEF BypassedVerified, Kyc!InProgress
    <2>7. ~CheckedBefore(u)'
      <3>1. ASSUME NEW m \in 1..Tries, tasks'[<<u, m>>].step = "checked" PROVE FALSE
        <4>1. CASE m = n BY <1>0, <2>1, <2>2, <3>1, <4>1, KycFunctions
        <4>2. CASE m # n BY <1>0, <2>5, <2>6, <3>1, <4>2 DEF Live, LatestLive
        <4> QED BY <4>1, <4>2
      <3> QED BY <3>1 DEF CheckedBefore
    <2>8. ~Standing(u)' BY <2>3 DEF Standing
    <2>9. ASSUME NEW v \in Processes \ {u}
          PROVE  /\ Standing(v)' => Standing(v) /\ verification'[v].hash = verification[v].hash
                 /\ CheckedBefore(v)' => CheckedBefore(v) /\ verification'[v].hash = verification[v].hash
      BY <2>1, <2>4, <2>5 DEF Standing, CheckedBefore, Kyc!InProgress
    <2>10. together \subseteq together' BY <2>1
    <2>11. KnownTogether' BY <1>0, <2>7, <2>8, <2>9, <2>10, KnownTogetherStays
    <2>12. \A v \in Processes \ {u} : Kyc!InProgress(v)' = Kyc!InProgress(v)
      BY <2>4 DEF Kyc!InProgress
    <2>13. \A v \in Processes \ {u} : Kyc!InProgress(v) => {u, v} \in together' /\ {v, u} \in together'
      BY <2>1
    <2>14. OpenTogether' BY <1>0, <2>10, <2>12, <2>13 DEF OpenTogether
    <2> QED BY <2>11, <2>14
  <1>3. ASSUME NEW decision \in Kyc!Decisions, Kyc!Review(u, decision)
        PROVE  OpenTogether' /\ KnownTogether'
    <2>1. /\ verification[u].status = "REVIEW" /\ decision \in {"VERIFIED", "REJECTED"}
          /\ verification' = [verification EXCEPT ![u] = [verification[u] EXCEPT !.status = decision]]
          /\ UNCHANGED <<tasks, bypassed, warned, together>>
      BY <1>3 DEF Kyc!Review, Kyc!Decisions
    <2>2. verification'[u] = [verification[u] EXCEPT !.status = decision]
      BY <1>0, <2>1, KycFunctions
    <2>3. verification'[u].status = decision /\ verification'[u].hash = verification[u].hash
      BY <1>0, <2>2, CaseTyped
    <2>4. \A v \in Processes \ {u} : verification'[v] = verification[v] BY <1>0, <2>1, KycFunctions
    <2>5. \A v \in Processes : Kyc!InProgress(v)' => Kyc!InProgress(v)
      BY <2>1, <2>3, <2>4 DEF Kyc!InProgress
    <2>6. \A v \in Processes :
              /\ Standing(v)' => Standing(v) /\ verification'[v].hash = verification[v].hash
              /\ CheckedBefore(v)' => CheckedBefore(v) /\ verification'[v].hash = verification[v].hash
      BY <2>1, <2>3, <2>4, <2>5 DEF Standing, CheckedBefore
    <2> QED BY <1>0, <2>1, <2>5, <2>6, OpenTogetherStays, KnownTogetherStays
  <1> QED BY <1>1, <1>2, <1>3

(* The task of an attempt: a duplicate it could have found, it reports.    *)
LEMMA CheckKeepsTogether ==
    ASSUME KycInv, NEW a \in Processes \X (1..Tries), NEW d \in Kyc!DocumentNumbers,
           NEW document \in BOOLEAN, NEW selfie \in BOOLEAN, Kyc!Check(a, d, document, selfie)
    PROVE  KnownTogether'
  <1> DEFINE u == a[1]
             n == a[2]
             h == Kyc!HashAfter(u, d)
  <1>0. /\ CasesInv /\ KnownTogether /\ LatestLive(u) /\ BypassedVerified(u)
        /\ u \in Processes /\ n \in 1..Tries /\ a = <<u, n>>
    BY DEF KycInv
  <1>1. PICK reason \in Kyc!PossibleReasons(document, selfie, Kyc!Duplicate(u, h)) :
            tasks' = [tasks EXCEPT ![a].step = "checked", ![a].checks = reason]
    BY DEF Kyc!Check
  <1>2. /\ verification' = [verification EXCEPT ![u] = [verification[u] EXCEPT !.hash = h]]
        /\ UNCHANGED <<warned, together, bypassed>>
        /\ Live(u, n)
    BY <1>0 DEF Kyc!Check, Live
  <1>3. Kyc!Duplicate(u, h) => reason = "duplicate_identity_detected"
    BY <1>1 DEF Kyc!PossibleReasons
  <1>4. tasks'[a].checks = reason BY <1>0, <1>1, KycFunctions DEF Tasks
  <1>5. \A b \in Processes \X (1..Tries) : b # a => tasks'[b] = tasks[b] BY <1>0, <1>1, KycFunctions
  <1>6. Kyc!Duplicate(u, h) <=>
            h # None /\ \E v \in Processes \ {u} :
               verification[v].hash = h /\ verification[v].status \in {"VERIFIED", "REVIEW"}
    BY DEF Kyc!Duplicate
  <1> HIDE DEF h
  <1>7. verification'[u] = [verification[u] EXCEPT !.hash = h] BY <1>0, <1>2, KycFunctions
  <1>8. verification'[u].hash = h /\ verification'[u].status = verification[u].status
    BY <1>0, <1>7, CaseTyped
  <1>9. \A v \in Processes \ {u} : verification'[v] = verification[v] BY <1>0, <1>2, KycFunctions
  <1>10. Kyc!InProgress(u) \/ u \in bypassed BY <1>0, <1>2 DEF LatestLive
  <1>11. ~Standing(u)' BY <1>2, <1>8, <1>10 DEF Standing, Kyc!InProgress
  <1>12. \A v \in Processes \ {u} : /\ Standing(v)' <=> Standing(v)
                                    /\ CheckedBefore(v)' <=> CheckedBefore(v)
    <2>1. ASSUME NEW v \in Processes \ {u}
          PROVE  \A m \in 1..Tries : tasks'[<<v, m>>] = tasks[<<v, m>>]
      BY <1>0, <1>5
    <2> QED BY <1>2, <1>9, <2>1 DEF Standing, CheckedBefore, Kyc!InProgress
  <1>13. ASSUME CheckedBefore(u)' PROVE ~Kyc!Duplicate(u, h)
    <2>1. PICK m \in 1..Tries : /\ tasks'[<<u, m>>].step = "checked"
                                /\ tasks'[<<u, m>>].checks # "duplicate_identity_detected"
      BY <1>13 DEF CheckedBefore
    <2>2. m = n
      <3>1. CASE m # n BY <1>0, <1>2, <1>5, <2>1, <3>1 DEF Live, LatestLive
      <3> QED BY <3>1
    <2> QED BY <1>0, <1>3, <1>4, <2>1, <2>2
  <1>14. ASSUME NEW v \in Processes, NEW w \in Processes,
                (CheckedBefore(v) \/ Standing(v))', SameDocument(v, w)', Standing(w)'
         PROVE  {v, w} \in together'
    <2>1. w # u /\ w \in Processes \ {u} /\ Standing(w) BY <1>11, <1>12, <1>14
    <2>2. CASE v = u
      <3>1. CheckedBefore(u)' BY <1>11, <1>14, <2>2
      <3>2. verification[w].hash = h /\ h # None BY <1>8, <1>9, <1>14, <2>1, <2>2 DEF SameDocument
      <3>3. verification[w].status \in {"VERIFIED", "REVIEW"} BY <2>1 DEF Standing
      <3>4. Kyc!Duplicate(u, h) BY <1>6, <2>1, <3>2, <3>3
      <3> QED BY <1>13, <3>1, <3>4
    <2>3. CASE v # u
      <3>1. CheckedBefore(v) \/ Standing(v) BY <1>12, <1>14, <2>3
      <3>2. SameDocument(v, w) BY <1>9, <1>14, <2>1, <2>3 DEF SameDocument
      <3> QED BY <1>0, <1>2, <2>1, <3>1, <3>2 DEF KnownTogether
    <2> QED BY <2>2, <2>3
  <1> QED BY <1>14 DEF KnownTogether

(* A step that leaves the numbers alone, checks nothing, and lets nobody   *)
(* stand but one whose check found no duplicate.                           *)
LEMMA EndKeepsTogether ==
    ASSUME OpenTogether, KnownTogether, NEW u \in Processes,
           UNCHANGED <<together, bypassed>>, warned \subseteq warned',
           \A v \in Processes : /\ verification'[v].hash = verification[v].hash
                                /\ CheckedBefore(v)' => CheckedBefore(v)
                                /\ v # u => (Standing(v)' => Standing(v)),
           Standing(u)' => \/ Standing(u)
                           \/ CheckedBefore(u) /\ ~CheckedBefore(u)'
    PROVE  KnownTogether'
  <1>1. ASSUME NEW v \in Processes, NEW w \in Processes,
               (CheckedBefore(v) \/ Standing(v))', SameDocument(v, w)', Standing(w)'
        PROVE  {v, w} \in together'
    BY <1>1 DEF SameDocument, KnownTogether, OpenTogether, CheckedBefore
  <1> QED BY <1>1 DEF KnownTogether

LEMMA TaskKeepsTogether ==
    ASSUME KycInv, NEW a \in Processes \X (1..Tries),
           Kyc!Step(a) \/ Kyc!Retry(a) \/ Kyc!Lose(a)
    PROVE  OpenTogether' /\ KnownTogether'
  <1> DEFINE u == a[1]
             n == a[2]
  <1>0. /\ CasesInv /\ OpenTogether /\ KnownTogether
        /\ u \in Processes /\ n \in 1..Tries /\ a = <<u, n>>
    BY DEF KycInv
  <1>1. PICK s, x : TaskMoves(a, s, x) /\ MayMove(a, s, x) BY <1>0, TaskStepsMove
  <1>2. /\ verification'[u].status = s /\ UNCHANGED <<bypassed, together>>
        /\ \A v \in Processes \ {u} : verification'[v] = verification[v]
        /\ \A b \in Processes \X (1..Tries) : b # a => tasks'[b] = tasks[b]
    BY <1>1 DEF TaskMoves
  <1>3. \/ s = verification[u].status
        \/ Kyc!InProgress(u) /\ s \in {"PROCESSING", "REVIEW", "RETRY_REQUIRED"}
    BY <1>1 DEF MayMove
  <1>4. \A v \in Processes : Kyc!InProgress(v)' => Kyc!InProgress(v)
    BY <1>2, <1>3 DEF Kyc!InProgress
  <1>5. OpenTogether' BY <1>0, <1>2, <1>4, OpenTogetherStays
  <1>6. ASSUME Kyc!Start(a) \/ Kyc!Decide(a) \/ Kyc!GiveUp(a) \/ Kyc!Retry(a) \/ Kyc!Lose(a)
        PROVE  KnownTogether'
    <2>1. tasks'[a].step # "checked"
      <3>1. /\ tasks = [b \in Processes \X (1..Tries) |-> tasks[b]]
            /\ tasks[a] \in Tasks
        BY <1>0, KycFunctions
      <3>2. \A t : t = Kyc!NoTask => t.step = "none" /\ [t EXCEPT !.step = "lost"].step = "lost"
        BY DEF Kyc!NoTask
      <3>3. CASE tasks' = [tasks EXCEPT ![a] = Kyc!NoTask] BY <3>1, <3>2, <3>3
      <3>4. CASE Kyc!Lose(a) BY <3>1, <3>2, <3>4 DEF Kyc!Lose
      <3>5. CASE Kyc!Retry(a) BY <3>1, <3>5 DEF Kyc!Retry, Tasks
      <3>6. CASE tasks' = [tasks EXCEPT ![a].step = "started"] BY <3>1, <3>6 DEF Tasks
      <3>7. Kyc!Start(a) => \/ tasks' = [tasks EXCEPT ![a] = Kyc!NoTask]
                            \/ tasks' = [tasks EXCEPT ![a].step = "started"]
        BY DEF Kyc!Start, Kyc!Done
      <3>8. Kyc!Decide(a) \/ Kyc!GiveUp(a) => tasks' = [tasks EXCEPT ![a] = Kyc!NoTask]
        BY DEF Kyc!Decide, Kyc!GiveUp, Kyc!Done
      <3> QED BY <1>6, <3>3, <3>4, <3>5, <3>6, <3>7, <3>8
    <2>2. verification'[u].hash = verification[u].hash /\ warned \subseteq warned'
      <3>1. /\ warned \subseteq warned'
            /\ \/ verification' = verification
               \/ \E t : verification' = [verification EXCEPT ![u] = [verification[u] EXCEPT !.status = t]]
        BY <1>6 DEF Kyc!Start, Kyc!Decide, Kyc!GiveUp, Kyc!Retry, Kyc!Lose
      <3>2. ASSUME NEW t, verification' = [verification EXCEPT ![u] = [verification[u] EXCEPT !.status = t]]
            PROVE  verification'[u].hash = verification[u].hash
        BY <1>0, <3>2, KycFunctions, CaseTyped
      <3> QED BY <3>1, <3>2
    <2>3. \A v \in Processes : \A m \in 1..Tries :
              tasks'[<<v, m>>].step = "checked" => tasks[<<v, m>>] = tasks'[<<v, m>>]
      BY <1>2, <2>1
    <2>4. \A v \in Processes : CheckedBefore(v)' => CheckedBefore(v) BY <1>4, <2>3 DEF CheckedBefore
    <2>5. \A v \in Processes \ {u} : Standing(v)' => Standing(v) BY <1>2, <2>2 DEF Standing
    <2>6. ASSUME Standing(u)', ~Standing(u) PROVE CheckedBefore(u) /\ ~CheckedBefore(u)'
      <3>1. /\ s \in {"REVIEW", "VERIFIED"} /\ u \notin warned' \cup bypassed
            /\ verification[u].status \notin {"REVIEW", "VERIFIED"}
        BY <1>2, <2>2, <2>6 DEF Standing
      <3>2. ~Kyc!InProgress(u)' /\ verification' # verification BY <1>2, <3>1 DEF Kyc!InProgress
      <3>3. ASSUME NEW t, verification' = [verification EXCEPT ![u] = [verification[u] EXCEPT !.status = t]]
            PROVE  s = t
        BY <1>0, <1>2, <3>3, KycFunctions, CaseTyped
      <3>4. Kyc!Decide(a) BY <1>6, <3>1, <3>2, <3>3 DEF Kyc!Start, Kyc!GiveUp, Kyc!Retry, Kyc!Lose
      <3>5. /\ tasks[a].step = "checked" /\ Kyc!StillOpen(a)
            /\ tasks[a].checks # "duplicate_identity_detected"
        BY <3>1, <3>2, <3>4 DEF Kyc!Decide
      <3>6. CheckedBefore(u) BY <1>0, <3>5 DEF CheckedBefore, Kyc!StillOpen
      <3> QED BY <3>2, <3>6 DEF CheckedBefore
    <2> QED BY <1>0, <1>2, <2>2, <2>4, <2>5, <2>6, EndKeepsTogether
  <1>7. ASSUME NEW d \in Kyc!DocumentNumbers, NEW document \in BOOLEAN, NEW selfie \in BOOLEAN,
               Kyc!Check(a, d, document, selfie)
        PROVE  KnownTogether'
    BY <1>7, CheckKeepsTogether
  <1> QED BY <1>5, <1>6, <1>7 DEF Kyc!Step

LEMMA CasesRest ==
    KycInv /\ UNCHANGED <<verification, attempts, tasks, bypassed, warned, together>> =>
        /\ \A v \in Processes : LatestLive(v)' /\ BypassedVerified(v)' /\ Numbered(v)'
        /\ OpenTogether' /\ KnownTogether'
  <1> SUFFICES ASSUME KycInv, UNCHANGED <<verification, attempts, tasks, bypassed, warned, together>>
               PROVE  /\ \A v \in Processes : LatestLive(v)' /\ BypassedVerified(v)' /\ Numbered(v)'
                      /\ OpenTogether' /\ KnownTogether'
    OBVIOUS
  <1>1. \A v \in Processes : LatestLive(v)' /\ BypassedVerified(v)' /\ Numbered(v)'
    BY RestingCaseIsKept DEF KycInv, CaseSound, Rests
  <1>2. OpenTogether' /\ KnownTogether'
    BY DEF KycInv, OpenTogether, KnownTogether, Kyc!InProgress, CheckedBefore, Standing, SameDocument
  <1> QED BY <1>1, <1>2

LEMMA KycStutter == KycInv /\ UNCHANGED kycVars => KycInv'
  BY CasesStutter, CasesRest DEF KycInv, kycVars

LEMMA KycNext == KycInv /\ Kyc!Next => KycInv'
  <1> SUFFICES ASSUME KycInv, Kyc!Next PROVE KycInv' OBVIOUS
  <1>0. CasesInv /\ (\A v \in Processes : CaseSound(v)) /\ CasesInv'
    BY CasesNext DEF KycInv, CaseSound
  <1> DEFINE Kept == (\A v \in Processes : CaseSound(v)') /\ OpenTogether' /\ KnownTogether'
  <1>1. ASSUME NEW u \in Processes,
               \/ Kyc!Bypass(u)
               \/ \E d \in Kyc!DocumentNumbers, celery \in BOOLEAN : Kyc!Submit(u, d, celery)
               \/ \E decision \in Kyc!Decisions : Kyc!Review(u, decision)
        PROVE  Kept
    BY <1>0, <1>1, UserKeepsCase, UserKeepsTogether
  <1>2. ASSUME NEW a \in Processes \X (1..Tries), Kyc!Step(a) \/ Kyc!Retry(a) \/ Kyc!Lose(a)
        PROVE  Kept
    BY <1>0, <1>2, TaskStepsMove, TaskKeepsCase, TaskKeepsTogether DEF MayMove
  <1>3. ASSUME NEW a \in Processes \X (1..Tries), Kyc!Purge(a) PROVE Kept
    BY <1>3, CasesRest DEF Kyc!Purge, CaseSound
  <1>4. Kept BY <1>1, <1>2, <1>3 DEF Kyc!Next, Kyc!Numbers, Kyc!CallbackFails
  <1> QED BY <1>0, <1>4 DEF KycInv, CaseSound

LEMMA CasesAreTrue == KycInv => Kyc!AttemptsAgree /\ Kyc!DuplicatesFlagged
  <1> SUFFICES ASSUME KycInv PROVE Kyc!AttemptsAgree /\ Kyc!DuplicatesFlagged OBVIOUS
  <1>1. ASSUME NEW u \in Processes
        PROVE  /\ Kyc!InProgress(u) =>
                     /\ attempts[<<u, verification[u].attempts>>] \notin Kyc!Closed
                     /\ \A n \in 1..(verification[u].attempts - 1) : attempts[<<u, n>>] \in Kyc!Closed
               /\ verification[u].status = "RETRY_REQUIRED" => Kyc!RetryEligible(u) /\ Kyc!MaySubmit(u)
    BY CaseTyped, BoundsAssumption DEF KycInv, Kyc!InProgress, Numbered, Kyc!RetryEligible,
       Kyc!MaySubmit
  <1>2. Kyc!AttemptsAgree BY <1>1 DEF Kyc!AttemptsAgree
  <1>3. Kyc!DuplicatesFlagged
    BY DEF KycInv, KnownTogether, Kyc!DuplicatesFlagged, Standing, SameDocument
  <1> QED BY <1>2, <1>3

-----------------------------------------------------------------------------
(* OutcomesHold, with the exceptions it names for what is slow, lost or    *)
(* overlaps, however tasks, runs, requests and uploads interleave: for any *)
(* users, documents, runs, numbers of attempts and changes.                *)
THEOREM OutcomesAreTrue == Spec => []OutcomesHold
  <1>1. Init => Recorded
    BY KycInit, DeliveryInit, SentInit, ScoringInit, DataInit, PagesInit DEF Init, Recorded
  <1>2. Recorded /\ [Next]_vars => Recorded'
    <2> SUFFICES ASSUME Recorded, [Next]_vars PROVE Recorded' OBVIOUS
    <2>1. part' = part BY PartsOnly
    <2>2. part = "Kyc" => KycInv' BY PartsOnly, KycNext, KycStutter DEF Recorded
    <2>3. part = "Delivery" => DeliveryInv' /\ SentInv'
      BY PartsOnly, DeliveryNext, DeliveryStutter, SentNext, SentStutter DEF Recorded
    <2>4. part = "Scoring" => ScoringInv' BY PartsOnly, ScoringNext, ScoringStutter DEF Recorded
    <2>5. part = "Data" => DataInv' BY PartsOnly, DataNext, DataStutter DEF Recorded
    <2>6. part = "Pages" => PagesInv' BY PartsOnly, PagesNext, PagesStutter DEF Recorded
    <2> QED BY <2>1, <2>2, <2>3, <2>4, <2>5, <2>6 DEF Recorded
  <1>3. Recorded => OutcomesHold
    BY CasesAreTrue, OutcomesAreTrueOfRows, ScoresAreExplained, FilesAreWhole, PagesAreCurrent
       DEF Recorded, OutcomesHold
  <1> QED BY <1>1, <1>2, <1>3, PTL DEF Spec
=============================================================================
