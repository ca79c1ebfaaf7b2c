-------------------------- MODULE KycVerification --------------------------
(***************************************************************************)
(* Identity verification: submissions of the fans, the background task     *)
(* that checks an attempt, its retries and its failure callback, and the   *)
(* review by an administrator.                                             *)
(*                                                                         *)
(* The task works in three transactions: it takes the attempt, it records  *)
(* the checks (the duplicate check reads the other verifications), and it  *)
(* decides. Between them the administrator and the other tasks move. It    *)
(* runs in a Celery worker, which retries it, or, when the broker cannot   *)
(* be reached, in a thread of the web server, which does not. Wherever it  *)
(* runs it can be lost: a message is acknowledged before the task runs     *)
(* (nothing sets acks_late), so a worker that dies or exceeds the hard     *)
(* time limit takes its task with it, and nothing looks for such a case.   *)
(* What the checks find is a choice of Reasons; they write columns no      *)
(* decision reads from another attempt.                                    *)
(***************************************************************************)
EXTENDS Integers, FiniteSetsExt

CONSTANTS
    ReviewThreshold,  \* KYCConfiguration.risk_review_threshold, in thousandths
    RejectThreshold,  \* risk_reject_threshold
    Users,
    Documents,    \* document numbers
    MaxAttempts,  \* KYCConfiguration.max_attempts
    MaxRetries,   \* of the task
    Synthetic,    \* users the development bypass serves
    MaxPurges,    \* bound on the attempts whose pictures age out
    None

-----------------------------------------------------------------------------
(* What the automated checks of an attempt may find and what the decision  *)
(* engine makes of it. A check ends with a status; which one depends on    *)
(* the pictures, so each is a choice over what its code can end with.      *)
(* Weights are in thousandths.                                             *)
CheckTypes ==
    {"IMAGE_QUALITY", "DOCUMENT_MANIPULATION", "OCR", "MRZ", "DOCUMENT_EXPIRY",
     "BARCODE", "FACE_DETECTION", "FACE_MATCH", "LIVENESS", "DUPLICATE_IDENTITY"}
CheckStatuses == {"PASSED", "FAILED", "UNCERTAIN", "NOT_APPLICABLE"}

(* A picture that is no readable image of an allowed type, size and shape  *)
(* fails where it is validated (quality and face detection) and is an      *)
(* uncertain finding or a failure where it is merely opened.               *)
Quality(readable) == IF readable THEN {"PASSED", "FAILED"} ELSE {"FAILED"}
Tampering(readable) == IF readable THEN {"PASSED", "FAILED"} ELSE {"UNCERTAIN", "FAILED"}
Barcode(readable) == IF readable THEN {"PASSED", "NOT_APPLICABLE"} ELSE {"FAILED"}
FaceDetection(readable) == IF readable THEN {"PASSED", "FAILED"} ELSE {"FAILED"}

(* compare_faces: a child process that times out, fails or prints          *)
(* something else is missing evidence, never a mismatch.                   *)
FaceMatch(document, selfie) ==
    IF document /\ selfie THEN {"PASSED", "UNCERTAIN", "FAILED"} ELSE {"UNCERTAIN"}
Liveness(selfie) == IF selfie THEN {"PASSED", "UNCERTAIN", "FAILED"} ELSE {"UNCERTAIN"}

(* Without text there is neither a machine-readable zone nor a date to     *)
(* compare with today; a document that cannot be opened has no such check. *)
Text(readable) ==
    IF ~readable
    THEN {[ocr |-> "FAILED", mrz |-> "NOT_APPLICABLE", expiry |-> "NOT_APPLICABLE"]}
    ELSE {[ocr |-> "FAILED", mrz |-> "NOT_APPLICABLE", expiry |-> "UNCERTAIN"]} \cup
         [ocr : {"PASSED"}, mrz : {"PASSED", "FAILED", "NOT_APPLICABLE"},
          expiry : {"PASSED", "FAILED", "UNCERTAIN"}]

FindingsOf(document, selfie, duplicate) ==
    {[c \in CheckTypes |->
        CASE c = "IMAGE_QUALITY" -> q [] c = "DOCUMENT_MANIPULATION" -> m
          [] c = "OCR" -> t.ocr [] c = "MRZ" -> t.mrz [] c = "DOCUMENT_EXPIRY" -> t.expiry
          [] c = "BARCODE" -> b [] c = "FACE_DETECTION" -> d [] c = "FACE_MATCH" -> f
          [] c = "LIVENESS" -> l
          [] c = "DUPLICATE_IDENTITY" -> IF duplicate THEN "FAILED" ELSE "PASSED"] :
        q \in Quality(document), m \in Tampering(document), t \in Text(document),
        b \in Barcode(document), d \in FaceDetection(selfie),
        f \in FaceMatch(document, selfie), l \in Liveness(selfie)}


Weight ==
    [c \in CheckTypes |->
        CASE c = "DUPLICATE_IDENTITY" -> 500
          [] c \in {"DOCUMENT_MANIPULATION", "FACE_MATCH"} -> 400
          [] c \in {"LIVENESS", "DOCUMENT_EXPIRY"} -> 350
          [] c \in {"IMAGE_QUALITY", "FACE_DETECTION"} -> 250
          [] c \in {"OCR", "MRZ"} -> 150
          [] c = "BARCODE" -> 100]

Risk(f) ==
    LET sum == MapThenSumSet(LAMBDA c : CASE f[c] = "FAILED" -> Weight[c]
                                          [] f[c] = "UNCERTAIN" -> Weight[c] \div 2
                                          [] OTHER -> 0, CheckTypes)
    IN Min({1000, sum})

RiskLevel(f) ==
    CASE Risk(f) >= RejectThreshold -> "CRITICAL"
      [] Risk(f) < RejectThreshold /\ Risk(f) >= ReviewThreshold -> "HIGH"
      [] Risk(f) < RejectThreshold /\ Risk(f) < ReviewThreshold /\ Risk(f) >= 200 -> "MEDIUM"
      [] OTHER -> "LOW"

(* run_decision_engine: the reason it gives. A picture is taken again only *)
(* when no check that speaks against the person has failed.                *)
HardFailures(f) ==
    {c \in {"DUPLICATE_IDENTITY", "DOCUMENT_MANIPULATION", "DOCUMENT_EXPIRY",
            "LIVENESS", "FACE_MATCH"} : f[c] = "FAILED"}

Reason(f) ==
    CASE f["DUPLICATE_IDENTITY"] = "FAILED" -> "duplicate_identity_detected"
      [] f["DUPLICATE_IDENTITY"] # "FAILED" /\ HardFailures(f) # {} -> "failed_check"
      [] HardFailures(f) = {} /\ RiskLevel(f) \in {"CRITICAL", "HIGH"} -> "high_risk_level"
      [] HardFailures(f) = {} /\ RiskLevel(f) \in {"LOW", "MEDIUM"} ->
            IF "FAILED" \in {f["IMAGE_QUALITY"], f["FACE_DETECTION"]} THEN "poor_picture"
            ELSE IF f["FACE_MATCH"] = "PASSED" THEN "automated_checks_passed"
            ELSE "required_checks_incomplete_or_uncertain"

Reasons == {"duplicate_identity_detected", "failed_check", "high_risk_level", "poor_picture",
            "automated_checks_passed", "required_checks_incomplete_or_uncertain"}

(* The reasons an attempt may end with, by what of it can be read and by    *)
(* whether its identity is another's: those of all findings together. The  *)
(* runs evaluate the assumption for the thresholds they are given.          *)
PossibleReasons(document, selfie, duplicate) ==
    IF duplicate THEN {"duplicate_identity_detected"}
    ELSE {"failed_check", "high_risk_level"} \cup
         IF document /\ selfie
         THEN {"poor_picture", "automated_checks_passed",
               "required_checks_incomplete_or_uncertain"}
         ELSE {}

ReasonsAssumption ==
    \A document, selfie, duplicate \in BOOLEAN :
        PossibleReasons(document, selfie, duplicate) =
            {Reason(f) : f \in FindingsOf(document, selfie, duplicate)}

-----------------------------------------------------------------------------
Statuses == {"NOT_STARTED", "PENDING", "PROCESSING", "VERIFIED", "RETRY_REQUIRED",
             "REJECTED", "REVIEW"}
AttemptStatuses == {"PENDING", "PROCESSING", "COMPLETED", "FAILED"}
Numbers == 1..MaxAttempts
DocumentNumbers == Documents \cup {None}  \* what the fan types in or the OCR reads
Decisions == {"VERIFIED", "REJECTED"}
Verifications == [status : Statuses, hash : DocumentNumbers, attempts : 0..MaxAttempts]

VARIABLES
    verification, \* KYCVerification row of each user
    attempts,     \* status of each attempt, None before it is made
    tasks,        \* the task of each attempt: step, retries, where it runs, its checks
    participants, \* users with the role Verified Market User
    warned,       \* users sent to review with a reason that is not a clean check
    together,     \* pairs of users whose attempts were open at a time
    bypassed,     \* users verified by the development bypass
    purged        \* attempts whose pictures retention has removed

vars == <<verification, attempts, tasks, participants, warned, together, bypassed, purged>>

NoTask == [step |-> "none", retries |-> 0, celery |-> TRUE, checks |-> None]

TypeOK ==
    /\ verification \in [Users -> Verifications]
    /\ attempts \in [Users \X Numbers -> AttemptStatuses \cup {None}]
    /\ \A a \in Users \X Numbers :
          /\ tasks[a].step \in {"none", "queued", "started", "checked", "lost"}
          /\ tasks[a].retries \in 0..MaxRetries
          /\ tasks[a].checks \in Reasons \cup {None}
    /\ participants \subseteq Users /\ warned \subseteq Users /\ bypassed \subseteq Synthetic
    /\ together \subseteq SUBSET Users /\ purged \subseteq Users \X Numbers

Init ==
    /\ verification = [u \in Users |-> [status |-> "NOT_STARTED", hash |-> None, attempts |-> 0]]
    /\ attempts = [a \in Users \X Numbers |-> None]
    /\ tasks = [a \in Users \X Numbers |-> NoTask]
    /\ participants = {} /\ warned = {} /\ together = {} /\ bypassed = {}
    /\ purged = {}

Closed == {"COMPLETED", "FAILED"}
InProgress(u) == verification[u].status \in {"PENDING", "PROCESSING"}
Newest(a) == a[2] = verification[a[1]].attempts
HashAfter(u, d) == IF d = None THEN verification[u].hash ELSE d

-----------------------------------------------------------------------------
(* FanKYCSubmitView: one transaction under a lock on the verification. The *)
(* task is queued after it.                                                *)
MaySubmit(u) ==
    /\ verification[u].attempts < MaxAttempts
    /\ verification[u].status \in {"NOT_STARTED", "RETRY_REQUIRED"}

Submit(u, d, celery) ==
    LET n == verification[u].attempts + 1 IN
    /\ MaySubmit(u)
    /\ verification' = [verification EXCEPT ![u] =
          [status |-> "PENDING", hash |-> HashAfter(u, d), attempts |-> n]]
    /\ attempts' = [attempts EXCEPT ![<<u, n>>] = "PENDING"]
    /\ tasks' = [tasks EXCEPT ![<<u, n>>] = [NoTask EXCEPT !.step = "queued", !.celery = celery]]
    /\ together' = together \cup {{u, v} : v \in {w \in Users \ {u} : InProgress(w)}}
    /\ UNCHANGED <<participants, warned, bypassed, purged>>

(* FanKYCRetryView only tells the fan whether to submit again.             *)
RetryEligible(u) ==
    verification[u].status = "RETRY_REQUIRED" /\ verification[u].attempts < MaxAttempts

(* FanKYCDevelopmentBypassView.                                            *)
Bypass(u) ==
    /\ u \in Synthetic
    /\ verification' = [verification EXCEPT ![u].status = "VERIFIED"]
    /\ participants' = participants \cup {u} /\ bypassed' = bypassed \cup {u}
    /\ UNCHANGED <<attempts, tasks, warned, together, purged>>

-----------------------------------------------------------------------------
Done(a) == tasks' = [tasks EXCEPT ![a] = NoTask]

(* process_kyc_attempt: a closed attempt or a decided case is skipped.     *)
Start(a) ==
    /\ tasks[a].step = "queued"
    /\ IF attempts[a] \notin Closed /\ InProgress(a[1])
       THEN /\ attempts' = [attempts EXCEPT ![a] = "PROCESSING"]
            /\ verification' = [verification EXCEPT ![a[1]].status = "PROCESSING"]
            /\ tasks' = [tasks EXCEPT ![a].step = "started"]
       ELSE Done(a) /\ UNCHANGED <<attempts, verification>>
    /\ UNCHANGED <<participants, warned, together, bypassed, purged>>

(* DuplicateService: another user's document under review or verified.     *)
VerifiedElsewhere(u, d) ==
    \E v \in Users \ {u} : verification[v].hash = d /\ verification[v].status = "VERIFIED"
Duplicate(u, d) ==
    /\ d # None
    /\ \E v \in Users \ {u} :
          verification[v].hash = d /\ verification[v].status \in {"VERIFIED", "REVIEW"}

(* The checks, with the number the OCR reads or none. The pictures may be  *)
(* gone before the task reads them.                                        *)
Check(a, d, document, selfie) ==
    LET u == a[1] IN
    /\ tasks[a].step = "started"
    /\ a \in purged => ~document /\ ~selfie
    /\ ~document => d = None
    /\ verification' = [verification EXCEPT ![u].hash = HashAfter(u, d)]
    /\ \E reason \in PossibleReasons(document, selfie, Duplicate(u, HashAfter(u, d))) :
          tasks' = [tasks EXCEPT ![a].step = "checked", ![a].checks = reason]
    /\ UNCHANGED <<attempts, participants, warned, together, bypassed, purged>>

(* run_decision_engine: everything goes to review, but for a picture that  *)
(* can be taken again while attempts are left.                             *)
RetryAlways(a) == TRUE
RetryLeft(a) == a[2] < MaxAttempts
Retake(a) == tasks[a].checks = "poor_picture" /\ RetryLeft(a)

StillOpenUnchecked(a) == TRUE
StillOpen(a) == InProgress(a[1]) /\ attempts[a] \notin Closed /\ Newest(a)

(* make_decision locks the verification and the attempt.                   *)
Decide(a) ==
    LET u == a[1] IN
    /\ tasks[a].step = "checked"
    /\ IF StillOpen(a)
       THEN /\ verification' = [verification EXCEPT ![u].status =
                                  IF Retake(a) THEN "RETRY_REQUIRED" ELSE "REVIEW"]
            /\ attempts' = [attempts EXCEPT ![a] = IF Retake(a) THEN "FAILED" ELSE "COMPLETED"]
            /\ warned' = IF tasks[a].checks = "duplicate_identity_detected" THEN warned \cup {u} ELSE warned
       ELSE UNCHANGED <<verification, attempts, warned>>
    /\ Done(a)
    /\ UNCHANGED <<participants, together, bypassed, purged>>

(* With max_retries=None: for ever.                                        *)
RetryForever(a) ==
    /\ tasks[a].step \in {"queued", "started", "checked"} /\ tasks[a].celery
    /\ tasks' = [tasks EXCEPT ![a].step = "queued", ![a].checks = None]
    /\ UNCHANGED <<verification, attempts, participants, warned, together, bypassed, purged>>
(* An exception before the decision is retried by Celery from the start.   *)
Retry(a) ==
    /\ tasks[a].step \in {"queued", "started", "checked"}
    /\ tasks[a].celery /\ tasks[a].retries < MaxRetries
    /\ tasks' = [tasks EXCEPT ![a].step = "queued", ![a].checks = None,
                              ![a].retries = @ + 1]
    /\ UNCHANGED <<verification, attempts, participants, warned, together, bypassed, purged>>

(* _mark_kyc_failed, when no retries are left: it keeps a decided case and *)
(* an attempt that is not the newest.                                      *)
GiveUp(a) ==
    LET u == a[1] IN
    /\ tasks[a].step \in {"queued", "started", "checked"}
    /\ tasks[a].celery /\ tasks[a].retries = MaxRetries
    /\ IF InProgress(u) /\ Newest(a)
       THEN /\ attempts' = [attempts EXCEPT ![a] = IF @ \in Closed THEN @ ELSE "FAILED"]
            /\ verification' = [verification EXCEPT ![u].status =
                                  IF RetryLeft(a) THEN "RETRY_REQUIRED" ELSE "REVIEW"]
            /\ warned' = IF RetryLeft(a) THEN warned ELSE warned \cup {u}
       ELSE UNCHANGED <<attempts, verification, warned>>
    /\ Done(a)
    /\ UNCHANGED <<participants, together, bypassed, purged>>

(* The thread ends with the exception, or its process or the worker stops: *)
(* nothing runs the attempt again, and the case stays as it is.            *)
Lose(a) ==
    /\ tasks[a].step \in {"queued", "started", "checked"}
    /\ tasks' = [tasks EXCEPT ![a] = [NoTask EXCEPT !.step = "lost"]]
    /\ UNCHANGED <<verification, attempts, participants, warned, together, bypassed, purged>>

(* _mark_kyc_failed logs any exception of its own and returns: its         *)
(* transaction is rolled back and the task has ended.                      *)
CallbackFails(a) == tasks[a].celery /\ tasks[a].retries = MaxRetries /\ Lose(a)

(* AdminKYCReviewActionView.                                               *)
Review(u, decision) ==
    /\ verification[u].status = "REVIEW"
    /\ verification' = [verification EXCEPT ![u].status = decision]
    /\ participants' = IF decision = "VERIFIED" THEN participants \cup {u} ELSE participants
    /\ UNCHANGED <<attempts, tasks, warned, together, bypassed, purged>>

(* KYCRetentionService: any attempt that is old enough, decided or not.    *)
PurgeClosed(a) ==
    /\ attempts[a] \in Closed /\ a \notin purged /\ Cardinality(purged) < MaxPurges
    /\ purged' = purged \cup {a}
    /\ UNCHANGED <<verification, attempts, tasks, participants, warned, together, bypassed>>
Purge(a) ==
    /\ attempts[a] # None /\ a \notin purged /\ Cardinality(purged) < MaxPurges
    /\ purged' = purged \cup {a}
    /\ UNCHANGED <<verification, attempts, tasks, participants, warned, together, bypassed>>

Step(a) ==
    \/ Start(a) \/ Decide(a) \/ GiveUp(a)
    \/ \E d \in DocumentNumbers, document \in BOOLEAN, selfie \in BOOLEAN :
          Check(a, d, document, selfie)

Next ==
    \/ \E u \in Users :
          \/ Bypass(u)
          \/ \E d \in DocumentNumbers, celery \in BOOLEAN : Submit(u, d, celery)
          \/ \E decision \in Decisions : Review(u, decision)
    \/ \E a \in Users \X Numbers :
          Step(a) \/ Retry(a) \/ CallbackFails(a) \/ Lose(a) \/ Purge(a)

(* A worker or thread that lives goes on with its task.                    *)
Fairness == \A a \in Users \X Numbers : WF_vars(Step(a))
Spec == Init /\ [][Next]_vars /\ Fairness

-----------------------------------------------------------------------------
(* A case is in progress with exactly its newest attempt open, and a fan   *)
(* who is asked to retry has an attempt left: no outcome that a task, its  *)
(* callback or a review records leaves a case without a way forward. A     *)
(* case whose task is lost stays in progress.                              *)
AttemptsAgree ==
    \A u \in Users :
        /\ InProgress(u) =>
              /\ attempts[<<u, verification[u].attempts>>] \notin Closed
              /\ \A n \in 1..(verification[u].attempts - 1) : attempts[<<u, n>>] \in Closed
        /\ verification[u].status = "RETRY_REQUIRED" => RetryEligible(u) /\ MaySubmit(u)

(* What a decision has settled no task changes, however late it ends: a    *)
(* verified or rejected case stays so, and only a review closes a case in  *)
(* review; the market role comes with a verified case.                     *)
DecisionStands ==
    /\ participants' \subseteq {u \in Users : verification'[u].status = "VERIFIED"}
    /\ \A u \in Users :
       /\ verification[u].status = "VERIFIED" => verification'[u].status = "VERIFIED"
       /\ verification[u].status = "REJECTED" =>
             verification'[u].status = "REJECTED" \/ u \in bypassed'
       /\ verification[u].status = "REVIEW" => UNCHANGED <<attempts, tasks>>
             \/ verification'[u].status = "REVIEW"
DecisionsStand == [][DecisionStands]_vars

(* Two people with one document do not both reach the administrator        *)
(* without a warning, unless their attempts were open at one time.         *)
DuplicatesFlagged ==
    \A u, v \in Users :
        (/\ u # v /\ verification[u].hash = verification[v].hash /\ verification[u].hash # None
         /\ {verification[u].status, verification[v].status} \subseteq {"REVIEW", "VERIFIED"}
         /\ {u, v} \cap (warned \cup bypassed) = {})
           => {u, v} \in together

(* The retention comment says it removes the pictures of completed         *)
(* attempts: an attempt that is still open keeps them.                     *)
OnlyClosedPurged == [][\A a \in purged' \ purged : attempts[a] \in Closed]_vars

(* A submission is decided or asks for a new picture, however often its    *)
(* task fails and is retried, unless the task is lost or its callback      *)
(* fails.                                                                  *)
Settled(u) == ~InProgress(u) \/ tasks[<<u, verification[u].attempts>>].step = "lost"
SubmissionIsDecided == \A u \in Users : InProgress(u) ~> Settled(u)
=============================================================================
