---------------------------- MODULE OneTimeCodes ----------------------------
(***************************************************************************)
(* One e-mail address and its one-time codes of one purpose: those of its  *)
(* registration, or those that reset the password of an account that is    *)
(* active already (accounts/views.py, OTPService, PasswordResetService);   *)
(* no statement touches the codes of two purposes. A view reads the rows it tests in one statement  *)
(* and calls OTPService in a later one; create_otp_record is a transaction *)
(* that retires the unused codes its first statement sees and inserts a    *)
(* new one, so that two of them running side by side leave two codes. The  *)
(* mail goes out after the commit and its failure retires the code again.  *)
(*                                                                         *)
(* verify_otp locks rows. The registration view calls it in a transaction, *)
(* the password reset does not: a database with row locks (PostgreSQL)     *)
(* refuses the query, one without them (SQLite, the default of settings)   *)
(* runs it.                                                                *)
(***************************************************************************)
EXTENDS Naturals, Sequences, FiniteSets, FiniteSetsExt

CONSTANTS
    Clients,      \* concurrent requests
    Ips,          \* addresses verification requests come from
    MaxTries,     \* OTP_MAX_VERIFICATION_ATTEMPTS
    MaxDaily,     \* OTP_MAX_DAILY_RESENDS
    NoRow,        \* no VerificationAttempt row
    MaxCodes      \* bound on the codes made

(* The age of a code against the resend cooldown, its expiry and a day.    *)
Ages == {"fresh", "valid", "expired", "old"}
Older == [fresh |-> "valid", valid |-> "expired", expired |-> "old"]
Purposes == {"REGISTER", "PASSWORD_RESET"}
Codes == [age : Ages, attempts : 0..MaxTries, used : BOOLEAN, accepted : Nat]
Users == [exists : BOOLEAN, active : BOOLEAN, verified : BOOLEAN]
AttemptRows == (0..MaxTries) \cup {NoRow}      \* attempts, of one address
Steps == {"idle", "hold", "resend", "begin", "commit", "mail", "check",
          "rejected", "accepted", "miss", "consume", "confirm"}
Calls == [step : Steps, seen : 0..MaxCodes, code : 0..MaxCodes,
          ip : Ips, tries : 0..MaxTries]

VARIABLES
    purpose,      \* the purpose of the codes
    rowLocks,     \* has the database row locks?
    user,         \* the User row
    codes,        \* the OTPVerification rows, in the order of created_at
    attempts,     \* attempts of the VerificationAttempt of each address
    calls,        \* where each request is, and what it has read
    resets        \* passwords set by the password reset

vars == <<purpose, rowLocks, user, codes, attempts, calls, resets>>

Idle(ip) == [step |-> "idle", seen |-> 0, code |-> 0, ip |-> ip, tries |-> 0]

TypeOK ==
    /\ purpose \in Purposes
    /\ rowLocks \in BOOLEAN
    /\ user \in Users
    /\ codes \in Seq(Codes) /\ Len(codes) <= MaxCodes
    /\ attempts \in [Ips -> AttemptRows]
    /\ calls \in [Clients -> Calls]
    /\ resets \in Nat

Init ==
    /\ purpose \in Purposes
    /\ rowLocks \in BOOLEAN
    /\ user = LET known == purpose = "PASSWORD_RESET" IN
              [exists |-> known, active |-> known, verified |-> known]
    /\ codes = << >>
    /\ attempts = [ip \in Ips |-> NoRow]
    /\ calls \in [Clients -> {Idle(ip) : ip \in Ips}]
    /\ resets = 0

Goto(c, step) == calls' = [calls EXCEPT ![c].step = step]
Finish(c) == calls' = [calls EXCEPT ![c] = Idle(@.ip)]

-----------------------------------------------------------------------------
(* RegisterView: create_user saves an active account, a second save makes  *)
(* it inactive, and the code is made after it. An address that waits for   *)
(* its verification is told so; any other known one is refused.            *)
Register(c) ==
    /\ calls[c].step = "idle" /\ ~user.exists
    /\ user' = [exists |-> TRUE, active |-> TRUE, verified |-> FALSE]
    /\ Goto(c, "hold")
    /\ UNCHANGED <<purpose, rowLocks, codes, attempts, resets>>

Hold(c) ==
    /\ calls[c].step = "hold"
    /\ user' = [user EXCEPT !.active = FALSE]
    /\ Goto(c, "begin")
    /\ UNCHANGED <<purpose, rowLocks, codes, attempts, resets>>

Today == {i \in DOMAIN codes : codes[i].age # "old"}
Unused == {i \in DOMAIN codes : ~codes[i].used}

DailyLimitOff == FALSE
DailyLimitReached == Cardinality(Today) >= MaxDaily

(* ResendOTPView: unverified, no unused code within the cooldown, and not  *)
(* too many codes today.                                                   *)
Resend(c) ==
    /\ purpose = "REGISTER"
    /\ calls[c].step = "idle" /\ user.exists /\ ~user.verified
    /\ \A i \in Unused : codes[i].age # "fresh"
    /\ ~DailyLimitReached
    /\ Goto(c, "begin")
    /\ UNCHANGED <<purpose, rowLocks, user, codes, attempts, resets>>

(* request_password_reset, for an active account.                          *)
RequestReset(c) ==
    /\ purpose = "PASSWORD_RESET"
    /\ calls[c].step = "idle" /\ user.active
    /\ Goto(c, "begin")
    /\ UNCHANGED <<purpose, rowLocks, user, codes, attempts, resets>>

(* create_otp_record: its UPDATE sees the codes committed before it.       *)
BeginCode(c) ==
    /\ calls[c].step = "begin"
    /\ calls' = [calls EXCEPT ![c].step = "commit", ![c].seen = Len(codes)]
    /\ UNCHANGED <<purpose, rowLocks, user, codes, attempts, resets>>

NewCode == [age |-> "fresh", attempts |-> 0, used |-> FALSE, accepted |-> 0]

KeepsOlderCodes(seen) == Append(codes, NewCode)

Retired(seen) ==
    Append([i \in DOMAIN codes |-> [codes[i] EXCEPT !.used = @ \/ i <= seen]], NewCode)

CommitCode(c) ==
    /\ calls[c].step = "commit" /\ Len(codes) < MaxCodes
    /\ codes' = Retired(calls[c].seen)
    /\ calls' = [calls EXCEPT ![c].step = "mail", ![c].code = Len(codes) + 1]
    /\ UNCHANGED <<purpose, rowLocks, user, attempts, resets>>

(* A failed mail retires a registration code; the reset view answers with  *)
(* an error and leaves its code.                                           *)
Mail(c) ==
    /\ calls[c].step = "mail"
    /\ \/ UNCHANGED codes
       \/ /\ purpose = "REGISTER"
          /\ codes' = [codes EXCEPT ![calls[c].code].used = TRUE]
    /\ Finish(c)
    /\ UNCHANGED <<purpose, rowLocks, user, attempts, resets>>

-----------------------------------------------------------------------------
(* verify_otp: the newest unused code of the purpose decides.              *)
Newest == Max(Unused)
LiveTriesUnchecked == Unused # {} /\ codes[Newest].age \in {"fresh", "valid"}
Live ==
    /\ Unused # {}
    /\ codes[Newest].age \in {"fresh", "valid"}
    /\ codes[Newest].attempts < MaxTries

ConsumeForgets(i) == [codes EXCEPT ![i].accepted = @ + 1]

Consume(i) == [codes EXCEPT ![i].used = TRUE, ![i].accepted = @ + 1]

(* VerifyOTPView: the attempts of the address are read (and start again    *)
(* after the lock window).                                                 *)
ReadAttempts(c) ==
    LET row == attempts[calls[c].ip]
        read == IF row = NoRow THEN 0 ELSE row
    IN
    /\ purpose = "REGISTER"
    /\ calls[c].step = "idle" /\ user.exists
    /\ attempts' = [attempts EXCEPT ![calls[c].ip] = read]
    /\ \E n \in {0, read} :
          IF n < MaxTries
          THEN calls' = [calls EXCEPT ![c].step = "check", ![c].tries = n]
          ELSE UNCHANGED calls
    /\ UNCHANGED <<purpose, rowLocks, user, codes, resets>>

(* The transaction: an accepted code activates the account; a refusal      *)
(* raises, and rolls back what verify_otp has written.                     *)
VerifyRegistration(c) ==
    /\ calls[c].step = "check"
    /\ \/ /\ Live
          /\ codes' = Consume(Newest)
          /\ user' = [user EXCEPT !.active = TRUE, !.verified = TRUE]
          /\ Goto(c, "accepted")
       \/ Goto(c, "rejected") /\ UNCHANGED <<codes, user>>
    /\ UNCHANGED <<purpose, rowLocks, attempts, resets>>

(* The attempts as they were read, plus one; an update of a row that is    *)
(* gone is an error. An accepted code deletes the row.                     *)
RecordAttempt(c) ==
    /\ \/ /\ calls[c].step = "rejected"
          /\ attempts' = [attempts EXCEPT ![calls[c].ip] =
                             IF @ = NoRow THEN @ ELSE calls[c].tries + 1]
       \/ /\ calls[c].step = "accepted"
          /\ attempts' = [attempts EXCEPT ![calls[c].ip] = NoRow]
    /\ Finish(c)
    /\ UNCHANGED <<purpose, rowLocks, user, codes, resets>>

(* verify_reset_token and confirm_password_reset, which no transaction     *)
(* holds together: the code is read, and marked by a later statement. A    *)
(* database with row locks refuses the query.                              *)
ReadReset(c) ==
    /\ purpose = "PASSWORD_RESET" /\ ~rowLocks
    /\ calls[c].step = "idle" /\ user.active
    /\ Live
    /\ \E step \in {"consume", "miss"} :
          calls' = [calls EXCEPT ![c].step = step, ![c].code = Newest,
                                 ![c].tries = codes[Newest].attempts]
    /\ UNCHANGED <<purpose, rowLocks, user, codes, attempts, resets>>

(* An expired code is used up.                                             *)
ExpireReset(c) ==
    /\ purpose = "PASSWORD_RESET" /\ ~rowLocks
    /\ calls[c].step = "idle" /\ user.active
    /\ Unused # {}
    /\ codes[Newest].age \in {"expired", "old"}
    /\ codes' = [codes EXCEPT ![Newest].used = TRUE]
    /\ UNCHANGED <<purpose, rowLocks, user, attempts, calls, resets>>

MissReset(c) ==
    /\ calls[c].step = "miss"
    /\ codes' = [codes EXCEPT ![calls[c].code].attempts = calls[c].tries + 1]
    /\ Finish(c)
    /\ UNCHANGED <<purpose, rowLocks, user, attempts, resets>>

(* The verification ends here, and the code with it; the confirmation goes *)
(* on to the password.                                                     *)
ConsumeReset(c) ==
    /\ calls[c].step = "consume"
    /\ codes' = Consume(calls[c].code)
    /\ Finish(c) \/ Goto(c, "confirm")
    /\ UNCHANGED <<purpose, rowLocks, user, attempts, resets>>

(* The new password is stored, unless it is the old one, and the other     *)
(* codes are used up.                                                      *)
UsedUp == [i \in DOMAIN codes |-> [codes[i] EXCEPT !.used = TRUE]]
StorePassword(c) ==
    /\ calls[c].step = "confirm"
    /\ \/ resets' = resets + 1 /\ codes' = UsedUp
       \/ UNCHANGED <<resets, codes>>
    /\ Finish(c)
    /\ UNCHANGED <<purpose, rowLocks, user, attempts>>

-----------------------------------------------------------------------------
(* Time passes: a code grows older, never past one made before it.         *)
Age(i) ==
    /\ codes[i].age # "old"
    /\ \A j \in 1..(i - 1) : codes[j].age # codes[i].age
    /\ codes' = [codes EXCEPT ![i].age = Older[@]]
    /\ UNCHANGED <<purpose, rowLocks, user, attempts, calls, resets>>

(* A worker stops in the middle of a request.                              *)
Stop(c) ==
    /\ calls[c].step # "idle"
    /\ Finish(c)
    /\ UNCHANGED <<purpose, rowLocks, user, codes, attempts, resets>>

Next ==
    \/ \E c \in Clients :
          \/ Register(c) \/ Hold(c) \/ Resend(c) \/ RequestReset(c)
          \/ BeginCode(c) \/ CommitCode(c) \/ Mail(c)
          \/ ReadAttempts(c) \/ VerifyRegistration(c) \/ RecordAttempt(c)
          \/ ReadReset(c) \/ ExpireReset(c) \/ MissReset(c) \/ ConsumeReset(c)
          \/ StorePassword(c)
          \/ Stop(c)
    \/ \E i \in DOMAIN codes : Age(i)

Spec == Init /\ [][Next]_vars

-----------------------------------------------------------------------------
Acceptances == MapThenSumSet(LAMBDA i : codes[i].accepted, DOMAIN codes)

(* However requests, mails and failures interleave: a registration code is *)
(* accepted at most once, in its lifetime, and the address is verified by  *)
(* one; every accepted code is used up; no more passwords are reset than   *)
(* codes were accepted for; and there are never more usable codes than     *)
(* requests that can have made them side by side.                          *)
CodesAcceptedOnce ==
    /\ \A i \in DOMAIN codes :
          /\ codes[i].accepted > 0 => codes[i].used
          /\ purpose = "REGISTER" => codes[i].accepted <= 1
    /\ purpose = "REGISTER" /\ user.verified => Acceptances > 0
    /\ resets <= Acceptances
    /\ Cardinality(Unused) <= Cardinality(Clients)

(* The limits that are tested before and apply after other requests: the   *)
(* codes of a day exceed theirs by no more than the requests that passed   *)
(* the test together, and a lost update never takes the count of wrong     *)
(* guesses past the number that locks an address.                          *)
LimitsHold ==
    /\ purpose = "REGISTER" => Cardinality(Today) < MaxDaily + Cardinality(Clients)
    /\ \A ip \in Ips : attempts[ip] # NoRow => attempts[ip] <= MaxTries
=============================================================================
