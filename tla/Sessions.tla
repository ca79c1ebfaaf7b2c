------------------------------ MODULE Sessions ------------------------------
(***************************************************************************)
(* One account's logins, refresh tokens and sessions: the views of         *)
(* authentication/views.py with AuthenticationService, SessionService and  *)
(* TokenService.                                                           *)
(*                                                                         *)
(* The count of failed logins is read and written without a lock. A token  *)
(* is issued before its session is stored. A refresh is one transaction    *)
(* under the lock of the session; every other operation is a series of     *)
(* statements that refreshes, logins and each other may come between.      *)
(* simplejwt's tables are external: the tokens it lists as outstanding and *)
(* those on its blacklist.                                                 *)
(***************************************************************************)
EXTENDS Naturals, Sequences

CONSTANTS
    Clients,      \* concurrent requests
    MaxFailed,    \* LOGIN_MAX_FAILED_ATTEMPTS
    MaxTokens,    \* bound on the tokens issued
    MaxCount      \* bound on the count of failed logins

Tokens == [listed : BOOLEAN, blacklisted : BOOLEAN, rotated : Nat]
SessionRows == [jti : Nat, active : BOOLEAN]
Locks == {"no", "yes", "lapsed"}      \* locked_until: NULL, ahead, past
Steps == {"idle", "authenticate", "fail", "issue", "open",
          "blacklist", "terminate", "list", "blacklistAll", "terminateAll"}

VARIABLES
    failed, locked,   \* failed_attempts and locked_until of the user
    tokens,           \* refresh tokens in the order they were issued
    sessions,         \* UserSession rows
    requests,         \* where each request is, and what it has read
    closed            \* sessions a finished request has told to be ended

vars == <<failed, locked, tokens, sessions, requests, closed>>

Idle == [step |-> "idle", failed |-> 0, locked |-> "no", token |-> 0,
         session |-> 0, todo |-> {}, due |-> {}, first |-> FALSE]

TypeOK ==
    /\ failed \in Nat /\ locked \in Locks
    /\ tokens \in Seq(Tokens) /\ Len(tokens) <= MaxTokens
    /\ sessions \in Seq(SessionRows)
    /\ requests \in [Clients -> [step : Steps, failed : Nat, locked : Locks,
                                 token : Nat, session : Nat,
                                 todo : SUBSET (1..MaxTokens),
                                 due : SUBSET (1..MaxTokens), first : BOOLEAN]]
    /\ closed \subseteq DOMAIN sessions

Init ==
    /\ failed = 0 /\ locked = "no"
    /\ tokens = << >> /\ sessions = << >>
    /\ requests = [c \in Clients |-> Idle]
    /\ closed = {}

At(c, step) == requests[c].step = step
Goto(c, step) == requests' = [requests EXCEPT ![c].step = step]
Finish(c) == requests' = [requests EXCEPT ![c] = Idle]

-----------------------------------------------------------------------------
(* LoginView: a locked account is refused; a lock that has lapsed is reset *)
(* by is_account_locked.                                                   *)
Login(c) ==
    /\ At(c, "idle") /\ locked # "yes"
    /\ failed' = IF locked = "lapsed" THEN 0 ELSE failed
    /\ locked' = "no"
    /\ Goto(c, "authenticate")
    /\ UNCHANGED <<tokens, sessions, closed>>

(* authenticate reads the user again.                                      *)
WrongPassword(c) ==
    /\ At(c, "authenticate")
    /\ requests' = [requests EXCEPT ![c].step = "fail", ![c].failed = failed,
                                    ![c].locked = locked]
    /\ UNCHANGED <<failed, locked, tokens, sessions, closed>>

RightPassword(c) ==
    /\ At(c, "authenticate")
    /\ failed' = 0 /\ locked' = "no"
    /\ Goto(c, "issue")
    /\ UNCHANGED <<tokens, sessions, closed>>

(* record_failed_attempt writes the counter and the lock of the copy.      *)
RecordCounts(c) == requests[c].failed + 1
RecordKeepsLock(c) ==
    /\ failed' = RecordCounts(c)
    /\ locked' = IF RecordCounts(c) >= MaxFailed THEN "yes" ELSE locked
Record(c) ==
    /\ failed' = RecordCounts(c)
    /\ locked' = IF RecordCounts(c) >= MaxFailed THEN "yes" ELSE requests[c].locked

RecordFailedAttempt(c) ==
    /\ At(c, "fail") /\ RecordCounts(c) <= MaxCount
    /\ Record(c)
    /\ Finish(c)
    /\ UNCHANGED <<tokens, sessions, closed>>

LockLapses ==
    /\ locked = "yes" /\ locked' = "lapsed"
    /\ UNCHANGED <<failed, tokens, sessions, requests, closed>>

NewToken(listed) == [listed |-> listed, blacklisted |-> FALSE, rotated |-> 0]

(* generate_tokens, then create_session.                                   *)
IssueTokens(c) ==
    /\ At(c, "issue") /\ Len(tokens) < MaxTokens
    /\ tokens' = Append(tokens, NewToken(TRUE))
    /\ requests' = [requests EXCEPT ![c].step = "open", ![c].token = Len(tokens) + 1]
    /\ UNCHANGED <<failed, locked, sessions, closed>>

OpenSession(c) ==
    /\ At(c, "open")
    /\ sessions' = Append(sessions, [jti |-> requests[c].token, active |-> TRUE])
    /\ Finish(c)
    /\ UNCHANGED <<failed, locked, tokens, closed>>

-----------------------------------------------------------------------------
Refreshable(s) == sessions[s].active /\ ~tokens[sessions[s].jti].blacklisted

RotateKeepsToken(s, listed) == Append(tokens, NewToken(listed))
Rotate(s, listed) ==
    Append([tokens EXCEPT ![sessions[s].jti].blacklisted = TRUE,
                          ![sessions[s].jti].rotated = @ + 1], NewToken(listed))

(* TokenRefreshView: the token of an active session is exchanged for a new *)
(* one. Whether simplejwt lists that as outstanding depends on its version.*)
Refresh(s) ==
    /\ Refreshable(s) /\ Len(tokens) < MaxTokens
    /\ \E listed \in BOOLEAN : tokens' = Rotate(s, listed)
    /\ sessions' = [sessions EXCEPT ![s].jti = Len(tokens) + 1]
    /\ UNCHANGED <<failed, locked, requests, closed>>

(* LogoutView: the session of the token is read, the token blacklisted,    *)
(* the session ended by its primary key. A refresh may come between; one   *)
(* that blacklists the token first makes the logout fail, unless the       *)
(* logout has just tested it.                                              *)
LogoutFind(c, s) ==
    /\ At(c, "idle") /\ Refreshable(s)
    /\ requests' = [requests EXCEPT ![c].step = "blacklist", ![c].session = s,
                                    ![c].token = sessions[s].jti]
    /\ UNCHANGED <<failed, locked, tokens, sessions, closed>>

LogoutBlacklist(c) ==
    /\ At(c, "blacklist")
    /\ \/ /\ tokens[requests[c].token].blacklisted
          /\ Finish(c)
          /\ UNCHANGED tokens
       \/ /\ tokens' = [tokens EXCEPT ![requests[c].token].blacklisted = TRUE]
          /\ Goto(c, "terminate")
    /\ UNCHANGED <<failed, locked, sessions, closed>>

Ended(rows) == [s \in DOMAIN sessions |->
                  [sessions[s] EXCEPT !.active = @ /\ s \notin rows]]

LogoutTerminate(c) ==
    /\ At(c, "terminate")
    /\ sessions' = Ended({requests[c].session})
    /\ closed' = closed \cup {requests[c].session}
    /\ Finish(c)
    /\ UNCHANGED <<failed, locked, tokens>>

(* LogoutAllView blacklists the outstanding tokens and then ends the       *)
(* sessions. invalidate_user_sessions, called when the password, the       *)
(* status or the roles change, ends the sessions first; a password reset   *)
(* does nothing else.                                                      *)
EndAll(c, step) ==
    /\ At(c, "idle")
    /\ requests' = [requests EXCEPT ![c].step = step, ![c].due = DOMAIN sessions,
                                    ![c].first = step = "terminateAll"]
    /\ UNCHANGED <<failed, locked, tokens, sessions, closed>>

LogoutAll(c) == EndAll(c, "list")
InvalidateUserSessions(c) == EndAll(c, "terminateAll")

ListTokens(c) ==
    /\ At(c, "list")
    /\ requests' = [requests EXCEPT ![c].step = "blacklistAll",
                       ![c].todo = {t \in DOMAIN tokens : tokens[t].listed}]
    /\ UNCHANGED <<failed, locked, tokens, sessions, closed>>

BlacklistOne(c, t) ==
    /\ At(c, "blacklistAll") /\ t \in requests[c].todo
    /\ tokens' = [tokens EXCEPT ![t].blacklisted = TRUE]
    /\ requests' = [requests EXCEPT ![c].todo = @ \ {t}]
    /\ UNCHANGED <<failed, locked, sessions, closed>>

BlacklistDone(c) ==
    /\ At(c, "blacklistAll") /\ requests[c].todo = {}
    /\ IF requests[c].first
       THEN /\ closed' = closed \cup requests[c].due
            /\ Finish(c)
       ELSE Goto(c, "terminateAll") /\ UNCHANGED closed
    /\ UNCHANGED <<failed, locked, tokens, sessions>>

TerminateNothing(c) == UNCHANGED sessions
Terminate(c) == sessions' = Ended(DOMAIN sessions)

TerminateUserSessions(c) ==
    /\ At(c, "terminateAll")
    /\ Terminate(c)
    /\ \/ requests[c].first /\ Goto(c, "list") /\ UNCHANGED closed
       \/ closed' = closed \cup requests[c].due /\ Finish(c)
    /\ UNCHANGED <<failed, locked, tokens>>

(* A worker stops in the middle of a request.                              *)
Stop(c) ==
    /\ ~At(c, "idle")
    /\ Finish(c)
    /\ UNCHANGED <<failed, locked, tokens, sessions, closed>>

Next ==
    \/ \E c \in Clients :
          \/ Login(c) \/ WrongPassword(c) \/ RightPassword(c)
          \/ RecordFailedAttempt(c) \/ IssueTokens(c) \/ OpenSession(c)
          \/ LogoutBlacklist(c) \/ LogoutTerminate(c)
          \/ LogoutAll(c) \/ InvalidateUserSessions(c) \/ ListTokens(c)
          \/ BlacklistDone(c) \/ TerminateUserSessions(c) \/ Stop(c)
          \/ \E s \in DOMAIN sessions : LogoutFind(c, s)
          \/ \E t \in DOMAIN tokens : BlacklistOne(c, t)
    \/ \E s \in DOMAIN sessions : Refresh(s)
    \/ LockLapses

Spec == Init /\ [][Next]_vars

-----------------------------------------------------------------------------
(* A session that existed when a logout, a logout from all devices or an   *)
(* invalidation began cannot be refreshed once that has succeeded, even if *)
(* refreshes exchanged its token while the request ran; and no token is    *)
(* ever exchanged twice.                                                   *)
ClosedSessionsStayClosed ==
    /\ \A s \in closed : ~Refreshable(s)
    /\ \A t \in DOMAIN tokens : tokens[t].rotated <= 1
    /\ \A r, s \in DOMAIN sessions : sessions[r].jti = sessions[s].jti => r = s

(* Concurrent failures, successes and lapses of the lock overwrite each    *)
(* other's writes, yet the account has a lock exactly when its counter     *)
(* says so.                                                                *)
LockMatchesCounter == locked # "no" <=> failed >= MaxFailed
=============================================================================
