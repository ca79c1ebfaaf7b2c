----------------------------- MODULE Invitations -----------------------------
(***************************************************************************)
(* One invitee: the platform-role invitations (InvitationService) and the  *)
(* account setup links (AccountSetupService) sent to one address, and the  *)
(* account they lead to; for the club's own invitations see ClubStaff.     *)
(*                                                                         *)
(* Inviting is a transaction; answering an invitation is not: the row is   *)
(* read and tested, written by a later statement without a lock, and the   *)
(* roles are assigned one by one. Completing the setup reads the link,     *)
(* writes the account and then answers the pending invitations itself. A   *)
(* worker may stop between any two statements.                             *)
(***************************************************************************)
EXTENDS Naturals, Sequences, FiniteSets, FiniteSetsExt

CONSTANTS
    Clients,      \* concurrent requests
    Roles,        \* platform roles an invitation may carry
    MaxInvitations, MaxLinks    \* bounds on the rows

AccountStatuses == {"none", "PENDING_INVITATION", "ACTIVE", "SUSPENDED", "DEACTIVATED"}
Statuses == {"PENDING", "ACCEPTED", "EXPIRED", "REVOKED"}
AdminInvitations == [status : Statuses, late : BOOLEAN, roles : SUBSET Roles]
SetupTokens == [used : BOOLEAN, late : BOOLEAN]
Steps == {"idle", "invite", "revoke", "accept", "grant", "write", "staff", "admin"}

VARIABLES
    account,      \* account_status of the invitee
    invitations,  \* AdminInvitation rows; late: its expiry has passed
    links,        \* AccountSetupToken rows
    granted,      \* active UserRoles of the invitee
    calls,        \* where each request is, and what it has read
    agreed,       \* invitations somebody has accepted
    broken        \* invitations whose acceptance was interrupted

vars == <<account, invitations, links, granted, calls, agreed, broken>>

Idle == [step |-> "idle", row |-> 0, todo |-> {}, seen |-> "none"]

TypeOK ==
    /\ account \in AccountStatuses
    /\ invitations \in Seq(AdminInvitations) /\ Len(invitations) <= MaxInvitations
    /\ links \in Seq(SetupTokens) /\ Len(links) <= MaxLinks
    /\ granted \subseteq Roles
    /\ calls \in [Clients -> [step : Steps, row : Nat, todo : SUBSET Roles,
                              seen : AccountStatuses]]
    /\ agreed \subseteq DOMAIN invitations /\ broken \subseteq agreed

Init ==
    /\ account \in {"none", "ACTIVE"}
    /\ invitations = << >> /\ links = << >>
    /\ granted = {}
    /\ calls = [c \in Clients |-> Idle]
    /\ agreed = {} /\ broken = {}

At(c, step) == calls[c].step = step
Finish(c) == calls' = [calls EXCEPT ![c] = Idle]
Pending == {i \in DOMAIN invitations : invitations[i].status = "PENDING"}

-----------------------------------------------------------------------------
(* create_invitation first reads the account.                              *)
ReadAccount(c) ==
    /\ At(c, "idle")
    /\ calls' = [calls EXCEPT ![c].step = "invite", ![c].seen = account]
    /\ UNCHANGED <<account, invitations, links, granted, agreed, broken>>

NewInvitation(roles) ==
    Append(invitations, [status |-> "PENDING", late |-> FALSE, roles |-> roles])

LinksStay == links
RetiredLinks == [i \in DOMAIN links |-> [links[i] EXCEPT !.used = TRUE]]
NewLink == [used |-> FALSE, late |-> FALSE]

(* The account is created, or the unused links of the one that waits are   *)
(* used up; then a link is made. Two creators collide on the address.      *)
SendLink(c) ==
    /\ Len(links) < MaxLinks
    /\ \/ /\ calls[c].seen = "none" /\ account = "none"
          /\ account' = "PENDING_INVITATION"
       \/ /\ calls[c].seen # "none"
          /\ UNCHANGED account
    /\ links' = Append(IF calls[c].seen = "none" THEN links ELSE RetiredLinks, NewLink)

(* An active account gets an invitation of its own, unless one is pending. *)
InviteActive(c, roles) ==
    /\ At(c, "invite") /\ calls[c].seen = "ACTIVE"
    /\ Pending = {}
    /\ Len(invitations) < MaxInvitations
    /\ invitations' = NewInvitation(roles)
    /\ Finish(c)
    /\ UNCHANGED <<account, links, granted, agreed, broken>>

(* Any other gets a link, with the pending invitation there is or a new one.*)
InviteNew(c, roles) ==
    /\ At(c, "invite") /\ calls[c].seen # "ACTIVE"
    /\ SendLink(c)
    /\ IF Pending # {} THEN UNCHANGED invitations
       ELSE /\ Len(invitations) < MaxInvitations
            /\ invitations' = NewInvitation(roles)
    /\ Finish(c)
    /\ UNCHANGED <<granted, agreed, broken>>

-----------------------------------------------------------------------------
(* revoke_invitation reads a pending row and writes it in a later          *)
(* statement.                                                              *)
ReadForRevoke(c, i) ==
    /\ At(c, "idle") /\ invitations[i].status = "PENDING"
    /\ calls' = [calls EXCEPT ![c].step = "revoke", ![c].row = i]
    /\ UNCHANGED <<account, invitations, links, granted, agreed, broken>>

Revoke(c) ==
    /\ At(c, "revoke")
    /\ invitations' = [invitations EXCEPT ![calls[c].row].status = "REVOKED"]
    /\ Finish(c)
    /\ UNCHANGED <<account, links, granted, agreed, broken>>

(* accept_invitation, called with a token or by the setup. An expired row  *)
(* is marked so whatever its status was.                                   *)
ReadToAccept(c, i) ==
    /\ \/ At(c, "idle") /\ account # "none" /\ account # "PENDING_INVITATION"
       \/ At(c, "admin") /\ Pending # {} /\ i = Max(Pending)
    /\ IF invitations[i].late
       THEN /\ invitations' = [invitations EXCEPT ![i].status = "EXPIRED"]
            /\ Finish(c)
       ELSE /\ invitations[i].status = "PENDING"
            /\ calls' = [calls EXCEPT ![c].step = "accept", ![c].row = i]
            /\ UNCHANGED invitations
    /\ UNCHANGED <<account, links, granted, agreed, broken>>

Accept(c) ==
    /\ At(c, "accept")
    /\ invitations' = [invitations EXCEPT ![calls[c].row].status = "ACCEPTED"]
    /\ agreed' = agreed \cup {calls[c].row}
    /\ calls' = [calls EXCEPT ![c].step = "grant", ![c].todo = invitations[calls[c].row].roles]
    /\ UNCHANGED <<account, links, granted, broken>>

GrantSkipsRole(c, role) == granted' = granted
Grant(c, role) == granted' = granted \cup {role}

GrantRole(c, role) ==
    /\ At(c, "grant") /\ role \in calls[c].todo
    /\ Grant(c, role)
    /\ calls' = [calls EXCEPT ![c].todo = @ \ {role}]
    /\ UNCHANGED <<account, invitations, links, agreed, broken>>

GrantDone(c) ==
    /\ At(c, "grant") /\ calls[c].todo = {}
    /\ Finish(c)
    /\ UNCHANGED <<account, invitations, links, granted, agreed, broken>>

-----------------------------------------------------------------------------
(* complete_setup: an effective link is read, the account written later.   *)
Effective(i) == ~links[i].used /\ ~links[i].late /\ account = "PENDING_INVITATION"

ReadLink(c, i) ==
    /\ At(c, "idle") /\ Effective(i)
    /\ calls' = [calls EXCEPT ![c].step = "write", ![c].row = i]
    /\ UNCHANGED <<account, invitations, links, granted, agreed, broken>>

CompleteSetup(c) ==
    /\ At(c, "write")
    /\ account' = "ACTIVE"
    /\ links' = [links EXCEPT ![calls[c].row].used = TRUE]
    /\ calls' = [calls EXCEPT ![c] = [Idle EXCEPT !.step = "staff"]]
    /\ UNCHANGED <<invitations, granted, agreed, broken>>

(* AccountSetupCompleteView answers a pending staff invitation; when that  *)
(* fails, as for an expired one, the request ends there. It goes on to the *)
(* newest pending invitation (see ReadToAccept).                           *)
AnswerStaff(c) ==
    /\ At(c, "staff")
    /\ Finish(c) \/ calls' = [calls EXCEPT ![c].step = "admin"]
    /\ UNCHANGED <<account, invitations, links, granted, agreed, broken>>

NothingPending(c) ==
    /\ At(c, "admin") /\ Pending = {}
    /\ Finish(c)
    /\ UNCHANGED <<account, invitations, links, granted, agreed, broken>>

(* suspend_user, deactivate_user, activate_user.                           *)
ChangeStatus(status) ==
    /\ account # "none" /\ status \notin {"none", "PENDING_INVITATION", account}
    /\ account' = status
    /\ UNCHANGED <<invitations, links, granted, calls, agreed, broken>>

-----------------------------------------------------------------------------
(* An expiry passes; the rows of one table expire in their order.          *)
Late(rows, i) == ~rows[i].late /\ \A j \in 1..(i - 1) : rows[j].late

InvitationLate(i) ==
    /\ Late(invitations, i) /\ invitations' = [invitations EXCEPT ![i].late = TRUE]
    /\ UNCHANGED <<account, links, granted, calls, agreed, broken>>
LinkLate(i) ==
    /\ Late(links, i) /\ links' = [links EXCEPT ![i].late = TRUE]
    /\ UNCHANGED <<account, invitations, granted, calls, agreed, broken>>

(* A worker stops, or the request is refused.                              *)
Stop(c) ==
    /\ ~At(c, "idle")
    /\ broken' = IF At(c, "grant") THEN broken \cup {calls[c].row} ELSE broken
    /\ Finish(c)
    /\ UNCHANGED <<account, invitations, links, granted, agreed>>

Next ==
    \/ \E c \in Clients :
          \/ ReadAccount(c) \/ Revoke(c) \/ Accept(c) \/ GrantDone(c)
          \/ CompleteSetup(c) \/ AnswerStaff(c) \/ NothingPending(c) \/ Stop(c)
          \/ \E roles \in SUBSET Roles \ {{}} : InviteActive(c, roles) \/ InviteNew(c, roles)
          \/ \E role \in Roles : GrantRole(c, role)
          \/ \E i \in DOMAIN invitations : ReadForRevoke(c, i) \/ ReadToAccept(c, i)
          \/ \E i \in DOMAIN links : ReadLink(c, i)
    \/ \E status \in AccountStatuses : ChangeStatus(status)
    \/ \E i \in DOMAIN invitations : InvitationLate(i)
    \/ \E i \in DOMAIN links : LinkLate(i)

Spec == Init /\ [][Next]_vars

-----------------------------------------------------------------------------
Granting(i) == \E c \in Clients : At(c, "grant") /\ calls[c].row = i

(* Whatever revocations, expiries and second answers come between: a role  *)
(* comes from an invitation that was accepted, an accepted invitation      *)
(* gives all its roles unless the worker that was granting them stopped,   *)
(* and it is never pending again.                                          *)
InvitationsGrantRoles ==
    /\ granted \subseteq UNION {invitations[i].roles : i \in agreed}
    /\ \A i \in agreed \ broken : ~Granting(i) => invitations[i].roles \subseteq granted
    /\ agreed \cap Pending = {}

(* A resent invitation uses up the links before it: there are never more   *)
(* working links than requests that can have sent them side by side, and   *)
(* none once the account was set up, suspended or deactivated.             *)
WorkingLinksBounded ==
    LET working == {i \in DOMAIN links : Effective(i)} IN
    /\ Cardinality(working) <= Cardinality(Clients)
    /\ account # "PENDING_INVITATION" => working = {}
=============================================================================
