----------------------------- MODULE ClubStaff -----------------------------
(***************************************************************************)
(* Who works for a club: staff invitations, workspaces, and the set-up     *)
(* links by which a new club administrator gets an account.                *)
(*                                                                         *)
(* accept_invitation reads the invitation without a lock, and its          *)
(* transaction writes the workspace, the invitation and the platform role. *)
(* A club has at most one invitation of each status for an address. One    *)
(* club; a user is known by the address.                                   *)
(***************************************************************************)
EXTENDS Integers, FiniteSetsExt

CONSTANTS
    Users,
    Invitees,     \* the users that are invited
    Clients,      \* concurrent requests
    MaxInvitations,
    MaxLoad,      \* bound on invitations, lapsed ones and running requests together
    None

WorkspaceRoles == {"ADMIN", "STAFF"}
InvitationStatuses == {"PENDING", "ACCEPTED", "EXPIRED"}
Ids == 1..MaxInvitations
ClubWorkspaces == [role : WorkspaceRoles, active : BOOLEAN]
StaffInvitations == [email : Users, role : WorkspaceRoles, status : InvitationStatuses]

\* The role that the invitation named, and the role its user had in the club.
Grants == [id : Ids, user : Users, role : WorkspaceRoles, prior : WorkspaceRoles \cup {None}]

VARIABLES
    invitations,  \* StaffInvitation rows, None before creation and once deleted
    created,      \* number of the invitations created
    lapsed,       \* invitations whose seven days are over
    workspaces,   \* ClubWorkspace of each user, or None
    account,      \* "none", "PENDING_INVITATION" or "ACTIVE"
    link,         \* the user has a set-up link that works
    clubAdmins,   \* users with the platform role Club Admin
    calls,        \* what each request has read
    grants,       \* what was accepted by whom, while the workspace is not moved or deleted
    overlapped    \* invitations read as pending by two requests at a time

vars == <<invitations, created, lapsed, workspaces, account, link, clubAdmins, calls,
          grants, overlapped>>

Idle == [op |-> None, id |-> None, row |-> None, user |-> None]

TypeOK ==
    /\ invitations \in [Ids -> StaffInvitations \cup {None}]
    /\ created \in 0..MaxInvitations /\ lapsed \subseteq Ids
    /\ workspaces \in [Users -> ClubWorkspaces \cup {None}]
    /\ account \in [Users -> {"none", "PENDING_INVITATION", "ACTIVE"}]
    /\ link \in [Users -> BOOLEAN] /\ clubAdmins \subseteq Users
    /\ grants \subseteq Grants /\ overlapped \subseteq Ids
    /\ \A c \in Clients : calls[c].op \in {None, "accept", "edit"}

Init ==
    /\ invitations = [i \in Ids |-> None] /\ created = 0 /\ lapsed = {}
    /\ workspaces = [u \in Users |-> None]
    /\ account \in [Users -> {"none", "ACTIVE"}]
    /\ link = [u \in Users |-> FALSE] /\ clubAdmins = {}
    /\ calls = [c \in Clients |-> Idle]
    /\ grants = {} /\ overlapped = {}

Rows == {i \in Ids : invitations[i] # None}
With(u, status) == {i \in Rows : invitations[i].email = u /\ invitations[i].status = status}

(* unique_together: club, email, status.                                   *)
Unique(i, row) == With(row.email, row.status) \subseteq {i}

Load == created + Cardinality(lapsed) + Cardinality({c \in Clients : calls[c] # Idle})
NewInvitation(u, role) == [email |-> u, role |-> role, status |-> "PENDING"]

-----------------------------------------------------------------------------
(* POST staff-invitations and StaffService.invite_staff.                   *)
InviteStaff(u, role) ==
    /\ created < MaxInvitations /\ Load < MaxLoad /\ With(u, "PENDING") = {}
    /\ created' = created + 1
    /\ invitations' = [invitations EXCEPT ![created'] = NewInvitation(u, role)]
    /\ UNCHANGED <<lapsed, workspaces, account, link, clubAdmins, calls,
                   grants, overlapped>>

(* ClubAdminInvitationService.invite: a pending invitation of the address, *)
(* of either role and expired or not, is used again; a user without an     *)
(* active account gets a fresh link, the only one that works.              *)
InviteAdmin(u) ==
    /\ IF With(u, "PENDING") # {} THEN UNCHANGED <<invitations, created>>
       ELSE /\ created < MaxInvitations /\ Load < MaxLoad /\ created' = created + 1
            /\ invitations' = [invitations EXCEPT ![created'] = NewInvitation(u, "ADMIN")]
    /\ IF account[u] = "ACTIVE" THEN UNCHANGED <<account, link>>
       ELSE /\ account' = [account EXCEPT ![u] = "PENDING_INVITATION"]
            /\ link' = [link EXCEPT ![u] = TRUE]
    /\ UNCHANGED <<lapsed, workspaces, clubAdmins, calls, grants, overlapped>>

InvitationExpires(i) ==
    /\ Load < MaxLoad /\ i \in Rows \ lapsed /\ invitations[i].status = "PENDING"
    /\ lapsed' = lapsed \cup {i}
    /\ UNCHANGED <<invitations, created, workspaces, account, link,
                   clubAdmins, calls, grants, overlapped>>

LinkExpires(u) ==
    /\ link[u] /\ link' = [link EXCEPT ![u] = FALSE]
    /\ UNCHANGED <<lapsed, invitations, created, workspaces, account,
                   clubAdmins, calls,
                   grants, overlapped>>

(* PATCH and DELETE of an invitation: the role is writable, and the row is *)
(* written back as it was read, status included.                           *)
ReadInvitation(c, i) ==
    /\ calls[c] = Idle /\ Load < MaxLoad /\ i \in Rows
    /\ calls' = [calls EXCEPT ![c] = [op |-> "edit", id |-> i, row |-> invitations[i],
                                       user |-> None]]
    /\ UNCHANGED <<lapsed, invitations, created, workspaces, account, link,
                   clubAdmins,
                   grants, overlapped>>

PatchInvitation(c, role) ==
    LET i == calls[c].id
        row == [calls[c].row EXCEPT !.role = role]
    IN
    /\ calls[c].op = "edit"
    /\ IF Unique(i, row)
       THEN /\ invitations' = [invitations EXCEPT ![i] = row]
            /\ overlapped' = IF i \notin Rows \/ row.status # invitations[i].status
                             THEN overlapped \cup {i} ELSE overlapped
       ELSE UNCHANGED <<invitations, overlapped>>
    /\ calls' = [calls EXCEPT ![c] = Idle]
    /\ UNCHANGED <<lapsed, created, workspaces, account, link, clubAdmins,
                   grants>>

DeleteInvitation(i) ==
    /\ i \in Rows
    /\ invitations' = [invitations EXCEPT ![i] = None]
    /\ UNCHANGED <<lapsed, created, workspaces, account, link, clubAdmins,
                   calls, grants, overlapped>>

-----------------------------------------------------------------------------
PendingUnchecked(i) == invitations[i].status \in InvitationStatuses
Pending(i) == invitations[i].status = "PENDING"

(* accept_invitation up to its transaction. An expired invitation becomes  *)
(* EXPIRED, unless the address has one of that status already.             *)
ExpiredAfter(i) ==
    LET row == [invitations[i] EXCEPT !.status = "EXPIRED"] IN
    IF Unique(i, row) THEN [invitations EXCEPT ![i] = row] ELSE invitations

Begin(c, i, u) ==
    /\ calls[c] = Idle /\ Load < MaxLoad /\ i \in Rows /\ Pending(i)
    /\ IF i \in lapsed
       THEN invitations' = ExpiredAfter(i) /\ UNCHANGED <<calls, overlapped>>
       ELSE /\ calls' = [calls EXCEPT ![c] = [op |-> "accept", id |-> i,
                                               row |-> invitations[i], user |-> u]]
            /\ overlapped' = IF \E d \in Clients : calls[d].id = i
                             THEN overlapped \cup {i} ELSE overlapped
            /\ UNCHANGED invitations

(* StaffInvitationAcceptView: whoever is logged in and has the token.      *)
AcceptRequest(c, i, u) ==
    /\ account[u] = "ACTIVE" /\ Begin(c, i, u)
    /\ UNCHANGED <<lapsed, created, workspaces, account, link, clubAdmins,
                   grants>>

Activated(u, role) ==
    IF workspaces[u] = None THEN [role |-> role, active |-> TRUE]
    ELSE [workspaces[u] EXCEPT !.active = TRUE]

RoleOf(u) == IF workspaces[u] = None THEN None ELSE workspaces[u].role

AdminsUnchanged(u, role) == clubAdmins
AdminsWith(u, role) == IF role = "ADMIN" THEN clubAdmins \cup {u} ELSE clubAdmins

(* The transaction: the workspace, which keeps the role it has if there is *)
(* one, the invitation and the platform role; or nothing, when the row is  *)
(* gone or the address has accepted before.                                *)
Accept(c) ==
    LET i == calls[c].id
        u == calls[c].user
        row == [calls[c].row EXCEPT !.status = "ACCEPTED"]
    IN
    /\ calls[c].op = "accept"
    /\ calls' = [calls EXCEPT ![c] = Idle]
    /\ IF i \in Rows /\ Unique(i, row)
       THEN /\ workspaces' = [workspaces EXCEPT ![u] = Activated(u, row.role)]
            /\ invitations' = [invitations EXCEPT ![i].status = "ACCEPTED"]
            /\ clubAdmins' = AdminsWith(u, row.role)
            /\ grants' = grants \cup {[id |-> i, user |-> u, role |-> row.role,
                                      prior |-> RoleOf(u)]}
       ELSE UNCHANGED <<workspaces, invitations, clubAdmins, grants>>
    /\ UNCHANGED <<lapsed, created, account, link, overlapped>>

(* AccountSetupCompleteView: the account is activated and then the latest  *)
(* pending invitation of the address is accepted.                          *)
CompleteSetup(c, u) ==
    /\ calls[c] = Idle /\ Load < MaxLoad /\ link[u] /\ account[u] = "PENDING_INVITATION"
    /\ account' = [account EXCEPT ![u] = "ACTIVE"]
    /\ link' = [link EXCEPT ![u] = FALSE]
    /\ IF With(u, "PENDING") = {} THEN UNCHANGED <<invitations, calls,
                                                   overlapped>>
                                  ELSE Begin(c, Max(With(u, "PENDING")), u)
    /\ UNCHANGED <<lapsed, created, workspaces, clubAdmins, grants>>

-----------------------------------------------------------------------------
(* ClubWorkspaceViewSet. A change must name a user without a workspace of  *)
(* the club, and so moves the workspace to that user.                      *)
CreateWorkspace(u, row) ==
    /\ account[u] # "none" /\ workspaces[u] = None
    /\ workspaces' = [workspaces EXCEPT ![u] = row]
    /\ UNCHANGED <<lapsed, invitations, created, account, link, clubAdmins,
                   calls, grants, overlapped>>

MoveWorkspace(u, v, row) ==
    /\ workspaces[u] # None /\ account[v] # "none" /\ workspaces[v] = None
    /\ workspaces' = [workspaces EXCEPT ![u] = None, ![v] = row]
    /\ grants' = {g \in grants : g.user # u}
    /\ UNCHANGED <<lapsed, invitations, created, account, link, clubAdmins,
                   calls, overlapped>>

DeleteWorkspace(u) ==
    /\ workspaces[u] # None
    /\ workspaces' = [workspaces EXCEPT ![u] = None]
    /\ grants' = {g \in grants : g.user # u}
    /\ UNCHANGED <<lapsed, invitations, created, account, link, clubAdmins,
                   calls, overlapped>>

Next ==
    \/ \E u \in Invitees, role \in WorkspaceRoles : InviteStaff(u, role)
    \/ \E u \in Invitees : InviteAdmin(u) \/ LinkExpires(u)
    \/ \E u \in Users : DeleteWorkspace(u)
    \/ \E i \in Ids : InvitationExpires(i) \/ DeleteInvitation(i)
    \/ \E c \in Clients :
          \/ Accept(c)
          \/ \E i \in Ids : ReadInvitation(c, i) \/ (\E u \in Users : AcceptRequest(c, i, u))
          \/ \E role \in WorkspaceRoles : PatchInvitation(c, role)
          \/ \E u \in Users : CompleteSetup(c, u)
    \/ \E u, v \in Users, row \in ClubWorkspaces :
          CreateWorkspace(u, row) \/ MoveWorkspace(u, v, row)

Spec == Init /\ [][Next]_vars

-----------------------------------------------------------------------------
(* Until the workspace is moved or deleted, an accepted invitation keeps   *)
(* its user in the club: the workspace is active and has the role that the *)
(* invitation named, or the one its user had before; and the user of an    *)
(* administrator's invitation is a Club Admin, whatever workspace it has.  *)
(* It has one such user, unless two requests had it in hand at a time.     *)
InvitationGivesAccess ==
    /\ \A g \in grants :
          /\ workspaces[g.user] # None /\ workspaces[g.user].active
          /\ workspaces[g.user].role = IF g.prior = None THEN g.role ELSE g.prior
          /\ g.role = "ADMIN" => g.user \in clubAdmins
    /\ \A i \in Ids \ overlapped : Cardinality({g \in grants : g.id = i}) <= 1
    /\ \A u \in clubAdmins : account[u] = "ACTIVE"

(* What ClubAdminInvitationService says of a resent invitation, "a fresh,  *)
(* working link": who completes the set-up lands in the club.              *)
LinkLeadsToClub ==
    [][\A c \in Clients, u \in Users : CompleteSetup(c, u) =>
          workspaces[u] # None \/ With(u, "PENDING") = {} \/ calls'[c].op = "accept"]_vars
=============================================================================
