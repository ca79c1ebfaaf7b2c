----------------------------- MODULE AdminRoles -----------------------------
(***************************************************************************)
(* Platform administrators and the users they make: the user and role      *)
(* endpoints of platform_admin/views.py, RoleService, UserAdminService and *)
(* DelegationService.                                                      *)
(*                                                                         *)
(* The last-super-admin test counts roles in one statement and the removal *)
(* or the disabling is a later one, without a lock. PATCH on a user is a   *)
(* series of the requests below, each a request of its own here.           *)
(***************************************************************************)
EXTENDS Naturals, FiniteSets

CONSTANTS
    Users,        \* accounts
    Founders,     \* those that hold the Super Admin role at the beginning
    Workspaces,   \* club workspaces
    Clients,      \* concurrent requests
    NoUser,
    MaxChanges    \* bound on the requests

RoleStates == {"none", "active", "expired"}   \* no active row, in effect, lapsed
ClubRoles == {"none", "Club Admin", "Club Specialist Staff"}
AccountStatuses == {"absent", "PENDING_INVITATION", "ACTIVE", "SUSPENDED", "DEACTIVATED"}
Steps == {"idle", "remove", "disable"}

VARIABLES
    super,        \* the Super Admin UserRole of each user
    clubRole,     \* the club-scoped role of each user
    enabled,      \* is_active
    status,       \* account_status ("absent": no such user yet)
    members,      \* workspaces of each user's WorkspaceMemberships
    creator,      \* the club administrator that created the user, if one did
    requests,     \* what each request has tested, and for whom
    overlapped,   \* have two requests passed the last-super-admin test together?
    lapsed,       \* has a Super Admin role expired?
    changes       \* requests so far

vars == <<super, clubRole, enabled, status, members, creator, requests,
          overlapped, lapsed, changes>>

TypeOK ==
    /\ super \in [Users -> RoleStates] /\ clubRole \in [Users -> ClubRoles]
    /\ enabled \in [Users -> BOOLEAN] /\ status \in [Users -> AccountStatuses]
    /\ members \in [Users -> SUBSET Workspaces]
    /\ creator \in [Users -> Users \cup {NoUser}]
    /\ requests \in [Clients -> [step : Steps, user : Users \cup {NoUser}]]
    /\ overlapped \in BOOLEAN /\ lapsed \in BOOLEAN
    /\ changes \in 0..MaxChanges

Idle == [step |-> "idle", user |-> NoUser]

Init ==
    /\ super = [u \in Users |-> IF u \in Founders THEN "active" ELSE "none"]
    /\ enabled = [u \in Users |-> TRUE]
    /\ \E club \in SUBSET (Users \ Founders) :
          /\ clubRole = [u \in Users |-> IF u \in club THEN "Club Admin" ELSE "none"]
          /\ status = [u \in Users |-> IF u \in Founders \cup club THEN "ACTIVE" ELSE "absent"]
          /\ members \in {m \in [Users -> SUBSET Workspaces] :
                             \A u \in Users : u \notin club => m[u] = {}}
    /\ creator = [u \in Users |-> NoUser]
    /\ requests = [c \in Clients |-> Idle]
    /\ overlapped = FALSE /\ lapsed = FALSE /\ changes = 0

-----------------------------------------------------------------------------
(* count_active_super_admins: roles in effect, of disabled users too.      *)
SuperAdmins == {u \in Users : super[u] = "active"}
IsSuperAdmin(u) == super[u] = "active"

(* A request is served while its user is enabled and holds the permission. *)
Serves(u) == enabled[u] /\ IsSuperAdmin(u) /\ changes < MaxChanges

(* _validate_not_last_super_admin: what is removed is the last role only   *)
(* when it is in effect.                                                   *)
NotLastUnchecked(u) == TRUE
NotLast(u) == IsSuperAdmin(u) => Cardinality(SuperAdmins) > 1

Begin(c, step, u) ==
    /\ requests[c] = Idle
    /\ requests' = [requests EXCEPT ![c] = [step |-> step, user |-> u]]
    /\ overlapped' = (overlapped \/ \E d \in Clients : requests[d] # Idle)
    /\ changes' = changes + 1
    /\ UNCHANGED <<super, clubRole, enabled, status, members, creator, lapsed>>

ReadForRemove(c, u) ==
    /\ \E actor \in Users : Serves(actor)
    /\ super[u] # "none" /\ NotLast(u)
    /\ Begin(c, "remove", u)

(* remove_role.                                                            *)
RemoveRole(c) ==
    /\ requests[c].step = "remove"
    /\ super' = [super EXCEPT ![requests[c].user] = "none"]
    /\ requests' = [requests EXCEPT ![c] = Idle]
    /\ UNCHANGED <<clubRole, enabled, status, members, creator, overlapped, lapsed, changes>>

(* PATCH is_active: the same test before a user is disabled.               *)
ReadForDisable(c, u) ==
    /\ \E actor \in Users : Serves(actor)
    /\ enabled[u]
    /\ super[u] # "none" => Cardinality(SuperAdmins) > 1
    /\ Begin(c, "disable", u)

Disable(c) ==
    /\ requests[c].step = "disable"
    /\ enabled' = [enabled EXCEPT ![requests[c].user] = FALSE]
    /\ requests' = [requests EXCEPT ![c] = Idle]
    /\ UNCHANGED <<super, clubRole, status, members, creator, overlapped, lapsed, changes>>

Enable(u) ==
    /\ \E actor \in Users : Serves(actor)
    /\ ~enabled[u] /\ enabled' = [enabled EXCEPT ![u] = TRUE]
    /\ changes' = changes + 1
    /\ UNCHANGED <<super, clubRole, status, members, creator, requests, overlapped, lapsed>>

(* assign_role: an active row is left as it is, even when it has expired.  *)
Assigned(role) == IF role = "none" THEN "active" ELSE role
AssignRole(u) ==
    /\ \E actor \in Users : Serves(actor)
    /\ status[u] # "absent"
    /\ super' = [super EXCEPT ![u] = Assigned(@)]
    /\ changes' = changes + 1
    /\ UNCHANGED <<clubRole, enabled, status, members, creator, requests, overlapped, lapsed>>

RoleExpires(u) ==
    /\ IsSuperAdmin(u) /\ super' = [super EXCEPT ![u] = "expired"]
    /\ lapsed' = TRUE
    /\ changes < MaxChanges /\ changes' = changes + 1
    /\ UNCHANGED <<clubRole, enabled, status, members, creator, requests, overlapped>>

-----------------------------------------------------------------------------
(* DelegationService.                                                      *)
CanDelegateRole(actor, role) ==
    IsSuperAdmin(actor) \/ (clubRole[actor] = "Club Admin" /\ role # "none")

AnyWorkspace(actor) == Workspaces
Manageable(actor) == IF IsSuperAdmin(actor) THEN Workspaces ELSE members[actor]

CanAssignTo(actor, w) == w \in Manageable(actor)

(* SubordinateUserViewSet serves an enabled user with the permission.      *)
Admits(actor) ==
    /\ enabled[actor] /\ changes < MaxChanges
    /\ IsSuperAdmin(actor) \/ clubRole[actor] # "none"

CanManageUser(actor, u) ==
    /\ actor # u
    /\ IsSuperAdmin(actor) \/ members[u] \cap Manageable(actor) # {}

(* UserAdminService.create_user.                                           *)
CreateUser(actor, u, role, workspaces) ==
    /\ Admits(actor)
    /\ status[u] = "absent"
    /\ CanDelegateRole(actor, role)
    /\ \A w \in workspaces : CanAssignTo(actor, w)
    /\ status' = [status EXCEPT ![u] = "PENDING_INVITATION"]
    /\ clubRole' = [clubRole EXCEPT ![u] = role]
    /\ members' = [members EXCEPT ![u] = workspaces]
    /\ creator' = [creator EXCEPT ![u] = IF IsSuperAdmin(actor) THEN NoUser ELSE actor]
    /\ changes' = changes + 1
    /\ UNCHANGED <<super, enabled, requests, overlapped, lapsed>>

(* suspend_user, deactivate_user and activate_user.                        *)
ChangeAccountStatus(actor, u, new) ==
    /\ Admits(actor)
    /\ status[u] \notin {"absent", new}
    /\ CanManageUser(actor, u)
    /\ status' = [status EXCEPT ![u] = new]
    /\ changes' = changes + 1
    /\ UNCHANGED <<super, clubRole, enabled, members, creator, requests, overlapped, lapsed>>

Next ==
    \/ \E c \in Clients :
          \/ RemoveRole(c) \/ Disable(c)
          \/ \E u \in Users : ReadForRemove(c, u) \/ ReadForDisable(c, u)
    \/ \E u \in Users : Enable(u) \/ AssignRole(u) \/ RoleExpires(u)
    \/ \E actor, u \in Users :
          \/ \E role \in ClubRoles \ {"none"}, workspaces \in SUBSET Workspaces :
                CreateUser(actor, u, role, workspaces)
          \/ \E new \in {"ACTIVE", "SUSPENDED", "DEACTIVATED"} : ChangeAccountStatus(actor, u, new)

Spec == Init /\ [][Next]_vars

-----------------------------------------------------------------------------
(* The platform keeps a Super Admin role in effect, whatever administrators*)
(* do to each other, unless two of them passed the last-super-admin test   *)
(* together or a role expired.                                             *)
SuperAdminRoleKept == overlapped \/ lapsed \/ SuperAdmins # {}

(* Delegation never widens: whom a club's administrator makes, and whom    *)
(* they make in turn, belong to that administrator's workspaces only.      *)
DelegationInScope ==
    \A u \in Users : creator[u] # NoUser => members[u] \subseteq members[creator[u]]

(* What the messages of the role service and of the PATCH view promise:    *)
(* the final active Super Admin can be neither removed nor disabled.       *)
SuperAdminRemains ==
    overlapped \/ lapsed \/ \E u \in Users : IsSuperAdmin(u) /\ enabled[u]
=============================================================================
