---------------------------- MODULE RoleSeeding ----------------------------
(***************************************************************************)
(* The two deployment commands that write roles and permissions.           *)
(* seed_roles has no transaction: it creates the permissions and the roles *)
(* of its tables, makes the links of each role the ones of the table, and  *)
(* gives Super Admin whatever permission there is. bootstrap_admins is one *)
(* transaction: it only adds, to Super Admin and Club Admin, and provides  *)
(* an account for each of them. Links may be edited by hand meanwhile.     *)
(***************************************************************************)
EXTENDS Integers, FiniteSets

CONSTANTS
    SystemPermissions,  \* names in the table of the command
    OtherPermissions,   \* permissions other apps bring with migrations
    ClubScope,          \* permissions of scope CLUB
    OtherRoles,         \* roles of the table besides the two with accounts
    RolePermissions,    \* the table of links: [Roles -> SUBSET SystemPermissions]
    Runs,               \* runs of seed_roles that overlap
    MaxEdits            \* bound on edits, migrations and lost runs together

SuperAdmin == "Super Admin"
ClubAdmin == "Club Admin"
Accounts == {SuperAdmin, ClubAdmin}
Roles == Accounts \cup OtherRoles
Permissions == SystemPermissions \cup OtherPermissions
Run == [pc : {"idle", "permissions", "roles", "prune", "link", "super", "done"},
        todo : SUBSET (Roles \cup Permissions), role : Roles]

VARIABLES
    permissions,  \* rows of Permission
    roles,        \* rows of Role
    links,        \* rows of RolePermission
    runs,         \* where each run of seed_roles is
    password,     \* of the account of a role: "none", "initial" or "own"
    edits,
    complete,     \* no permission was added since Super Admin was completed
    exact         \* nothing but one run wrote since that run began

vars == <<permissions, roles, links, runs, password, edits, complete, exact>>

(* The role the run is at is kept from step to step.                       *)
Idle == [pc |-> "idle", todo |-> {}, role |-> SuperAdmin]

Init ==
    /\ permissions = {}
    /\ roles = {}
    /\ links = {}
    /\ runs = [c \in Runs |-> Idle]
    /\ password = [a \in Accounts |-> "none"]
    /\ edits = 0
    /\ complete = FALSE
    /\ exact = FALSE

Active(c) == runs[c].pc \notin {"idle", "done"}
Alone(c) == \A d \in Runs \ {c} : ~ Active(d)
Goto(c, pc, todo) == [runs EXCEPT ![c].pc = pc, ![c].todo = todo]
Took(c, x) == [runs EXCEPT ![c].todo = @ \ {x}]
-----------------------------------------------------------------------------
Begin(c) ==
    /\ runs[c].pc \in {"idle", "done"}
    /\ runs' = Goto(c, "permissions", SystemPermissions)
    /\ exact' = Alone(c)
    /\ UNCHANGED <<permissions, roles, links, password, edits, complete>>

SeedPermission(c, p) ==
    /\ runs[c].pc = "permissions"
    /\ p \in runs[c].todo
    /\ permissions' = permissions \cup {p}
    /\ complete' = (complete /\ p \in permissions)
    /\ runs' = Took(c, p)
    /\ UNCHANGED <<roles, links, password, edits, exact>>

SeedRole(c, r) ==
    /\ runs[c].pc = "roles"
    /\ r \in runs[c].todo
    /\ roles' = roles \cup {r}
    /\ runs' = Took(c, r)
    /\ UNCHANGED <<permissions, links, password, edits, complete, exact>>

(* The links of a role to permissions of the table that the role should not*)
(* have are deleted; links to other permissions are left alone.            *)
Surplus(r) == {l \in links : l[1] = r /\
                   l[2] \in SystemPermissions \ RolePermissions[r]}
NoSurplus(r) == {}
Prune(c, r) ==
    /\ runs[c].pc = "prune"
    /\ r \in runs[c].todo
    /\ links' = links \ Surplus(r)
    /\ runs' = [runs EXCEPT ![c] = [pc |-> "link", role |-> r,
                    todo |-> RolePermissions[r] \cup (runs[c].todo \ {r})]]
    /\ UNCHANGED <<permissions, roles, password, edits, complete, exact>>

Link(c, p) ==
    /\ runs[c].pc = "link"
    /\ p \in runs[c].todo \cap Permissions
    /\ links' = links \cup {<<runs[c].role, p>>}
    /\ runs' = Took(c, p)
    /\ UNCHANGED <<permissions, roles, password, edits, complete, exact>>

(* The permissions are read once; a migration that adds one meanwhile is   *)
(* not seen.                                                               *)
SystemOnly(existing) == existing \cap SystemPermissions
ForSuperAdmin(existing) == existing
ReadPermissions(c) ==
    /\ runs[c].pc = "prune"
    /\ runs[c].todo = {}
    /\ runs' = Goto(c, "super", ForSuperAdmin(permissions))
    /\ complete' = TRUE
    /\ UNCHANGED <<permissions, roles, links, password, edits, exact>>

LinkSuperAdmin(c, p) ==
    /\ runs[c].pc = "super"
    /\ p \in runs[c].todo
    /\ links' = links \cup {<<SuperAdmin, p>>}
    /\ runs' = Took(c, p)
    /\ UNCHANGED <<permissions, roles, password, edits, complete, exact>>

(* One loop of the command is over.                                        *)
NextLoop(c) ==
    /\ \/ /\ runs[c].pc = "permissions" /\ runs[c].todo = {}
          /\ runs' = Goto(c, "roles", Roles)
       \/ /\ runs[c].pc = "roles" /\ runs[c].todo = {}
          /\ runs' = Goto(c, "prune", Roles)
       \/ /\ runs[c].pc = "link" /\ runs[c].todo \cap Permissions = {}
          /\ runs' = Goto(c, "prune", runs[c].todo)
       \/ /\ runs[c].pc = "super" /\ runs[c].todo = {}
          /\ runs' = Goto(c, "done", {})
    /\ UNCHANGED <<permissions, roles, links, password, edits, complete, exact>>

Seed(c) ==
    \/ NextLoop(c) \/ ReadPermissions(c)
    \/ \E p \in Permissions :
           SeedPermission(c, p) \/ Link(c, p) \/ LinkSuperAdmin(c, p)
    \/ \E r \in Roles : SeedRole(c, r) \/ Prune(c, r)
-----------------------------------------------------------------------------
(* get_or_create, and a password only for an account that is created.      *)
AlwaysInitial(a) == "initial"
PasswordFor(a) == IF password[a] = "none" THEN "initial" ELSE password[a]

SyncRolePermissions(r, wanted) == links \cup ({r} \X wanted)
Bootstrap ==
    /\ edits < MaxEdits
    /\ edits' = edits + 1
    /\ roles' = roles \cup Accounts
    /\ links' = SyncRolePermissions(SuperAdmin, permissions) \cup
                SyncRolePermissions(ClubAdmin, permissions \cap ClubScope)
    /\ password' = [a \in Accounts |-> PasswordFor(a)]
    /\ complete' = TRUE
    /\ exact' = FALSE
    /\ UNCHANGED <<permissions, runs>>

ChangePassword(a) ==
    /\ password[a] = "initial"
    /\ password' = [password EXCEPT ![a] = "own"]
    /\ UNCHANGED <<permissions, roles, links, runs, edits, complete, exact>>

(* A link is added or deleted by hand.                                     *)
Edit(r, p) ==
    /\ edits < MaxEdits
    /\ r \in roles /\ p \in permissions
    /\ links' = IF <<r, p>> \in links THEN links \ {<<r, p>>}
                ELSE links \cup {<<r, p>>}
    /\ edits' = edits + 1
    /\ exact' = FALSE
    /\ complete' = (complete /\ r # SuperAdmin)
    /\ UNCHANGED <<permissions, roles, runs, password>>

Migrate(p) ==
    /\ edits < MaxEdits
    /\ p \in OtherPermissions \ permissions
    /\ permissions' = permissions \cup {p}
    /\ edits' = edits + 1
    /\ complete' = FALSE
    /\ UNCHANGED <<roles, links, runs, password, exact>>

(* A run that is lost leaves what it has written.                          *)
Crash(c) ==
    /\ edits < MaxEdits
    /\ Active(c)
    /\ runs' = [runs EXCEPT ![c] = Idle]
    /\ edits' = edits + 1
    /\ exact' = FALSE
    /\ complete' = FALSE
    /\ UNCHANGED <<permissions, roles, links, password>>

Next ==
    \/ \E c \in Runs : Begin(c) \/ Seed(c) \/ Crash(c)
    \/ \E a \in Accounts : ChangePassword(a)
    \/ \E r \in Roles, p \in Permissions : Edit(r, p)
    \/ \E p \in OtherPermissions : Migrate(p)
    \/ Bootstrap

Spec == Init /\ [][Next]_vars
-----------------------------------------------------------------------------
(* Variables hold values of their types.                                   *)
TypeOK ==
    /\ permissions \subseteq Permissions
    /\ roles \subseteq Roles
    /\ links \subseteq Roles \X Permissions
    /\ runs \in [Runs -> Run]
    /\ password \in [Accounts -> {"none", "initial", "own"}]
    /\ edits \in 0..MaxEdits
    /\ complete \in BOOLEAN /\ exact \in BOOLEAN

(* Super Admin "is intentionally permission-complete" (seed_roles.py:640)  *)
(* when no run is active and no permission has come since the last one     *)
(* read them; and then a run that nothing else overlapped has left every   *)
(* role with the links of the table, whatever a lost run left before.      *)
SeededRolesAgree ==
    (\A c \in Runs : ~ Active(c)) =>
        /\ complete => \A p \in permissions : <<SuperAdmin, p>> \in links
        /\ exact => \A r \in Roles :
               {p \in SystemPermissions : <<r, p>> \in links}
                   = RolePermissions[r]

(* "Idempotent": a command never puts a password back that its owner has   *)
(* changed.                                                                *)
KeepsPasswords ==
    \A a \in Accounts : password[a] = "own" => password'[a] = "own"
PasswordsAreKept == [][KeepsPasswords]_vars
=============================================================================
