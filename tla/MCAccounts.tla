----------------------------- MODULE MCAccounts -----------------------------
(***************************************************************************)
(* The account components that share no rows, checked in one run: every    *)
(* behaviour is one of one-time codes, login sessions, invitations,        *)
(* administration, the seeding of roles, onboarding, the picture of a      *)
(* profile, the logo of a club or the notification preferences. Two        *)
(* clients are the fewest requests that race; four users are two Super     *)
(* Admins, a club administrator and one to be created.                     *)
(***************************************************************************)
EXTENDS TLC, Naturals, FiniteSets

CONSTANTS
    Clients,     \* requests, or runs, that race
    Founders, Others,    \* users: Super Admins, and all the others
    Workspaces, Permitted,
    Ips, MaxTries, MaxDaily,     \* of the one-time codes
    MaxFailed,   \* failed logins that lock an account
    Invited,     \* roles an invitation may carry
    Bound,       \* rows, calls, files and changes of a behaviour
    Absent

VARIABLES
    part,      \* the component this behaviour is about
    purpose, rowLocks, user, codes, attempts, calls, resets,
    failed, locked, tokens, sessions, requests, closed,
    account, invitations, links, granted, callsOfInvites, agreed, broken,
    super, clubRole, enabled, statusOfUser, members, creator, requestsOfAdmins,
    overlapped, lapsed, changes,
    permissions, roles, linksOfSeeding, runs, password, edits, complete,
    exact,
    row, favourites, callsOfSetup, made, given, chosen,
    rowOfAvatar, stored, writer, callsOfAvatar, files, failures, pages,
    preference, pending, hours, consent, audit, inbox, archived,
    changesOfChoices

Links == [r \in {"Super Admin", "Club Admin"} |->
             IF r = "Super Admin" THEN Permitted ELSE {CHOOSE p \in Permitted : TRUE}]

Codes == INSTANCE OneTimeCodes WITH
        NoRow <- Absent, MaxCodes <- Bound
Logins == INSTANCE Sessions WITH
        MaxTokens <- Bound, MaxCount <- MaxFailed
Invites == INSTANCE Invitations WITH
        calls <- callsOfInvites, Roles <- Invited,
        MaxInvitations <- Bound - 1, MaxLinks <- Bound
Admins == INSTANCE AdminRoles WITH
        requests <- requestsOfAdmins, status <- statusOfUser,
        Users <- Founders \cup Others, NoUser <- Absent, MaxChanges <- Bound
Seeding == INSTANCE RoleSeeding WITH
        links <- linksOfSeeding, SystemPermissions <- Permitted,
        OtherPermissions <- {"migrated"},
        ClubScope <- Permitted \cup {"migrated"}, OtherRoles <- {},
        RolePermissions <- Links, Runs <- Clients, MaxEdits <- Bound - 1
Setup == INSTANCE Onboarding WITH
        calls <- callsOfSetup, Sports <- {1, 2}, Competitions <- {1},
        Clubs <- {1}, SportOf <- [c \in {1} |-> 1],
        CompetitionOf <- [c \in {1} |-> 1],
        Requests <- Clients, MaxCalls <- Bound, None <- Absent
Avatar == INSTANCE ImageFiles WITH
        row <- rowOfAvatar, calls <- callsOfAvatar, Requests <- Clients,
        Pages <- Clients, MaxFiles <- Bound, MaxFailures <- 1,
        InTransaction <- TRUE, None <- Absent
Logo == INSTANCE ImageFiles WITH
        row <- rowOfAvatar, calls <- callsOfAvatar, Requests <- Clients,
        Pages <- {}, MaxFiles <- Bound, MaxFailures <- 1, InTransaction <- FALSE,
        None <- Absent
Choices == INSTANCE NotificationPreferences WITH
        changes <- changesOfChoices, Mandatory <- {"security"},
        DefaultOn <- {"security", "news"},
        Categories <- {"security", "news"}, Channels <- {"email"},
        Keys <- {1, 2}, MaxChanges <- Bound, None <- Absent

(* Every other component stands still, its variables at Off.               *)
Off == "off"
CodesOff ==
    purpose = Off /\ rowLocks = Off /\ user = Off /\ codes = Off /\
    attempts = Off /\ calls = Off /\ resets = Off
LoginsOff ==
    failed = Off /\ locked = Off /\ tokens = Off /\ sessions = Off /\
    requests = Off /\ closed = Off
InvitesOff ==
    account = Off /\ invitations = Off /\ links = Off /\ granted = Off /\
    callsOfInvites = Off /\ agreed = Off /\ broken = Off
AdminsOff ==
    super = Off /\ clubRole = Off /\ enabled = Off /\ statusOfUser = Off /\
    members = Off /\ creator = Off /\ requestsOfAdmins = Off /\
    overlapped = Off /\ lapsed = Off /\ changes = Off
SeedingOff ==
    permissions = Off /\ roles = Off /\ linksOfSeeding = Off /\
    runs = Off /\ password = Off /\ edits = Off /\ complete = Off /\
    exact = Off
SetupOff ==
    row = Off /\ favourites = Off /\ callsOfSetup = Off /\ made = Off /\
    given = Off /\ chosen = Off
AvatarOff ==
    rowOfAvatar = Off /\ stored = Off /\ writer = Off /\
    callsOfAvatar = Off /\ files = Off /\ failures = Off /\ pages = Off
ChoicesOff ==
    preference = Off /\ pending = Off /\ hours = Off /\ consent = Off /\
    audit = Off /\ inbox = Off /\ archived = Off /\ changesOfChoices = Off

codesVars == <<purpose, rowLocks, user, codes, attempts, calls, resets>>
loginsVars == <<failed, locked, tokens, sessions, requests, closed>>
invitesVars == <<account, invitations, links, granted, callsOfInvites,
                 agreed, broken>>
adminsVars == <<super, clubRole, enabled, statusOfUser, members, creator,
                requestsOfAdmins, overlapped, lapsed, changes>>
seedingVars == <<permissions, roles, linksOfSeeding, runs, password, edits,
                 complete, exact>>
setupVars == <<row, favourites, callsOfSetup, made, given, chosen>>
avatarVars == <<rowOfAvatar, stored, writer, callsOfAvatar, files, failures,
                pages>>
choicesVars == <<preference, pending, hours, consent, audit, inbox,
                 archived, changesOfChoices>>
accountsVars == <<part, codesVars, loginsVars, invitesVars, adminsVars, seedingVars, setupVars, avatarVars, choicesVars>>

AccountsInit ==
    \/ part = "Codes" /\ Codes!Init /\ LoginsOff /\ InvitesOff /\ AdminsOff /\ SeedingOff /\ SetupOff /\ AvatarOff /\ ChoicesOff
    \/ part = "Logins" /\ Logins!Init /\ CodesOff /\ InvitesOff /\ AdminsOff /\ SeedingOff /\ SetupOff /\ AvatarOff /\ ChoicesOff
    \/ part = "Invites" /\ Invites!Init /\ CodesOff /\ LoginsOff /\ AdminsOff /\ SeedingOff /\ SetupOff /\ AvatarOff /\ ChoicesOff
    \/ part = "Admins" /\ Admins!Init /\ CodesOff /\ LoginsOff /\ InvitesOff /\ SeedingOff /\ SetupOff /\ AvatarOff /\ ChoicesOff
    \/ part = "Seeding" /\ Seeding!Init /\ CodesOff /\ LoginsOff /\ InvitesOff /\ AdminsOff /\ SetupOff /\ AvatarOff /\ ChoicesOff
    \/ part = "Setup" /\ Setup!Init /\ CodesOff /\ LoginsOff /\ InvitesOff /\ AdminsOff /\ SeedingOff /\ AvatarOff /\ ChoicesOff
    \/ part = "Avatar" /\ Avatar!Init /\ CodesOff /\ LoginsOff /\ InvitesOff /\ AdminsOff /\ SeedingOff /\ SetupOff /\ ChoicesOff
    \/ part = "Logo" /\ Logo!Init /\ CodesOff /\ LoginsOff /\ InvitesOff /\ AdminsOff /\ SeedingOff /\ SetupOff /\ ChoicesOff
    \/ part = "Choices" /\ Choices!Init /\ CodesOff /\ LoginsOff /\ InvitesOff /\ AdminsOff /\ SeedingOff /\ SetupOff /\ AvatarOff

CodesStep ==
    /\ part = "Codes" /\ Codes!Next
    /\ UNCHANGED <<part, loginsVars, invitesVars, adminsVars, seedingVars, setupVars, avatarVars, choicesVars>>
LoginsStep ==
    /\ part = "Logins" /\ Logins!Next
    /\ UNCHANGED <<part, codesVars, invitesVars, adminsVars, seedingVars, setupVars, avatarVars, choicesVars>>
InvitesStep ==
    /\ part = "Invites" /\ Invites!Next
    /\ UNCHANGED <<part, codesVars, loginsVars, adminsVars, seedingVars, setupVars, avatarVars, choicesVars>>
AdminsStep ==
    /\ part = "Admins" /\ Admins!Next
    /\ UNCHANGED <<part, codesVars, loginsVars, invitesVars, seedingVars, setupVars, avatarVars, choicesVars>>
SeedingStep ==
    /\ part = "Seeding" /\ Seeding!Next
    /\ UNCHANGED <<part, codesVars, loginsVars, invitesVars, adminsVars, setupVars, avatarVars, choicesVars>>
SetupStep ==
    /\ part = "Setup" /\ Setup!Next
    /\ UNCHANGED <<part, codesVars, loginsVars, invitesVars, adminsVars, seedingVars, avatarVars, choicesVars>>
AvatarStep ==
    /\ part = "Avatar" /\ Avatar!Next
    /\ UNCHANGED <<part, codesVars, loginsVars, invitesVars, adminsVars, seedingVars, setupVars, choicesVars>>
LogoStep ==
    /\ part = "Logo" /\ Logo!Next
    /\ UNCHANGED <<part, codesVars, loginsVars, invitesVars, adminsVars, seedingVars, setupVars, choicesVars>>
ChoicesStep ==
    /\ part = "Choices" /\ Choices!Next
    /\ UNCHANGED <<part, codesVars, loginsVars, invitesVars, adminsVars, seedingVars, setupVars, avatarVars>>

AccountsNext == CodesStep \/ LoginsStep \/ InvitesStep \/ AdminsStep \/ SeedingStep \/ SetupStep \/ AvatarStep \/ LogoStep \/ ChoicesStep

AccountsSpec == AccountsInit /\ [][AccountsNext]_accountsVars

Symmetry == Permutations(Clients) \cup Permutations(Workspaces)

(* Absent is no name, number or request; some request runs; the founders   *)
(* are Super Admins from the start; the permissions of the table are there *)
(* and are not the names of its roles.                                     *)
ASSUME AbsentAssumption ==
    /\ Absent \notin {"on", "off", "view", "reset", "delete", "create", "advance", "skip", "save",
                      "complete", "resume", "upload", "remove", "page", "unlink", "store", "commit"}
    /\ Absent \notin 1..Bound /\ Absent \notin 0..MaxTries /\ Absent \notin Clients
ASSUME LimitsAssumption ==
    Bound \in Nat \ {0} /\ MaxFailed \in Nat \ {0} /\ MaxTries \in Nat \ {0} /\ MaxDaily \in Nat \ {0}
ASSUME ClientsAssumption == IsFiniteSet(Clients) /\ Clients # {}
ASSUME AccountsAssumption == IsFiniteSet(Founders \cup Others) /\ Founders # {}
ASSUME PermittedAssumption == Permitted # {} /\ Permitted \cap {"Super Admin", "Club Admin"} = {}

-----------------------------------------------------------------------------
(* The values of each component's variables.                              *)
AccountsTypeOK ==
    /\ part = "Codes" => Codes!TypeOK
    /\ part = "Logins" => Logins!TypeOK
    /\ part = "Invites" => Invites!TypeOK
    /\ part = "Admins" => Admins!TypeOK
    /\ part = "Seeding" => Seeding!TypeOK
    /\ part = "Setup" => Setup!TypeOK
    /\ part = "Avatar" => Avatar!TypeOK
    /\ part = "Logo" => Logo!TypeOK
    /\ part = "Choices" => Choices!TypeOK

(* A registration code is accepted once, no password is reset without an   *)
(* accepted code and the limits hold up to what requests side by side can  *)
(* do; what ended the sessions of a user leaves none of them usable; an    *)
(* account is locked exactly when its counter, which misses concurrent     *)
(* failures, has reached its limit.                                        *)
LoginsAreGuarded == 
    /\ part = "Codes" => Codes!CodesAcceptedOnce
    /\ part = "Codes" => Codes!LimitsHold
    /\ part = "Logins" => Logins!ClosedSessionsStayClosed
    /\ part = "Logins" => Logins!LockMatchesCounter

(* Roles come from accepted invitations, and all of them unless the worker *)
(* stopped; resent links use up the earlier ones; a Super Admin role       *)
(* remains unless two requests tested for the last one together or a role  *)
(* expired; delegation stays within the delegator's workspaces; a run of   *)
(* the seeding that nothing overlapped leaves the roles of the table.      *)
RolesAreGranted == 
    /\ part = "Invites" => Invites!InvitationsGrantRoles
    /\ part = "Invites" => Invites!WorkingLinksBounded
    /\ part = "Admins" => Admins!SuperAdminRoleKept
    /\ part = "Admins" => Admins!DelegationInScope
    /\ part = "Seeding" => Seeding!SeededRolesAgree

(* No step of the onboarding is passed unanswered; a picture or logo that  *)
(* is named is in the storage unless a request failed or the profile page  *)
(* was saved beside it; mandatory notifications are never switched off.    *)
ProfilesHold == 
    /\ part = "Setup" => Setup!PassedStepsWereAnswered
    /\ part = "Avatar" => Avatar!PictureExists
    /\ part = "Logo" => Logo!PictureExists
    /\ part = "Choices" => Choices!MandatoryStaysOn

(* RoleSeeding: no run of the seeding resets the password of an account.   *)
PasswordsAreKept == [][part = "Seeding" => Seeding!KeepsPasswords]_accountsVars
=============================================================================
