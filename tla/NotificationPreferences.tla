------------------------ MODULE NotificationPreferences ------------------------
(***************************************************************************)
(* What a user has said about notifications, and the user's inbox:         *)
(* preferences by category and channel, quiet hours, the consent history   *)
(* and the notifications that were read or archived.                       *)
(*                                                                         *)
(* The reset of the preferences deletes them and creates them anew in no   *)
(* transaction; the first view of the page creates what is missing after   *)
(* it has found nothing.                                                   *)
(***************************************************************************)
EXTENDS Integers, Sequences, FiniteSetsExt

CONSTANTS
    Mandatory, DefaultOn,   \* categories that are mandatory, and on by default
    Categories, Channels,
    Keys,                   \* deduplication keys of notifications
    MaxChanges,             \* bound on the changes of a user
    None

Preferences == Categories \X Channels
Defaults == [p \in Preferences |-> IF p[1] \in DefaultOn THEN "on" ELSE None]
NoPreferences == [p \in Preferences |-> None]
Hours == {"none", "disabled", "enabled"}
Sources == {"WEB", "MOBILE", "API"}

VARIABLES
    preference, \* UserNotificationPreference: "on", "off" or None
    pending,    \* a view or a reset between its two statements
    hours,      \* QuietHours
    consent,    \* CommunicationConsent of one type, oldest first
    audit,      \* how many of the changes the audit log shows
    inbox,      \* Notification by deduplication key: "unread", "read" or None
    archived,
    changes

vars == <<preference, pending, hours, consent, audit, inbox, archived, changes>>
settings == <<preference, pending, hours, consent, audit, changes>>

TypeOK ==
    /\ preference \in [Preferences -> {"on", "off", None}]
    /\ pending \in {None, "view", "reset"} /\ hours \in Hours
    /\ consent \in Seq(BOOLEAN) /\ Len(consent) <= MaxChanges
    /\ audit \in 0..MaxChanges /\ changes \in 0..MaxChanges
    /\ inbox \in [Keys -> {"unread", "read", None}] /\ archived \subseteq Keys

Init ==
    /\ preference = NoPreferences /\ pending = None /\ hours = "none"
    /\ consent = <<>> /\ audit = 0 /\ changes = 0
    /\ inbox = [k \in Keys |-> None] /\ archived = {}

-----------------------------------------------------------------------------
Change == changes < MaxChanges /\ changes' = changes + 1
Audited == audit' = audit + 1

(* bulk_update_preferences of one row: a mandatory category stays on.      *)
AsAsked(p, value) == value
Kept(p, value) == IF p[1] \in Mandatory THEN "on" ELSE value

UpdatePreference(p, value) ==
    /\ Change /\ Audited
    /\ preference' = [preference EXCEPT ![p] = Kept(p, value)]
    /\ UNCHANGED <<pending, hours, consent, inbox, archived>>

(* get_or_create_default_preferences, until it has found no row.           *)
View ==
    /\ pending = None /\ preference = NoPreferences
    /\ pending' = "view"
    /\ UNCHANGED <<preference, hours, consent, audit, changes, inbox, archived>>

(* reset_to_defaults, until it has deleted the rows.                       *)
Reset ==
    /\ pending = None /\ Change /\ Audited
    /\ preference' = NoPreferences /\ pending' = "reset"
    /\ UNCHANGED <<hours, consent, inbox, archived>>

(* bulk_create: all rows, or none where one of them exists by now.         *)
Conflict == \E p \in Preferences : Defaults[p] # None /\ preference[p] # None
CreateDefaults ==
    /\ pending # None /\ pending' = None
    /\ preference' = IF Conflict THEN preference
                     ELSE [p \in Preferences |->
                             IF Defaults[p] # None THEN Defaults[p] ELSE preference[p]]
    /\ UNCHANGED <<hours, consent, audit, changes, inbox, archived>>

(* set_quiet_hours, disable_quiet_hours and delete_quiet_hours.            *)
SetQuietHours(value) ==
    /\ Change /\ Audited
    /\ hours' = value /\ (value = "none" => hours # "none")
    /\ UNCHANGED <<preference, pending, consent, inbox, archived>>

(* is_in_quiet_hours: hours over midnight wrap; the end is outside.        *)
InQuietHours(start, end, now) ==
    IF start <= end THEN start <= now /\ now < end ELSE start <= now \/ now < end

RecordConsent(granted) ==
    /\ Change /\ Audited
    /\ consent' = Append(consent, granted)
    /\ UNCHANGED <<preference, pending, hours, inbox, archived>>

CurrentConsent == consent # <<>> /\ consent[Len(consent)]

-----------------------------------------------------------------------------
(* NotificationService.create keeps the notification of a repeated key.    *)
Notify(k) ==
    /\ inbox' = [inbox EXCEPT ![k] = IF @ = None THEN "unread" ELSE @]
    /\ UNCHANGED <<settings, archived>>

MarkRead(k) ==
    /\ inbox[k] = "unread" /\ inbox' = [inbox EXCEPT ![k] = "read"]
    /\ UNCHANGED <<settings, archived>>

MarkMultipleRead(ks) ==
    /\ ks # {} /\ inbox' = [k \in Keys |->
          IF k \in ks /\ inbox[k] = "unread" THEN "read" ELSE inbox[k]]
    /\ UNCHANGED <<settings, archived>>

(* The notifications of the unread count are those mark-all-read reads.    *)
Unread == {k \in Keys \ archived : inbox[k] = "unread"}
MarkAllRead ==
    /\ inbox' = [k \in Keys |-> IF k \in Unread THEN "read" ELSE inbox[k]]
    /\ UNCHANGED <<settings, archived>>

Archive(k) ==
    /\ inbox[k] # None /\ archived' = archived \cup {k}
    /\ UNCHANGED <<settings, inbox>>

Next ==
    \/ View \/ Reset \/ CreateDefaults \/ MarkAllRead
    \/ \E p \in Preferences, v \in {"on", "off"} : UpdatePreference(p, v)
    \/ \E h \in Hours : SetQuietHours(h)
    \/ \E g \in BOOLEAN : RecordConsent(g)
    \/ \E k \in Keys : Notify(k) \/ MarkRead(k) \/ Archive(k)
    \/ \E ks \in SUBSET Keys : MarkMultipleRead(ks)

Spec == Init /\ [][Next]_vars

-----------------------------------------------------------------------------
(* No order of updates, views and resets turns a mandatory category off.   *)
MandatoryStaysOn == \A p \in Preferences : p[1] \in Mandatory => preference[p] # "off"
=============================================================================
