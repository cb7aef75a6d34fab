------------------------------ MODULE Activity ------------------------------
(* The activity ledger and the notifications that every service records      *)
(* through ActivityService.record, inside the caller's own transaction        *)
(* (activity_service.py, activity_repository.py, notification_repository.py,  *)
(* notification_service.py), and the preferences that select the channels.    *)
(*                                                                            *)
(* An event is what build_event_key makes of it: the key, which the ledger    *)
(* holds at most once.  Titles, bodies, templates and metadata are left out:  *)
(* their bounds are fixed texts, and no property tells them apart.            *)
EXTENDS Naturals, FiniteSets

CONSTANTS
  User          \* the accounts

VARIABLES
  ledger,       \* audit_events: the keys of the recorded events
  inbox,        \* notifications: [to, kind, key, read]
  outbox,       \* email_outbox: [to, kind, key]
  preference    \* notification_preferences: the enabled <<kind, channel>>

activityVars == <<ledger, inbox, outbox, preference>>

Channel == {"in_app", "email_intent"}

(* The kinds a user can switch off, and the ones that always arrive.  The     *)
(* third that can be switched off, of a complete analysis, is sent by the     *)
(* generation lanes (GenerationSession).                                      *)
SelectableKind == {"mention", "comment"}

AlwaysInApp == {"friend_request", "room_member_added"}

Kind == SelectableKind \cup AlwaysInApp

DefaultPreferences == SelectableKind \X {"in_app"}

ActivityInit ==
  /\ ledger = {}
  /\ inbox = {}
  /\ outbox = {}
  /\ preference = [u \in User |-> DefaultPreferences]

snapshot_preferences(u, kind) ==
  IF kind \in AlwaysInApp
    THEN {"in_app"}
    ELSE {ch \in Channel : <<kind, ch>> \in preference[u]}

(* The rows of one effect, at most one for a recipient and a dedupe key       *)
(* (which is the event's key).                                                *)
Materialized(key, effects, channel) ==
  {[to |-> e.to, kind |-> e.kind, key |-> key] :
     e \in {e \in effects : channel \in snapshot_preferences(e.to, e.kind)}}

AlreadyThere(rows, row) ==
  \E r \in rows : r.to = row.to /\ r.key = row.key

Unread(row) == [to |-> row.to, kind |-> row.kind, key |-> row.key, read |-> FALSE]

(* record: a key that is there already is not recorded again and sends        *)
(* nothing.  entries is a set of [key, effects], effects a set of [to, kind]. *)
Record(entries) ==
  LET new == {e \in entries : e.key \notin ledger}
      rows(channel) == UNION {Materialized(e.key, e.effects, channel) : e \in new}
  IN  /\ ledger' = ledger \cup {e.key : e \in new}
      /\ inbox' = inbox \cup {Unread(r) : r \in {r \in rows("in_app") : ~AlreadyThere(inbox, r)}}
      /\ outbox' = outbox \cup {r \in rows("email_intent") : ~AlreadyThere(outbox, r)}

Entry(key, effects) == [key |-> key, effects |-> effects]

(* NotificationService.mark_read and mark_all_read: only the recipient's.     *)
MarkRead(u) ==
  /\ \E n \in inbox :
       /\ n.to = u /\ ~n.read
       /\ inbox' = (inbox \ {n}) \cup {[n EXCEPT !.read = TRUE]}
  /\ UNCHANGED <<ledger, outbox, preference>>

MarkAllRead(u) ==
  /\ inbox' = {IF n.to = u THEN [n EXCEPT !.read = TRUE] ELSE n : n \in inbox}
  /\ UNCHANGED <<ledger, outbox, preference>>

(* ProfileService.update_preferences with the expected version that the       *)
(* account has; anything else is refused.  The version is the number of       *)
(* recorded changes.                                                          *)
PreferencesVersion(u) ==
  Cardinality({k \in ledger : k[1] = "preferences" /\ k[2] = u}) + 1

UpdatePreferences(u, values) ==
  /\ values # preference[u]
  /\ preference' = [preference EXCEPT ![u] = values]
  /\ Record({Entry(<<"preferences", u, PreferencesVersion(u) + 1>>, {})})
==============================================================================
