---------------------------- MODULE Collaboration ----------------------------
(* Friendships, rooms, invitations and memberships (collaboration_service.py). *)
(* Every operation is one transaction that locks the rows it reads             *)
(* (_friendship_pair_for_update, _locked_room_membership), so each is one step. *)
(* A repeated call, as after a lost answer, is the same action taken again;    *)
(* a refused call changes nothing and is not a step.                           *)
EXTENDS Activity

CONSTANTS
  Room,         \* rooms that can be created
  None          \* no user, no status

VARIABLES
  friendship,   \* friendships: for a pair of users its row, or None
  owner,        \* rooms: the host, or None before the room exists
  membership,   \* room_memberships: for a room and a user its role and whether it ended
  invitation,   \* room_invitations with status accepted
  session       \* talk_sessions: the room's session, if any, and whether it is hidden

collaborationVars == <<friendship, owner, membership, invitation, session>>
vars == <<activityVars, collaborationVars>>

Pair == {p \in SUBSET User : Cardinality(p) = 2}
Status == {"pending", "accepted", "rejected"}
Friendship == [requester : User, status : Status]
Membership == {None, "host", "member", "left"}

(* None is the absence of a row, and no row's value.                           *)
ASSUME NoneAssumption ==
  None \notin User \cup Friendship \cup {"host", "member", "left", "shown", "archived"}

TypeOK ==
  /\ friendship \in [Pair -> Friendship \cup {None}]
  /\ \A p \in Pair : friendship[p] # None => friendship[p].requester \in p
  /\ owner \in [Room -> User \cup {None}]
  /\ membership \in [Room -> [User -> Membership]]
  /\ invitation \subseteq Room \X User
  /\ session \in [Room -> {None, "shown", "archived"}]

Init ==
  /\ ActivityInit
  /\ friendship = [p \in Pair |-> None]
  /\ owner = [r \in Room |-> None]
  /\ membership = [r \in Room |-> [u \in User |-> None]]
  /\ invitation = {}
  /\ session = [r \in Room |-> None]

Members(r) == {u \in User : membership[r][u] \in {"host", "member"}}
IsHost(r, u) == u \in Members(r) /\ membership[r][u] = "host"

(* The unique index on the unordered pair keeps one row; a repeated request    *)
(* of the same direction returns it, one of the other direction is refused.    *)
create_friend_request(actor, addressee) ==
  /\ actor # addressee
  /\ friendship[{actor, addressee}] = None
  /\ friendship' = [friendship EXCEPT ![{actor, addressee}] =
                      [requester |-> actor, status |-> "pending"]]
  /\ Record({Entry(<<"friendship", {actor, addressee}, "requested", actor>>, {}),
             Entry(<<"friendship", {actor, addressee}, "requested", addressee>>,
                   {[to |-> addressee, kind |-> "friend_request"]})})
  /\ UNCHANGED <<preference, owner, membership, invitation, session>>

(* Fault: an answer can be changed.                                            *)
AnswerableAgain(p) == friendship[p] # None

(* Only a pending request can be answered; the same answer again is accepted   *)
(* without a change, the other one refused.                                    *)
Answerable(p) == friendship[p] # None /\ friendship[p].status = "pending"

respond_to_friend_request(actor, p, status) ==
  /\ actor \in p
  /\ Answerable(p)
  /\ friendship[p].requester # actor
  /\ friendship' = [friendship EXCEPT ![p].status = status]
  /\ Record({Entry(<<"friendship", p, status, u>>, {}) : u \in p})
  /\ UNCHANGED <<preference, owner, membership, invitation, session>>

create_room(actor, r) ==
  /\ owner[r] = None
  /\ owner' = [owner EXCEPT ![r] = actor]
  /\ membership' = [membership EXCEPT ![r][actor] = "host"]
  /\ Record({Entry(<<"room", r, "created">>, {})})
  /\ UNCHANGED <<preference, friendship, invitation, session>>

Friends(u, v) ==
  /\ u # v
  /\ friendship[{u, v}] # None
  /\ friendship[{u, v}].status = "accepted"

(* Fault: an accepted invitation is replayed.                                  *)
DepartedIgnored(r, u) == FALSE

(* An accepted invitation whose membership ended is never replayed.            *)
Departed(r, u) == <<r, u>> \in invitation /\ u \notin Members(r)

create_room_invitation(actor, r, invitee) ==
  /\ actor # invitee
  /\ IsHost(r, actor)
  /\ Friends(actor, invitee)
  /\ ~Departed(r, invitee)
  /\ invitation' = invitation \cup {<<r, invitee>>}
  /\ membership' = [membership EXCEPT ![r][invitee] = "member"]
  /\ IF <<r, invitee>> \in invitation /\ invitee \in Members(r)
       THEN UNCHANGED <<ledger, inbox, outbox>>
       ELSE Record({Entry(<<"room", r, "added", invitee>>,
                          {[to |-> invitee, kind |-> "room_member_added"]})})
  /\ UNCHANGED <<preference, friendship, owner, session>>

(* The host opens the room's session, and may hide it; again is no change.     *)
create_talk_session(actor, r) ==
  /\ IsHost(r, actor)
  /\ session[r] = None
  /\ session' = [session EXCEPT ![r] = "shown"]
  /\ Record({Entry(<<"session", r, "created">>, {})})
  /\ UNCHANGED <<preference, friendship, owner, membership, invitation>>

archive_talk_session(actor, r) ==
  /\ IsHost(r, actor)
  /\ session[r] = "shown"
  /\ session' = [session EXCEPT ![r] = "archived"]
  /\ Record({Entry(<<"session", r, "archived">>, {})})
  /\ UNCHANGED <<preference, friendship, owner, membership, invitation>>

(* A host cannot leave, so no room is ever without one.                        *)
leave_room(actor, r) ==
  /\ membership[r][actor] = "member"
  /\ membership' = [membership EXCEPT ![r][actor] = "left"]
  /\ Record({Entry(<<"room", r, "left", actor>>, {})})
  /\ UNCHANGED <<preference, friendship, owner, invitation, session>>

(* Friendships and read marks, and what locks a room.                          *)
PeopleNext ==
  \/ \E u, v \in User : create_friend_request(u, v)
  \/ \E u \in User, p \in Pair, s \in {"accepted", "rejected"} :
       respond_to_friend_request(u, p, s)
  \/ \E u \in User : (MarkRead(u) \/ MarkAllRead(u)) /\ UNCHANGED collaborationVars

RoomNext ==
  \/ \E u \in User, r \in Room : create_room(u, r)
  \/ \E u, v \in User, r \in Room : create_room_invitation(u, r, v)
  \/ \E u \in User, r \in Room : create_talk_session(u, r)
  \/ \E u \in User, r \in Room : archive_talk_session(u, r)
  \/ \E u \in User, r \in Room : leave_room(u, r)

Next == PeopleNext \/ RoomNext

Spec == Init /\ [][Next]_vars

------------------------------------------------------------------------------
(* Whoever is in a room is its host or an accepted friend of its host, however *)
(* requests, answers, invitations and departures interleave: the admission is  *)
(* atomic with the friendship check, and an accepted friendship is never       *)
(* rewritten (create_room_invitation, respond_to_friend_request).              *)
MembersAreFriendsOfHost ==
  \A r \in Room : \A u \in Members(r) : u = owner[r] \/ Friends(owner[r], u)

(* The ledger alone tells who is in a room: its member_added and member_left   *)
(* keys hold no time or counter, so a second admission after a departure would *)
(* be lost in the ledger and its notification never sent.                      *)
LedgerTellsMembership ==
  \A r \in Room, u \in User :
    (u \in Members(r) /\ u # owner[r]) <=>
      (<<"room", r, "added", u>> \in ledger /\ <<"room", r, "left", u>> \notin ledger)
==============================================================================
