------------------------------ MODULE Comments ------------------------------
(* The comments of a session (comments_service.py, comments_repository.py),    *)
(* composed with the friendships and rooms of Collaboration and the ledger and *)
(* notifications of Activity.                                                  *)
(*                                                                             *)
(* A comment call is a transaction of two steps: require_membership takes the  *)
(* session, the room and every current membership FOR SHARE and keeps who the  *)
(* members are; the write that follows mentions and tells those.  In between,  *)
(* others may do whatever the shared locks allow.  A client that lost its      *)
(* answer repeats the call with the same client_request_id.                    *)
EXTENDS Collaboration

CONSTANTS
  TheRoom,      \* the room of the session
  RequestId,    \* client_request_ids
  Body,         \* texts of comments, anchors included
  MaxComments,  \* bound on the comments
  MaxVersion,   \* bound on the versions of a comment
  MaxChanges    \* bound on the changes of the preferences

VARIABLES
  comment,      \* comments and comment_mentions by <<author, client_request_id>>
  access        \* the members each open transaction has locked, None without one

commentVars == <<comment, access>>
allVars == <<vars, commentVars>>

CommentId == User \X RequestId

(* What a deletion leaves of the text.                                         *)
NoText == ""

Comment == [body : Body \cup {NoText}, mentions : SUBSET User, version : Nat, deleted : BOOLEAN]

ASSUME CommentsAssumption ==
  /\ TheRoom \in Room
  /\ None \notin Comment
  /\ \A members \in SUBSET User : members # None

CommentsInit ==
  /\ Init
  /\ comment = [id \in CommentId |-> None]
  /\ access = [u \in User |-> None]

Open(u) == access[u] # None

require_membership(u) ==
  /\ ~Open(u)
  /\ u \in Members(TheRoom)
  /\ session[TheRoom] # None
  /\ access' = [access EXCEPT ![u] = Members(TheRoom)]
  /\ UNCHANGED <<vars, comment>>

(* Fault: the members are read without a lock.                                 *)
NeverLocked == FALSE

(* A leaving member, an invitation and an archiving host need the rows for     *)
(* update, and wait while a comment call holds them.                           *)
RoomLocked == \E u \in User : Open(u)

Release(u) == access' = [access EXCEPT ![u] = None]

(* A refused call, a repeated one, and a transaction that PostgreSQL aborts    *)
(* end without a change.                                                       *)
GiveUp(u) ==
  /\ Open(u)
  /\ Release(u)
  /\ UNCHANGED <<vars, comment>>

CommentKey(id, version, what) == <<"comment", id, version, what>>

(* Only the locked members may be mentioned, the author is dropped.            *)
Mentionable(u, mentions) == mentions \subseteq access[u] \ {u}

Effects(kind, recipients) == {[to |-> v, kind |-> kind] : v \in recipients}

(* plan_comment_recipients: the mentioned are told of the mention, everyone    *)
(* else in the room of the comment.                                            *)
CreateEffects(u, mentions) ==
  Effects("mention", mentions) \cup Effects("comment", access[u] \ (mentions \cup {u}))

create(u, q, body, mentions) ==
  LET id == <<u, q>>
  IN  /\ Open(u)
      /\ Mentionable(u, mentions)
      /\ comment[id] = None
      /\ Cardinality({i \in CommentId : comment[i] # None}) < MaxComments
      /\ comment' = [comment EXCEPT ![id] =
           [body |-> body, mentions |-> mentions, version |-> 1, deleted |-> FALSE]]
      /\ Record({Entry(CommentKey(id, 1, "created"), CreateEffects(u, mentions))})
      /\ Release(u)
      /\ UNCHANGED <<preference, collaborationVars>>

(* Fault: the version stays.                                                   *)
NextVersionSame(id) == comment[id].version

NextVersion(id) == comment[id].version + 1

(* Only the author, only the version that the row still has, and not a         *)
(* deleted comment; the same content again is no change.                       *)
update(u, id, body, mentions) ==
  /\ Open(u)
  /\ Mentionable(u, mentions)
  /\ comment[id] # None
  /\ id[1] = u
  /\ ~comment[id].deleted
  /\ <<body, mentions>> # <<comment[id].body, comment[id].mentions>>
  /\ comment[id].version < MaxVersion
  /\ comment' = [comment EXCEPT ![id] =
       [@ EXCEPT !.body = body, !.mentions = mentions, !.version = NextVersion(id)]]
  /\ Record({Entry(CommentKey(id, NextVersion(id), "updated"),
                   Effects("mention", mentions \ comment[id].mentions))})
  /\ Release(u)
  /\ UNCHANGED <<preference, collaborationVars>>

(* The author or the room's owner; the rows of the mentions stay.              *)
delete(u, id) ==
  /\ Open(u)
  /\ comment[id] # None
  /\ u \in {id[1], owner[TheRoom]}
  /\ ~comment[id].deleted
  /\ comment' = [comment EXCEPT ![id] =
       [@ EXCEPT !.body = NoText, !.deleted = TRUE, !.version = NextVersion(id)]]
  /\ Record({Entry(CommentKey(id, NextVersion(id), "deleted"), {})})
  /\ Release(u)
  /\ UNCHANGED <<preference, collaborationVars>>

CommentsNext ==
  \/ \E u \in User : require_membership(u)
  \/ \E u \in User : GiveUp(u)
  \/ \E u \in User, q \in RequestId, b \in Body, m \in SUBSET User : create(u, q, b, m)
  \/ \E u \in User, id \in CommentId, b \in Body, m \in SUBSET User : update(u, id, b, m)
  \/ \E u \in User, id \in CommentId : delete(u, id)
  \/ RoomNext /\ ~RoomLocked /\ UNCHANGED commentVars
  \/ PeopleNext /\ UNCHANGED commentVars
  \/ \E u \in User, values \in {{}, DefaultPreferences, SelectableKind \X Channel} :
       /\ Cardinality({k \in ledger : k[1] = "preferences"}) < MaxChanges
       /\ UpdatePreferences(u, values)
       /\ UNCHANGED <<collaborationVars, commentVars>>

CommentsSpec == CommentsInit /\ [][CommentsNext]_allVars

------------------------------------------------------------------------------
Exists(id) == comment[id] # None

MentionedIn(id) == IF Exists(id) THEN comment[id].mentions ELSE {}

(* Every version a comment ever had is in the ledger, under one event: no edit *)
(* or deletion is swallowed as a duplicate of another (the unique event_key),  *)
(* and none is recorded that did not happen.                                   *)
EveryVersionRecordedOnce ==
  \A id \in CommentId :
    LET events == {k \in ledger : k[1] = "comment" /\ k[2] = id}
    IN  /\ Cardinality(events) = IF Exists(id) THEN comment[id].version ELSE 0
        /\ {k[3] : k \in events} = IF Exists(id) THEN 1..comment[id].version ELSE {}

(* A member who is mentioned anew, and has not switched mentions off, is told  *)
(* so by the same transaction, also when an earlier mention in the same        *)
(* comment had been told and taken back (dedupe by event key and recipient).   *)
NewMentionIsTold ==
  [][\A id \in CommentId : \A u \in MentionedIn(id)' \ MentionedIn(id) :
       <<"mention", "in_app">> \in preference[u] =>
         \E n \in inbox' \ inbox : n.to = u /\ n.kind = "mention" /\ n.key[2] = id]_allVars

(* Nobody hears of a comment in a room that they have left: the memberships    *)
(* that a comment call has read stay locked until what it sends is written.    *)
ToldAreMembers ==
  [][\A n \in inbox' \ inbox :
       n.kind \in SelectableKind /\ ~n.read => n.to \in Members(TheRoom)]_allVars

(* A mention reaches the member it names, and only members.                    *)
MentionsReachMembers == NewMentionIsTold /\ ToldAreMembers
==============================================================================
