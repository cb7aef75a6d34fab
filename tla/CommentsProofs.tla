---------------------------- MODULE CommentsProofs ----------------------------
(***************************************************************************)
(* Proofs about Comments, Collaboration and Activity together, for every   *)
(* set of users, rooms and requests: who is in a room, what the ledger     *)
(* tells of it and of its comments, and whom a comment reaches.            *)
(***************************************************************************)
EXTENDS Comments, FiniteSetTheorems, TLAPS

(***************************************************************************)
(* The inductive invariant: the rooms, the comments, the notices and the   *)
(* open transactions.  The ledger ties them together, since an event that  *)
(* is in it already is not recorded again and sends nothing.               *)
(***************************************************************************)
Added(r, u) == <<"room", r, "added", u>>
Left(r, u) == <<"room", r, "left", u>>

\* A room has one host, its owner, and none of its rows before it exists.
RoomHasItsHost ==
  \A r \in Room, u \in User :
    /\ membership[r][u] = "host" => owner[r] = u
    /\ owner[r] = None => membership[r][u] = None

MembersBefriended ==
  \A r \in Room, u \in User : membership[r][u] = "member" => Friends(owner[r], u)

\* Nobody is admitted twice, nor leaves twice.
AdmissionsRecorded ==
  \A r \in Room, u \in User :
    /\ membership[r][u] \in {"member", "left"} <=> <<r, u>> \in invitation
    /\ membership[r][u] \in {"member", "left"} <=> Added(r, u) \in ledger
    /\ membership[r][u] = "left" <=> Left(r, u) \in ledger

RoomsInv == TypeOK /\ RoomHasItsHost /\ MembersBefriended /\ AdmissionsRecorded

EventsOf(id) == {k \in ledger : k[1] = "comment" /\ k[2] = id}

CommentsInv ==
  /\ comment \in [CommentId -> Comment \cup {None}]
  /\ \A id \in CommentId : IsFiniteSet(EventsOf(id))
  /\ EveryVersionRecordedOnce

\* What is in an inbox has its event in the ledger.
Notice == [to : User, kind : Kind, key : ledger, read : BOOLEAN]

NoticesInv == inbox \subseteq Notice

\* What require_membership has read of the room is still so.
LocksInv ==
  /\ access \in [User -> (SUBSET User) \cup {None}]
  /\ \A u \in User : Open(u) => access[u] = Members(TheRoom)

IInv == RoomsInv /\ CommentsInv /\ NoticesInv /\ LocksInv

-------------------------------------------------------------------------------
(* The ledger *)

\* ActivityService.record: every key is in the ledger afterwards, and what is
\* sent are the effects of the keys that were not there before.
LEMMA RecordFacts ==
  ASSUME NoticesInv, NEW entries, Record(entries),
         \A e \in entries : e.effects \subseteq [to : User, kind : Kind]
  PROVE  /\ ledger' = ledger \cup {e.key : e \in entries}
         /\ NoticesInv'
         /\ \A n \in inbox' \ inbox :
              \E e \in entries : \E f \in e.effects :
                n.to = f.to /\ n.kind = f.kind /\ n.key = e.key
         /\ \A e \in entries : \A f \in e.effects :
              e.key \notin ledger /\ "in_app" \in snapshot_preferences(f.to, f.kind) =>
                \E n \in inbox' \ inbox : n.to = f.to /\ n.kind = f.kind /\ n.key = e.key
<1> DEFINE new == {e \in entries : e.key \notin ledger}
           rows == UNION {Materialized(e.key, e.effects, "in_app") : e \in new}
           fresh == {r \in rows : ~AlreadyThere(inbox, r)}
<1>1. /\ ledger' = ledger \cup {e.key : e \in new}
      /\ inbox' = inbox \cup {Unread(r) : r \in fresh}
  BY DEF Record
<1>2. ledger' = ledger \cup {e.key : e \in entries}
  BY <1>1
<1>3. \A r \in rows : \E e \in new : \E f \in e.effects :
        /\ r = [to |-> f.to, kind |-> f.kind, key |-> e.key]
        /\ f \in [to : User, kind : Kind]
  BY DEF Materialized
<1>4. \A r \in fresh : \E e \in new : \E f \in e.effects :
        /\ Unread(r) = [to |-> f.to, kind |-> f.kind, key |-> e.key, read |-> FALSE]
        /\ f \in [to : User, kind : Kind]
  <2> SUFFICES ASSUME NEW r \in fresh
               PROVE  \E e \in new : \E f \in e.effects :
                        /\ Unread(r) = [to |-> f.to, kind |-> f.kind, key |-> e.key, read |-> FALSE]
                        /\ f \in [to : User, kind : Kind]
    OBVIOUS
  <2>1. r \in rows
    OBVIOUS
  <2> HIDE DEF new, rows, fresh
  <2>2. PICK e \in new : \E f \in e.effects :
          /\ r = [to |-> f.to, kind |-> f.kind, key |-> e.key]
          /\ f \in [to : User, kind : Kind]
    BY <1>3, <2>1
  <2>3. PICK f \in e.effects :
          /\ r = [to |-> f.to, kind |-> f.kind, key |-> e.key]
          /\ f \in [to : User, kind : Kind]
    BY <2>2
  <2>4. Unread(r) = [to |-> f.to, kind |-> f.kind, key |-> e.key, read |-> FALSE]
    BY <2>3 DEF Unread
  <2> QED  BY <2>3, <2>4
<1>5. NoticesInv'
  <2> SUFFICES ASSUME NEW n \in inbox'
               PROVE  n \in [to : User, kind : Kind, key : ledger', read : BOOLEAN]
    BY DEF NoticesInv, Notice
  <2>1. CASE n \in inbox
    BY <1>2, <2>1 DEF NoticesInv, Notice
  <2>2. CASE n \in {Unread(r) : r \in fresh}
    <3>1. PICK e \in new, f \in [to : User, kind : Kind] :
            n = [to |-> f.to, kind |-> f.kind, key |-> e.key, read |-> FALSE]
      BY <1>4, <2>2
    <3>2. e.key \in ledger'
      BY <1>1
    <3> QED  BY <3>1, <3>2
  <2> QED  BY <1>1, <2>1, <2>2
<1>6. \A n \in inbox' \ inbox :
        \E e \in entries : \E f \in e.effects :
          n.to = f.to /\ n.kind = f.kind /\ n.key = e.key
  BY <1>1, <1>4
<1>7. ASSUME NEW e \in entries, NEW f \in e.effects,
             e.key \notin ledger, "in_app" \in snapshot_preferences(f.to, f.kind)
      PROVE  \E n \in inbox' \ inbox : n.to = f.to /\ n.kind = f.kind /\ n.key = e.key
  <2> DEFINE row == [to |-> f.to, kind |-> f.kind, key |-> e.key]
  <2>1. row \in Materialized(e.key, e.effects, "in_app")
    BY <1>7 DEF Materialized
  <2>2. \A r \in inbox : r.key # row.key
    BY <1>7 DEF NoticesInv, Notice
  <2>3. row \in fresh
    BY <1>7, <2>1, <2>2 DEF AlreadyThere
  <2>4. Unread(row) = [to |-> f.to, kind |-> f.kind, key |-> e.key, read |-> FALSE]
    BY DEF Unread
  <2>5. Unread(row) \in inbox' /\ Unread(row).key = e.key
    BY <1>1, <2>3, <2>4
  <2>6. Unread(row) \notin inbox
    BY <2>2, <2>5
  <2> QED  BY <2>4, <2>5, <2>6
<1> QED  BY <1>2, <1>5, <1>6, <1>7

\* Reading a notice keeps its event, and brings no unread one.
LEMMA ReadingKeepsNotices ==
  ASSUME NoticesInv, NEW u \in User, MarkRead(u) \/ MarkAllRead(u)
  PROVE  NoticesInv' /\ ledger' = ledger /\ \A n \in inbox' \ inbox : n.read
<1>1. ledger' = ledger
  BY DEF MarkRead, MarkAllRead
<1>2. \A n \in inbox : [n EXCEPT !.read = TRUE] \in Notice /\ [n EXCEPT !.read = TRUE].read
  BY DEF NoticesInv, Notice
<1>3. CASE MarkRead(u)
  BY <1>1, <1>2, <1>3 DEF MarkRead, NoticesInv, Notice
<1>4. CASE MarkAllRead(u)
  BY <1>1, <1>2, <1>4 DEF MarkAllRead, NoticesInv, Notice
<1> QED  BY <1>3, <1>4

-------------------------------------------------------------------------------
(* What a step may leave alone *)

\* Rooms do not depend on events of anything else.
LEMMA ElsewhereKeepsRooms ==
  ASSUME RoomsInv, UNCHANGED collaborationVars,
         NEW K, ledger' = ledger \cup K, \A k \in K : k[1] # "room"
  PROVE  RoomsInv'
<1>1. \A r \in Room, u \in User :
        /\ Added(r, u) \in ledger' <=> Added(r, u) \in ledger
        /\ Left(r, u) \in ledger' <=> Left(r, u) \in ledger
  <2>1. \A r \in Room, u \in User : Added(r, u)[1] = "room" /\ Left(r, u)[1] = "room"
    BY DEF Added, Left
  <2> QED  BY <2>1
<1>2. TypeOK' /\ RoomHasItsHost'
  BY DEF RoomsInv, collaborationVars, TypeOK, RoomHasItsHost
<1>3. MembersBefriended'
  BY DEF RoomsInv, collaborationVars, MembersBefriended, Friends
<1>4. AdmissionsRecorded'
  <2>1. \A r \in Room, u \in User : Added(r, u)' = Added(r, u) /\ Left(r, u)' = Left(r, u)
    BY DEF Added, Left
  <2> QED  BY <1>1, <2>1 DEF RoomsInv, collaborationVars, AdmissionsRecorded
<1> QED  BY <1>2, <1>3, <1>4 DEF RoomsInv

\* Nor do comments.
LEMMA ElsewhereKeepsComments ==
  ASSUME CommentsInv, UNCHANGED comment,
         NEW K, ledger' = ledger \cup K, \A k \in K : k[1] # "comment"
  PROVE  CommentsInv'
<1>1. \A id \in CommentId : EventsOf(id)' = EventsOf(id)
  BY DEF EventsOf
<1>2. EveryVersionRecordedOnce'
  BY <1>1 DEF CommentsInv, EveryVersionRecordedOnce, EventsOf, Exists
<1> QED  BY <1>1, <1>2 DEF CommentsInv

\* Open transactions only know who is in the room.
LEMMA ElsewhereKeepsLocks ==
  ASSUME LocksInv, UNCHANGED <<access, membership>>
  PROVE  LocksInv'
BY DEF LocksInv, Open, Members

-------------------------------------------------------------------------------
(* Friendships *)

\* Two users make a pair.
LEMMA TwoUsersArePair ==
  ASSUME NEW u \in User, NEW v \in User, u # v
  PROVE  {u, v} \in Pair
<1>1. IsFiniteSet({u}) /\ Cardinality({u}) = 1
  BY FS_Singleton
<1>2. Cardinality({u} \cup {v}) = 2
  BY <1>1, FS_AddElement
<1>3. {u} \cup {v} = {u, v}
  OBVIOUS
<1> QED  BY <1>2, <1>3 DEF Pair

\* A step that makes no accepted friendship something else keeps the rooms.
LEMMA FriendshipKeepsRooms ==
  ASSUME RoomsInv, UNCHANGED <<owner, membership, invitation, session>>,
         friendship' \in [Pair -> Friendship \cup {None}],
         \A p \in Pair : friendship'[p] # None => friendship'[p].requester \in p,
         \A p \in Pair : friendship[p] # None /\ friendship[p].status = "accepted"
                           => friendship'[p] = friendship[p],
         NEW K, ledger' = ledger \cup K, \A k \in K : k[1] # "room"
  PROVE  RoomsInv'
<1>1. \A r \in Room, u \in User : Added(r, u)[1] = "room" /\ Left(r, u)[1] = "room"
  BY DEF Added, Left
<1>2. TypeOK' /\ RoomHasItsHost'
  BY DEF RoomsInv, TypeOK, RoomHasItsHost
<1>3. MembersBefriended'
  <2> SUFFICES ASSUME NEW r \in Room, NEW u \in User, membership[r][u] = "member"
               PROVE  Friends(owner[r], u)'
    BY DEF MembersBefriended
  <2>1. Friends(owner[r], u)
    BY DEF RoomsInv, MembersBefriended
  <2>2. owner[r] \in User
    BY NoneAssumption DEF RoomsInv, TypeOK, RoomHasItsHost, NoneAssumption
  <2>3. {owner[r], u} \in Pair
    BY <2>1, <2>2, TwoUsersArePair DEF Friends
  <2> QED  BY <2>1, <2>3 DEF Friends
<1>4. AdmissionsRecorded'
  <2>1. \A r \in Room, u \in User : Added(r, u)' = Added(r, u) /\ Left(r, u)' = Left(r, u)
    BY DEF Added, Left
  <2> QED  BY <1>1, <2>1 DEF RoomsInv, AdmissionsRecorded
<1> QED  BY <1>2, <1>3, <1>4 DEF RoomsInv

\* A request makes a pending row where there was none.
LEMMA RequestKeepsIInv ==
  ASSUME IInv, NEW u \in User, NEW v \in User, create_friend_request(u, v), UNCHANGED commentVars
  PROVE  IInv'
<1> DEFINE pair == {u, v}
           K == {<<"friendship", pair, "requested", u>>, <<"friendship", pair, "requested", v>>}
           entries == {Entry(<<"friendship", pair, "requested", u>>, {}),
                       Entry(<<"friendship", pair, "requested", v>>,
                             {[to |-> v, kind |-> "friend_request"]})}
<1>1. \A e \in entries : e.effects \subseteq [to : User, kind : Kind]
  BY DEF Entry, Kind, AlwaysInApp
<1>2. {e.key : e \in entries} = K
  BY DEF Entry
<1>3. Record(entries)
  BY DEF create_friend_request
<1>4. NoticesInv' /\ ledger' = ledger \cup K
  <2> HIDE DEF entries
  <2> QED  BY <1>1, <1>2, <1>3, RecordFacts DEF IInv
<1>5. \A k \in K : k[1] = "friendship"
  OBVIOUS
<1> HIDE DEF K, entries
<1>6. RoomsInv'
  <2>1. pair \in Pair /\ friendship[pair] = None
    BY TwoUsersArePair DEF create_friend_request
  <2>2. [requester |-> u, status |-> "pending"] \in Friendship
    BY DEF Friendship, Status
  <2>3. friendship' = [friendship EXCEPT ![pair] = [requester |-> u, status |-> "pending"]]
    BY DEF create_friend_request
  <2>4. friendship' \in [Pair -> Friendship \cup {None}]
    BY <2>1, <2>2, <2>3 DEF IInv, RoomsInv, TypeOK
  <2>5. \A p \in Pair : friendship'[p] # None => friendship'[p].requester \in p
    BY <2>1, <2>3 DEF IInv, RoomsInv, TypeOK
  <2>6. \A p \in Pair : friendship[p] # None => friendship'[p] = friendship[p]
    BY <2>1, <2>3 DEF IInv, RoomsInv, TypeOK
  <2>7. UNCHANGED <<owner, membership, invitation, session>>
    BY DEF create_friend_request
  <2>8. \A k \in K : k[1] # "room"
    BY <1>5
  <2> QED  BY <1>4, <2>4, <2>5, <2>6, <2>7, <2>8, FriendshipKeepsRooms DEF IInv
<1>7. CommentsInv'
  BY <1>4, <1>5, ElsewhereKeepsComments DEF IInv, commentVars
<1>8. LocksInv'
  BY ElsewhereKeepsLocks DEF IInv, commentVars, create_friend_request
<1> QED  BY <1>4, <1>6, <1>7, <1>8 DEF IInv

\* Only a pending request is answered.
LEMMA AnswerKeepsIInv ==
  ASSUME IInv, NEW u \in User, NEW p \in Pair, NEW status \in {"accepted", "rejected"},
         respond_to_friend_request(u, p, status), UNCHANGED commentVars
  PROVE  IInv'
<1> DEFINE K == {<<"friendship", p, status, v>> : v \in p}
           entries == {Entry(<<"friendship", p, status, v>>, {}) : v \in p}
<1>1. \A e \in entries : e.effects \subseteq [to : User, kind : Kind]
  BY DEF Entry
<1>2. {e.key : e \in entries} = K
  <2>1. \A v \in p : Entry(<<"friendship", p, status, v>>, {}).key = <<"friendship", p, status, v>>
    BY DEF Entry
  <2> QED  BY <2>1, Zenon
<1>3. Record(entries)
  BY DEF respond_to_friend_request
<1>4. NoticesInv' /\ ledger' = ledger \cup K
  <2> HIDE DEF entries
  <2> QED  BY <1>1, <1>2, <1>3, RecordFacts DEF IInv
<1>5. \A k \in K : k[1] = "friendship"
  OBVIOUS
<1> HIDE DEF K, entries
<1>6. RoomsInv'
  <2>1. friendship[p] \in Friendship /\ friendship[p].status = "pending"
    BY DEF respond_to_friend_request, Answerable, IInv, RoomsInv, TypeOK
  <2>2. [friendship[p] EXCEPT !.status = status] \in Friendship
        /\ [friendship[p] EXCEPT !.status = status].requester = friendship[p].requester
    BY <2>1 DEF Friendship, Status
  <2>3. friendship' = [friendship EXCEPT ![p] = [friendship[p] EXCEPT !.status = status]]
    BY DEF respond_to_friend_request
  <2>4. friendship' \in [Pair -> Friendship \cup {None}]
    BY <2>2, <2>3 DEF IInv, RoomsInv, TypeOK
  <2>5. \A q \in Pair : friendship'[q] # None => friendship'[q].requester \in q
    BY <2>1, <2>2, <2>3, NoneAssumption DEF IInv, RoomsInv, TypeOK, NoneAssumption
  <2>6. \A q \in Pair : friendship[q] # None /\ friendship[q].status = "accepted"
                          => friendship'[q] = friendship[q]
    BY <2>1, <2>3 DEF IInv, RoomsInv, TypeOK
  <2>7. UNCHANGED <<owner, membership, invitation, session>>
    BY DEF respond_to_friend_request
  <2>8. \A k \in K : k[1] # "room"
    BY <1>5
  <2> QED  BY <1>4, <2>4, <2>5, <2>6, <2>7, <2>8, FriendshipKeepsRooms DEF IInv
<1>7. CommentsInv'
  BY <1>4, <1>5, ElsewhereKeepsComments DEF IInv, commentVars
<1>8. LocksInv'
  BY ElsewhereKeepsLocks DEF IInv, commentVars, respond_to_friend_request
<1> QED  BY <1>4, <1>6, <1>7, <1>8 DEF IInv

\* Notices are read.
LEMMA ReadingKeepsIInv ==
  ASSUME IInv, NEW u \in User, MarkRead(u) \/ MarkAllRead(u),
         UNCHANGED collaborationVars, UNCHANGED commentVars
  PROVE  IInv'
<1> DEFINE K == {}
<1>1. NoticesInv' /\ ledger' = ledger \cup K
  BY ReadingKeepsNotices DEF IInv
<1>0. \A k \in K : k[1] # "room" /\ k[1] # "comment"
  OBVIOUS
<1> HIDE DEF K
<1>2. RoomsInv'
  BY <1>0, <1>1, ElsewhereKeepsRooms DEF IInv
<1>3. CommentsInv'
  BY <1>0, <1>1, ElsewhereKeepsComments DEF IInv, commentVars
<1>4. LocksInv'
  BY ElsewhereKeepsLocks DEF IInv, commentVars, collaborationVars
<1> QED  BY <1>1, <1>2, <1>3, <1>4 DEF IInv

-------------------------------------------------------------------------------
(* Rooms *)

\* The keys of admissions and departures tell rooms and users apart.
LEMMA AdmissionKeys ==
  ASSUME NEW r \in Room, NEW u \in User
  PROVE  /\ Added(r, u)[1] = "room" /\ Added(r, u)[3] = "added"
         /\ Left(r, u)[1] = "room" /\ Left(r, u)[3] = "left"
         /\ \A s \in Room, v \in User :
              /\ Added(r, u) = Added(s, v) <=> r = s /\ u = v
              /\ Left(r, u) = Left(s, v) <=> r = s /\ u = v
              /\ Added(r, u) # Left(s, v)
BY DEF Added, Left

\* While no comment call is open a room may change: comments, notices and open
\* transactions are kept by what it records.
LEMMA RoomStepKeepsOthers ==
  ASSUME IInv, UNCHANGED commentVars, ~RoomLocked,
         NEW key, key[1] # "comment", NEW effects \in SUBSET [to : User, kind : Kind],
         Record({Entry(key, effects)})
  PROVE  CommentsInv' /\ NoticesInv' /\ LocksInv' /\ ledger' = ledger \cup {key}
<1> DEFINE entries == {Entry(key, effects)}
           K == {key}
<1>1. (\A e \in entries : e.effects \subseteq [to : User, kind : Kind]) /\ {e.key : e \in entries} = K
  BY DEF Entry
<1>2. NoticesInv' /\ ledger' = ledger \cup K
  <2> HIDE DEF entries
  <2>1. Record(entries)
    BY DEF entries
  <2> QED  BY <1>1, <2>1, RecordFacts DEF IInv
<1>3. \A k \in K : k[1] # "comment"
  OBVIOUS
<1>4. CommentsInv'
  <2> HIDE DEF K
  <2> QED  BY <1>2, <1>3, ElsewhereKeepsComments DEF IInv, commentVars
<1>5. LocksInv'
  BY DEF IInv, LocksInv, RoomLocked, commentVars, Open
<1> QED  BY <1>2, <1>4, <1>5

\* A new room has its host and nobody else.
LEMMA CreateRoomKeepsIInv ==
  ASSUME IInv, NEW actor \in User, NEW r \in Room, create_room(actor, r),
         UNCHANGED commentVars, ~RoomLocked
  PROVE  IInv'
<1> DEFINE key == <<"room", r, "created">>
<1>1. CommentsInv' /\ NoticesInv' /\ LocksInv' /\ ledger' = ledger \cup {key}
  <2>1. key[1] # "comment" /\ Record({Entry(key, {})})
    BY DEF create_room
  <2> HIDE DEF key
  <2> QED  BY <2>1, RoomStepKeepsOthers
<1>2. key[3] = "created"
  OBVIOUS
<1> HIDE DEF key
<1>3. /\ owner[r] = None
      /\ owner' = [owner EXCEPT ![r] = actor]
      /\ membership' = [membership EXCEPT ![r][actor] = "host"]
      /\ UNCHANGED <<friendship, invitation, session>>
  BY DEF create_room
<1>4. \A u \in User : membership[r][u] = None
  BY <1>3 DEF IInv, RoomsInv, RoomHasItsHost
<1>5. \A s \in Room, u \in User :
        membership'[s][u] = IF s = r /\ u = actor THEN "host" ELSE membership[s][u]
  BY <1>3 DEF IInv, RoomsInv, TypeOK
<1>6. TypeOK'
  BY <1>3 DEF IInv, RoomsInv, TypeOK, Membership
<1>7. RoomHasItsHost'
  BY <1>3, <1>4, <1>5, NoneAssumption DEF IInv, RoomsInv, TypeOK, RoomHasItsHost, NoneAssumption
<1>8. MembersBefriended'
  <2> SUFFICES ASSUME NEW s \in Room, NEW u \in User, membership'[s][u] = "member"
               PROVE  Friends(owner[s], u)'
    BY DEF MembersBefriended
  <2>1. s # r /\ membership[s][u] = "member"
    BY <1>4, <1>5, NoneAssumption DEF NoneAssumption
  <2>2. Friends(owner[s], u) /\ owner'[s] = owner[s]
    BY <1>3, <2>1 DEF IInv, RoomsInv, TypeOK, MembersBefriended
  <2> QED  BY <1>3, <2>2 DEF Friends
<1>9. AdmissionsRecorded'
  <2> SUFFICES ASSUME NEW s \in Room, NEW u \in User
               PROVE  /\ membership'[s][u] \in {"member", "left"} <=> <<s, u>> \in invitation
                      /\ membership'[s][u] \in {"member", "left"} <=> Added(s, u) \in ledger'
                      /\ membership'[s][u] = "left" <=> Left(s, u) \in ledger'
    BY <1>3 DEF AdmissionsRecorded, Added, Left
  <2>1. /\ Added(s, u) \in ledger' <=> Added(s, u) \in ledger
        /\ Left(s, u) \in ledger' <=> Left(s, u) \in ledger
    BY <1>1, <1>2, AdmissionKeys
  <2>2. membership[r][actor] \notin {"member", "left"}
    BY <1>4, NoneAssumption DEF NoneAssumption
  <2> QED  BY <1>5, <2>1, <2>2 DEF IInv, RoomsInv, AdmissionsRecorded
<1> QED  BY <1>1, <1>6, <1>7, <1>8, <1>9 DEF IInv, RoomsInv

\* The session of a room: members stay as they are.
LEMMA SessionKeepsIInv ==
  ASSUME IInv, NEW actor \in User, NEW r \in Room,
         create_talk_session(actor, r) \/ archive_talk_session(actor, r),
         UNCHANGED commentVars, ~RoomLocked
  PROVE  IInv'
<1>1. PICK what \in {"created", "archived"} : Record({Entry(<<"session", r, what>>, {})})
  BY DEF create_talk_session, archive_talk_session
<1> DEFINE key == <<"session", r, what>>
<1>2. CommentsInv' /\ NoticesInv' /\ LocksInv' /\ ledger' = ledger \cup {key}
  <2>1. key[1] # "comment" /\ Record({Entry(key, {})})
    BY <1>1
  <2> HIDE DEF key
  <2> QED  BY <2>1, RoomStepKeepsOthers
<1>3. key[1] = "session"
  OBVIOUS
<1> HIDE DEF key
<1>4. UNCHANGED <<friendship, owner, membership, invitation>>
  BY DEF create_talk_session, archive_talk_session
<1>5. TypeOK'
  <2>1. session' \in [Room -> {None, "shown", "archived"}]
    BY DEF IInv, RoomsInv, TypeOK, create_talk_session, archive_talk_session
  <2> QED  BY <1>4, <2>1 DEF IInv, RoomsInv, TypeOK
<1>6. RoomHasItsHost' /\ MembersBefriended'
  BY <1>4 DEF IInv, RoomsInv, RoomHasItsHost, MembersBefriended, Friends
<1>7. AdmissionsRecorded'
  <2> SUFFICES ASSUME NEW s \in Room, NEW u \in User
               PROVE  /\ membership'[s][u] \in {"member", "left"} <=> <<s, u>> \in invitation'
                      /\ membership'[s][u] \in {"member", "left"} <=> Added(s, u) \in ledger'
                      /\ membership'[s][u] = "left" <=> Left(s, u) \in ledger'
    BY DEF AdmissionsRecorded, Added, Left
  <2>1. /\ Added(s, u) \in ledger' <=> Added(s, u) \in ledger
        /\ Left(s, u) \in ledger' <=> Left(s, u) \in ledger
    BY <1>2, <1>3, AdmissionKeys
  <2> QED  BY <1>4, <2>1 DEF IInv, RoomsInv, AdmissionsRecorded
<1> QED  BY <1>2, <1>5, <1>6, <1>7 DEF IInv, RoomsInv

\* A member leaves for good.
LEMMA LeaveRoomKeepsIInv ==
  ASSUME IInv, NEW actor \in User, NEW r \in Room, leave_room(actor, r),
         UNCHANGED commentVars, ~RoomLocked
  PROVE  IInv'
<1> DEFINE key == Left(r, actor)
<1>1. CommentsInv' /\ NoticesInv' /\ LocksInv' /\ ledger' = ledger \cup {key}
  <2>1. key[1] # "comment" /\ Record({Entry(key, {})})
    BY DEF leave_room, Left
  <2> HIDE DEF key
  <2> QED  BY <2>1, RoomStepKeepsOthers
<1>2. /\ membership[r][actor] = "member"
      /\ membership' = [membership EXCEPT ![r][actor] = "left"]
      /\ UNCHANGED <<friendship, owner, invitation, session>>
  BY DEF leave_room
<1>3. \A s \in Room, u \in User :
        membership'[s][u] = IF s = r /\ u = actor THEN "left" ELSE membership[s][u]
  BY <1>2 DEF IInv, RoomsInv, TypeOK
<1>4. TypeOK'
  BY <1>2 DEF IInv, RoomsInv, TypeOK, Membership
<1>5. RoomHasItsHost'
  BY <1>2, <1>3, NoneAssumption DEF IInv, RoomsInv, RoomHasItsHost, NoneAssumption
<1>6. MembersBefriended'
  BY <1>2, <1>3 DEF IInv, RoomsInv, MembersBefriended, Friends
<1>7. AdmissionsRecorded'
  <2> SUFFICES ASSUME NEW s \in Room, NEW u \in User
               PROVE  /\ membership'[s][u] \in {"member", "left"} <=> <<s, u>> \in invitation
                      /\ membership'[s][u] \in {"member", "left"} <=> Added(s, u) \in ledger'
                      /\ membership'[s][u] = "left" <=> Left(s, u) \in ledger'
    BY <1>2 DEF AdmissionsRecorded, Added, Left
  <2>1. /\ Added(s, u) \in ledger' <=> Added(s, u) \in ledger
        /\ Left(s, u) \in ledger' <=> Left(s, u) \in ledger \/ (s = r /\ u = actor)
    BY <1>1, AdmissionKeys
  <2> QED  BY <1>2, <1>3, <2>1 DEF IInv, RoomsInv, AdmissionsRecorded
<1> QED  BY <1>1, <1>4, <1>5, <1>6, <1>7 DEF IInv, RoomsInv

\* The host admits a friend: one who was never in the room, or is still there.
LEMMA InvitationKeepsIInv ==
  ASSUME IInv, NEW actor \in User, NEW invitee \in User, NEW r \in Room,
         create_room_invitation(actor, r, invitee), UNCHANGED commentVars, ~RoomLocked
  PROVE  IInv'
<1> DEFINE key == Added(r, invitee)
           effects == {[to |-> invitee, kind |-> "room_member_added"]}
<1>1. /\ actor # invitee
      /\ membership[r][actor] = "host"
      /\ Friends(actor, invitee)
      /\ ~Departed(r, invitee)
      /\ invitation' = invitation \cup {<<r, invitee>>}
      /\ membership' = [membership EXCEPT ![r][invitee] = "member"]
      /\ UNCHANGED <<friendship, owner, session>>
  BY DEF create_room_invitation, IsHost
<1>2. owner[r] = actor /\ membership[r][invitee] # "host"
  BY <1>1 DEF IInv, RoomsInv, RoomHasItsHost
<1>3. \/ membership[r][invitee] = "member"
      \/ membership[r][invitee] = None /\ <<r, invitee>> \notin invitation
  <2>1. membership[r][invitee] \in Membership
    BY DEF IInv, RoomsInv, TypeOK
  <2>2. membership[r][invitee] # "left"
    BY <1>1 DEF IInv, RoomsInv, AdmissionsRecorded, Departed, Members
  <2>3. membership[r][invitee] = None => <<r, invitee>> \notin invitation
    BY NoneAssumption DEF NoneAssumption, IInv, RoomsInv, AdmissionsRecorded
  <2> QED  BY <1>2, <2>1, <2>2, <2>3 DEF Membership
<1>4. CommentsInv' /\ NoticesInv' /\ LocksInv' /\ ledger' = ledger \cup {key}
  <2>1. CASE <<r, invitee>> \in invitation /\ invitee \in Members(r)
    <3>1. membership[r][invitee] = "member" /\ key \in ledger
      BY <1>2, <2>1 DEF Members, IInv, RoomsInv, AdmissionsRecorded
    <3>2. UNCHANGED <<ledger, inbox>>
      BY <2>1 DEF create_room_invitation
    <3>3. NoticesInv' /\ ledger' = ledger \cup {key}
      BY <3>1, <3>2 DEF IInv, NoticesInv, Notice
    <3>4. \A k \in {key} : k[1] # "comment"
      BY DEF Added
    <3>5. CommentsInv'
      <4> DEFINE K == {key}
      <4>1. ledger' = ledger \cup K /\ \A k \in K : k[1] # "comment"
        BY <3>3, <3>4
      <4> HIDE DEF K
      <4> QED  BY <4>1, ElsewhereKeepsComments DEF IInv, commentVars
    <3>6. LocksInv'
      BY DEF IInv, LocksInv, RoomLocked, commentVars, Open
    <3> QED  BY <3>3, <3>5, <3>6
  <2>2. CASE ~ (<<r, invitee>> \in invitation /\ invitee \in Members(r))
    <3>1. key[1] # "comment" /\ Record({Entry(key, effects)})
      BY <2>2 DEF create_room_invitation, Added
    <3>2. effects \in SUBSET [to : User, kind : Kind]
      BY DEF Kind, AlwaysInApp
    <3> HIDE DEF key, effects
    <3> QED  BY <3>1, <3>2, RoomStepKeepsOthers
  <2> QED  BY <2>1, <2>2
<1>5. \A s \in Room, u \in User :
        membership'[s][u] = IF s = r /\ u = invitee THEN "member" ELSE membership[s][u]
  BY <1>1 DEF IInv, RoomsInv, TypeOK
<1>6. TypeOK'
  <2>1. membership' \in [Room -> [User -> Membership]]
    BY <1>1 DEF IInv, RoomsInv, TypeOK, Membership
  <2> QED  BY <1>1, <2>1 DEF IInv, RoomsInv, TypeOK
<1>7. RoomHasItsHost'
  BY <1>1, <1>2, <1>5, NoneAssumption DEF IInv, RoomsInv, RoomHasItsHost, NoneAssumption
<1>8. MembersBefriended'
  <2> SUFFICES ASSUME NEW s \in Room, NEW u \in User, membership'[s][u] = "member"
               PROVE  Friends(owner[s], u)'
    BY DEF MembersBefriended
  <2>1. Friends(owner[s], u)
    BY <1>1, <1>2, <1>5 DEF IInv, RoomsInv, MembersBefriended
  <2> QED  BY <1>1, <2>1 DEF Friends
<1>9. AdmissionsRecorded'
  <2> SUFFICES ASSUME NEW s \in Room, NEW u \in User
               PROVE  /\ membership'[s][u] \in {"member", "left"} <=> <<s, u>> \in invitation'
                      /\ membership'[s][u] \in {"member", "left"} <=> Added(s, u) \in ledger'
                      /\ membership'[s][u] = "left" <=> Left(s, u) \in ledger'
    BY DEF AdmissionsRecorded, Added, Left
  <2>1. /\ Added(s, u) \in ledger' <=> Added(s, u) \in ledger \/ (s = r /\ u = invitee)
        /\ Left(s, u) \in ledger' <=> Left(s, u) \in ledger
    BY <1>4, AdmissionKeys
  <2>2. <<s, u>> \in invitation' <=> <<s, u>> \in invitation \/ (s = r /\ u = invitee)
    BY <1>1
  <2>3. membership[r][invitee] # "left"
    BY <1>3, NoneAssumption DEF NoneAssumption
  <2> QED  BY <1>5, <2>1, <2>2, <2>3 DEF IInv, RoomsInv, AdmissionsRecorded
<1> QED  BY <1>4, <1>6, <1>7, <1>8, <1>9 DEF IInv, RoomsInv

\* A changed preference is an event of its own.
LEMMA PreferencesKeepIInv ==
  ASSUME IInv, NEW u \in User, NEW values, UpdatePreferences(u, values),
         UNCHANGED <<collaborationVars, commentVars>>
  PROVE  IInv'
<1> DEFINE key == <<"preferences", u, PreferencesVersion(u) + 1>>
           entries == {Entry(key, {})}
           K == {key}
<1>1. \A k \in K : k[1] # "comment" /\ k[1] # "room"
  OBVIOUS
<1>2. (\A e \in entries : e.effects \subseteq [to : User, kind : Kind]) /\ {e.key : e \in entries} = K
  BY DEF Entry
<1>3. Record(entries)
  BY DEF UpdatePreferences
<1> HIDE DEF entries, K
<1>4. NoticesInv' /\ ledger' = ledger \cup K
  BY <1>2, <1>3, RecordFacts DEF IInv
<1>5. RoomsInv' /\ CommentsInv'
  BY <1>1, <1>4, ElsewhereKeepsRooms, ElsewhereKeepsComments DEF IInv, commentVars
<1>6. LocksInv'
  BY ElsewhereKeepsLocks DEF IInv, commentVars, collaborationVars
<1> QED  BY <1>4, <1>5, <1>6 DEF IInv

-------------------------------------------------------------------------------
(* Comments *)

\* What create, update and delete have in common: the next version of a comment
\* is written and recorded, and the transaction ends.
Writes(u, id, row, what, effects) ==
  /\ row \in Comment
  /\ row.version = (IF Exists(id) THEN comment[id].version ELSE 0) + 1
  /\ effects \in SUBSET [to : User, kind : Kind]
  /\ Record({Entry(CommentKey(id, row.version, what), effects)})
  /\ comment' = [comment EXCEPT ![id] = row]
  /\ Release(u)
  /\ UNCHANGED collaborationVars

\* A write of a comment records its next version, which the ledger does not
\* know yet.
LEMMA WriteKeepsIInv ==
  ASSUME IInv, NEW u \in User, NEW id \in CommentId, NEW row, NEW what, NEW effects,
         Writes(u, id, row, what, effects)
  PROVE  /\ IInv'
         /\ CommentKey(id, row.version, what) \notin ledger
         /\ \A n \in inbox' \ inbox : \E f \in effects : n.to = f.to /\ n.kind = f.kind
         /\ \A f \in effects :
              "in_app" \in snapshot_preferences(f.to, f.kind) =>
                \E n \in inbox' \ inbox : n.to = f.to /\ n.kind = f.kind /\ n.key[2] = id
<1> DEFINE key == CommentKey(id, row.version, what)
           entries == {Entry(key, effects)}
           K == {key}
           before == IF Exists(id) THEN comment[id].version ELSE 0
<1>0. /\ row \in Comment
      /\ row.version = (IF Exists(id) THEN comment[id].version ELSE 0) + 1
      /\ effects \in SUBSET [to : User, kind : Kind]
      /\ Record(entries)
      /\ comment' = [comment EXCEPT ![id] = row]
      /\ Release(u)
      /\ UNCHANGED collaborationVars
  BY DEF Writes
<1>1. (\A e \in entries : e.effects \subseteq [to : User, kind : Kind]) /\ {e.key : e \in entries} = K
  BY <1>0 DEF Entry
<1>2. key[1] = "comment" /\ key[2] = id /\ key[3] = row.version
  BY DEF CommentKey
<1>3. before \in Nat /\ row.version = before + 1
  BY <1>0 DEF IInv, CommentsInv, Comment, Exists
<1>4. /\ IsFiniteSet(EventsOf(id))
      /\ Cardinality(EventsOf(id)) = before
      /\ {k[3] : k \in EventsOf(id)} = 1 .. before
  <2>1. 1 .. 0 = {}
    OBVIOUS
  <2>2. /\ Cardinality(EventsOf(id)) = IF Exists(id) THEN comment[id].version ELSE 0
        /\ {k[3] : k \in EventsOf(id)} = IF Exists(id) THEN 1 .. comment[id].version ELSE {}
    BY DEF IInv, CommentsInv, EveryVersionRecordedOnce, EventsOf
  <2> QED  BY <2>1, <2>2 DEF IInv, CommentsInv
<1>5. key \notin ledger
  <2>1. key \in ledger => row.version \in 1 .. before
    BY <1>2, <1>4 DEF EventsOf
  <2> QED  BY <1>3, <2>1
<1>6. \A e \in entries : e.key = key /\ e.effects = effects
  BY DEF Entry
<1>7. Record(entries)
  BY <1>0
<1> HIDE DEF key, entries, before
<1>8. /\ NoticesInv'
      /\ ledger' = ledger \cup K
      /\ \A n \in inbox' \ inbox : \E e \in entries : \E f \in e.effects :
           n.to = f.to /\ n.kind = f.kind /\ n.key = e.key
      /\ \A e \in entries : \A f \in e.effects :
           e.key \notin ledger /\ "in_app" \in snapshot_preferences(f.to, f.kind) =>
             \E n \in inbox' \ inbox : n.to = f.to /\ n.kind = f.kind /\ n.key = e.key
  BY <1>1, <1>7, RecordFacts DEF IInv
<1>9. \E e \in entries : TRUE
  BY DEF entries
<1>10. /\ \A n \in inbox' \ inbox : \E f \in effects : n.to = f.to /\ n.kind = f.kind
       /\ \A f \in effects :
            "in_app" \in snapshot_preferences(f.to, f.kind) =>
              \E n \in inbox' \ inbox : n.to = f.to /\ n.kind = f.kind /\ n.key[2] = id
  BY <1>2, <1>5, <1>6, <1>8, <1>9
<1>11. RoomsInv'
  <2>1. \A k \in K : k[1] # "room"
    BY <1>2
  <2> HIDE DEF K
  <2> QED  BY <1>0, <1>8, <2>1, ElsewhereKeepsRooms DEF IInv
<1>12. CommentsInv'
  <2>1. comment' \in [CommentId -> Comment \cup {None}]
    BY <1>0 DEF IInv, CommentsInv
  <2>2. \A other \in CommentId : other # id =>
          EventsOf(other)' = EventsOf(other) /\ comment'[other] = comment[other]
    BY <1>0, <1>2, <1>8 DEF EventsOf, IInv, CommentsInv
  <2>3. EventsOf(id)' = EventsOf(id) \cup {key} /\ key \notin EventsOf(id)
    BY <1>2, <1>5, <1>8 DEF EventsOf
  <2>4. IsFiniteSet(EventsOf(id)') /\ Cardinality(EventsOf(id)') = before + 1
    BY <1>3, <1>4, <2>3, FS_AddElement
  <2>5. {k[3] : k \in EventsOf(id)'} = 1 .. (before + 1)
    <3>1. {k[3] : k \in EventsOf(id)'} = (1 .. before) \cup {before + 1}
      BY <1>2, <1>3, <1>4, <2>3
    <3>2. (1 .. before) \cup {before + 1} = 1 .. (before + 1)
      BY <1>3
    <3> QED  BY <3>1, <3>2
  <2>6. comment'[id] = row /\ row # None
    BY <1>0, CommentsAssumption DEF CommentsAssumption, IInv, CommentsInv
  <2>7. EveryVersionRecordedOnce'
    <3> SUFFICES ASSUME NEW other \in CommentId
                 PROVE  /\ Cardinality(EventsOf(other)') =
                             IF comment'[other] # None THEN comment'[other].version ELSE 0
                        /\ {k[3] : k \in EventsOf(other)'} =
                             IF comment'[other] # None THEN 1 .. comment'[other].version ELSE {}
      BY DEF EveryVersionRecordedOnce, EventsOf, Exists
    <3>1. CASE other = id
      BY <1>3, <2>4, <2>5, <2>6, <3>1
    <3>2. CASE other # id
      BY <2>2, <3>2 DEF IInv, CommentsInv, EveryVersionRecordedOnce, EventsOf, Exists
    <3> QED  BY <3>1, <3>2
  <2>8. \A other \in CommentId : IsFiniteSet(EventsOf(other)')
    BY <2>2, <2>4 DEF IInv, CommentsInv
  <2> QED  BY <2>1, <2>7, <2>8 DEF CommentsInv
<1>13. LocksInv'
  BY <1>0 DEF IInv, LocksInv, Release, Open, Members, collaborationVars
<1> QED  BY <1>5, <1>8, <1>10, <1>11, <1>12, <1>13 DEF IInv, key

\* What the step of a comment call promises about the notices it sends.
MentionTold ==
  \A id \in CommentId : \A u \in MentionedIn(id)' \ MentionedIn(id) :
    <<"mention", "in_app">> \in preference[u] =>
      \E n \in inbox' \ inbox : n.to = u /\ n.kind = "mention" /\ n.key[2] = id

MembersTold ==
  \A n \in inbox' \ inbox : n.kind \in SelectableKind /\ ~n.read => n.to \in Members(TheRoom)

\* The members that a call has locked are users, and the members of the room.
LEMMA LockedAreMembers ==
  ASSUME IInv, NEW u \in User, Open(u)
  PROVE  access[u] = Members(TheRoom) /\ access[u] \subseteq User
BY DEF IInv, LocksInv, Members

\* Mentions can be switched off, other kinds of notice are no mentions.
LEMMA MentionPreference ==
  ASSUME NEW u \in User, <<"mention", "in_app">> \in preference[u]
  PROVE  "in_app" \in snapshot_preferences(u, "mention")
BY DEF snapshot_preferences, AlwaysInApp, Channel

\* Effects reach the recipients they are planned for.
LEMMA EffectFacts ==
  ASSUME NEW kind \in Kind, NEW recipients \in SUBSET User
  PROVE  /\ Effects(kind, recipients) \subseteq [to : User, kind : Kind]
         /\ \A f \in Effects(kind, recipients) : f.to \in recipients
         /\ \A v \in recipients : \E f \in Effects(kind, recipients) : f.to = v /\ f.kind = kind
<1> DEFINE effect(v) == [to |-> v, kind |-> kind]
<1>1. \A v \in recipients : effect(v).to = v /\ effect(v).kind = kind
                            /\ effect(v) \in [to : User, kind : Kind]
  OBVIOUS
<1>2. Effects(kind, recipients) = {effect(v) : v \in recipients}
  BY DEF Effects
<1> HIDE DEF effect
<1> QED  BY <1>1, <1>2

\* A new comment: its mentions are told, and only members hear of it.
LEMMA CreateKeeps ==
  ASSUME IInv, NEW u \in User, NEW q \in RequestId, NEW body \in Body, NEW mentions \in SUBSET User,
         create(u, q, body, mentions)
  PROVE  IInv' /\ MentionTold /\ MembersTold
<1> DEFINE id == <<u, q>>
           row == [body |-> body, mentions |-> mentions, version |-> 1, deleted |-> FALSE]
           effects == CreateEffects(u, mentions)
<1>1. /\ id \in CommentId
      /\ Open(u)
      /\ mentions \subseteq access[u] \ {u}
      /\ ~Exists(id)
      /\ comment' = [comment EXCEPT ![id] = row]
      /\ Record({Entry(CommentKey(id, row.version, "created"), effects)})
      /\ Release(u)
      /\ UNCHANGED collaborationVars
  BY DEF create, Mentionable, CommentId, Exists
<1>2. row \in Comment /\ row.version = 0 + 1 /\ row.mentions = mentions
  <2>1. body \in Body \cup {NoText} /\ 1 \in Nat /\ FALSE \in BOOLEAN /\ 1 = 0 + 1
    OBVIOUS
  <2> QED  BY <2>1 DEF Comment
<1>3. access[u] = Members(TheRoom) /\ access[u] \subseteq User
  BY <1>1, LockedAreMembers
<1>4. "mention" \in Kind /\ "comment" \in Kind
  BY DEF Kind, SelectableKind
<1>5. /\ effects \in SUBSET [to : User, kind : Kind]
      /\ \A f \in effects : f.to \in access[u]
      /\ \A v \in mentions : \E f \in effects : f.to = v /\ f.kind = "mention"
  <2> DEFINE others == access[u] \ (mentions \cup {u})
  <2>1. others \in SUBSET User /\ others \subseteq access[u]
    BY <1>3
  <2>2. effects = Effects("mention", mentions) \cup Effects("comment", others)
    BY DEF CreateEffects
  <2> HIDE DEF others, effects
  <2> QED  BY <1>1, <1>4, <2>1, <2>2, EffectFacts
<1> HIDE DEF id, row, effects
<1>6. row.version = (IF Exists(id) THEN comment[id].version ELSE 0) + 1
  BY <1>1, <1>2
<1>7. /\ IInv'
      /\ \A n \in inbox' \ inbox : \E f \in effects : n.to = f.to /\ n.kind = f.kind
      /\ \A f \in effects :
           "in_app" \in snapshot_preferences(f.to, f.kind) =>
             \E n \in inbox' \ inbox : n.to = f.to /\ n.kind = f.kind /\ n.key[2] = id
  <2>1. Writes(u, id, row, "created", effects)
    BY <1>1, <1>2, <1>5, <1>6 DEF Writes
  <2> QED  BY <1>1, <2>1, WriteKeepsIInv
<1>8. MembersTold
  BY <1>3, <1>5, <1>7 DEF MembersTold
<1>9. MentionTold
  <2> SUFFICES ASSUME NEW other \in CommentId, NEW v \in MentionedIn(other)' \ MentionedIn(other),
                      <<"mention", "in_app">> \in preference[v]
               PROVE  \E n \in inbox' \ inbox : n.to = v /\ n.kind = "mention" /\ n.key[2] = other
    BY DEF MentionTold
  <2>1. other = id /\ v \in mentions
    BY <1>1, <1>2 DEF IInv, CommentsInv, MentionedIn, Exists
  <2>2. PICK f \in effects : f.to = v /\ f.kind = "mention"
    BY <1>5, <2>1
  <2>3. v \in User
    BY <2>1
  <2>4. "in_app" \in snapshot_preferences(f.to, f.kind)
    BY <2>2, <2>3, MentionPreference
  <2> QED  BY <1>7, <2>1, <2>2, <2>4
<1> QED  BY <1>7, <1>8, <1>9

\* An edit: whoever is mentioned anew is told.
LEMMA UpdateKeeps ==
  ASSUME IInv, NEW u \in User, NEW id \in CommentId, NEW body \in Body, NEW mentions \in SUBSET User,
         update(u, id, body, mentions)
  PROVE  IInv' /\ MentionTold /\ MembersTold
<1> DEFINE row == [comment[id] EXCEPT !.body = body, !.mentions = mentions,
                                      !.version = comment[id].version + 1]
           fresh == mentions \ comment[id].mentions
           effects == Effects("mention", fresh)
<1>1. /\ Open(u)
      /\ mentions \subseteq access[u] \ {u}
      /\ Exists(id)
      /\ comment' = [comment EXCEPT ![id] = row]
      /\ Record({Entry(CommentKey(id, comment[id].version + 1, "updated"), effects)})
      /\ Release(u)
      /\ UNCHANGED collaborationVars
  BY DEF update, Mentionable, Exists, NextVersion
<1>2. comment[id] \in Comment
  BY <1>1 DEF IInv, CommentsInv, Exists
<1>3. row \in Comment /\ row.version = comment[id].version + 1 /\ row.mentions = mentions
  <2>1. body \in Body \cup {NoText} /\ comment[id].version \in Nat /\ comment[id].version + 1 \in Nat
    BY <1>2 DEF Comment
  <2> QED  BY <1>2, <2>1 DEF Comment
<1>4. access[u] = Members(TheRoom) /\ access[u] \subseteq User
  BY <1>1, LockedAreMembers
<1>5. /\ effects \in SUBSET [to : User, kind : Kind]
      /\ \A f \in effects : f.to \in access[u]
      /\ \A v \in fresh : \E f \in effects : f.to = v /\ f.kind = "mention"
  <2>1. "mention" \in Kind
    BY DEF Kind, SelectableKind
  <2>2. fresh \in SUBSET User /\ fresh \subseteq access[u]
    BY <1>1
  <2> HIDE DEF fresh
  <2> QED  BY <2>1, <2>2, EffectFacts
<1>6. row.version = (IF Exists(id) THEN comment[id].version ELSE 0) + 1
  BY <1>1, <1>3
<1> HIDE DEF row, effects
<1>7. /\ IInv'
      /\ \A n \in inbox' \ inbox : \E f \in effects : n.to = f.to /\ n.kind = f.kind
      /\ \A f \in effects :
           "in_app" \in snapshot_preferences(f.to, f.kind) =>
             \E n \in inbox' \ inbox : n.to = f.to /\ n.kind = f.kind /\ n.key[2] = id
  <2>1. Record({Entry(CommentKey(id, row.version, "updated"), effects)})
    BY <1>1, <1>3
  <2>2. Writes(u, id, row, "updated", effects)
    BY <1>1, <1>3, <1>5, <1>6, <2>1 DEF Writes
  <2> QED  BY <2>2, WriteKeepsIInv
<1>8. MembersTold
  BY <1>4, <1>5, <1>7 DEF MembersTold
<1>9. MentionTold
  <2> SUFFICES ASSUME NEW other \in CommentId, NEW v \in MentionedIn(other)' \ MentionedIn(other),
                      <<"mention", "in_app">> \in preference[v]
               PROVE  \E n \in inbox' \ inbox : n.to = v /\ n.kind = "mention" /\ n.key[2] = other
    BY DEF MentionTold
  <2>1. other = id /\ v \in fresh
    BY <1>1, <1>3 DEF IInv, CommentsInv, MentionedIn, Exists
  <2>2. PICK f \in effects : f.to = v /\ f.kind = "mention"
    BY <1>5, <2>1
  <2>3. v \in User
    BY <2>1
  <2>4. "in_app" \in snapshot_preferences(f.to, f.kind)
    BY <2>2, <2>3, MentionPreference
  <2> QED  BY <1>7, <2>1, <2>2, <2>4
<1> QED  BY <1>7, <1>8, <1>9

\* A deletion keeps the mentions and tells nobody.
LEMMA DeleteKeeps ==
  ASSUME IInv, NEW u \in User, NEW id \in CommentId, delete(u, id)
  PROVE  IInv' /\ MentionTold /\ MembersTold
<1> DEFINE row == [comment[id] EXCEPT !.body = NoText, !.deleted = TRUE,
                                      !.version = comment[id].version + 1]
           effects == {}
<1>1. /\ Exists(id)
      /\ comment' = [comment EXCEPT ![id] = row]
      /\ Record({Entry(CommentKey(id, comment[id].version + 1, "deleted"), effects)})
      /\ Release(u)
      /\ UNCHANGED collaborationVars
  BY DEF delete, Exists, NextVersion
<1>2. comment[id] \in Comment
  BY <1>1 DEF IInv, CommentsInv, Exists
<1>3. row \in Comment /\ row.version = comment[id].version + 1 /\ row.mentions = comment[id].mentions
  <2>1. comment[id].version \in Nat /\ comment[id].version + 1 \in Nat
    BY <1>2 DEF Comment
  <2> QED  BY <1>2, <2>1 DEF Comment
<1>4. row.version = (IF Exists(id) THEN comment[id].version ELSE 0) + 1
  BY <1>1, <1>3
<1>5. effects \in SUBSET [to : User, kind : Kind] /\ \A f \in effects : FALSE
  OBVIOUS
<1> HIDE DEF row, effects
<1>6. /\ IInv'
      /\ \A n \in inbox' \ inbox : \E f \in effects : n.to = f.to /\ n.kind = f.kind
  <2>1. Record({Entry(CommentKey(id, row.version, "deleted"), effects)})
    BY <1>1, <1>3
  <2>2. Writes(u, id, row, "deleted", effects)
    BY <1>1, <1>3, <1>4, <1>5, <2>1 DEF Writes
  <2> QED  BY <2>2, WriteKeepsIInv
<1>7. MembersTold
  BY <1>5, <1>6 DEF MembersTold
<1>8. MentionTold
  <2>1. \A other \in CommentId : MentionedIn(other)' \subseteq MentionedIn(other)
    BY <1>1, <1>3 DEF IInv, CommentsInv, MentionedIn, Exists
  <2> QED  BY <2>1 DEF MentionTold
<1> QED  BY <1>6, <1>7, <1>8

\* A call begins with the members of the moment, or ends without a change.
LEMMA TransactionKeeps ==
  ASSUME IInv, NEW u \in User, require_membership(u) \/ GiveUp(u)
  PROVE  IInv' /\ UNCHANGED <<inbox, comment>>
<1>1. UNCHANGED <<collaborationVars, ledger, inbox, comment>>
  BY DEF require_membership, GiveUp, vars, activityVars
<1> DEFINE K == {}
<1>2. ledger' = ledger \cup K /\ \A k \in K : k[1] # "room" /\ k[1] # "comment"
  BY <1>1
<1> HIDE DEF K
<1>3. RoomsInv' /\ CommentsInv'
  BY <1>1, <1>2, ElsewhereKeepsRooms, ElsewhereKeepsComments DEF IInv
<1>4. NoticesInv'
  BY <1>1 DEF IInv, NoticesInv, Notice
<1>5. LocksInv'
  <2>1. Members(TheRoom)' = Members(TheRoom) /\ Members(TheRoom) \in SUBSET User
    BY <1>1 DEF Members, collaborationVars
  <2>2. CASE require_membership(u)
    BY <2>1, <2>2 DEF require_membership, IInv, LocksInv, Open
  <2>3. CASE GiveUp(u)
    BY <2>1, <2>3 DEF GiveUp, Release, IInv, LocksInv, Open
  <2> QED  BY <2>2, <2>3
<1> QED  BY <1>1, <1>3, <1>4, <1>5 DEF IInv

-------------------------------------------------------------------------------
(* The specification *)

\* What is recorded of friendships, rooms, sessions and preferences sends none
\* of the notices that comments send.
LEMMA OtherNotices ==
  ASSUME NoticesInv, NEW entries, Record(entries),
         \A e \in entries : e.effects \subseteq [to : User, kind : AlwaysInApp]
  PROVE  \A n \in inbox' \ inbox : n.kind \notin SelectableKind
<1>1. \A e \in entries : e.effects \subseteq [to : User, kind : Kind]
  BY DEF Kind
<1>2. \A n \in inbox' \ inbox : \E e \in entries : \E f \in e.effects : n.kind = f.kind
  BY <1>1, RecordFacts
<1>3. \A e \in entries : \A f \in e.effects : f.kind \in AlwaysInApp
  OBVIOUS
<1> QED  BY <1>2, <1>3 DEF AlwaysInApp, SelectableKind

\* A change of a room sends what an admission sends, at most.
LEMMA RoomNotices ==
  ASSUME IInv, RoomNext
  PROVE  \A n \in inbox' \ inbox : n.kind \notin SelectableKind
<1> DEFINE Quiet(entries) == \A e \in entries : e.effects \subseteq [to : User, kind : AlwaysInApp]
<1>1. \/ inbox' = inbox
      \/ \E entries : Record(entries) /\ Quiet(entries)
  <2>1. \A key : Quiet({Entry(key, {})})
    BY DEF Entry
  <2>2. \A key : \A v \in User : Quiet({Entry(key, {[to |-> v, kind |-> "room_member_added"]})})
    BY DEF Entry, AlwaysInApp
  <2> HIDE DEF Quiet
  <2>3. ASSUME NEW u \in User, NEW r \in Room, create_room(u, r)
        PROVE  \E entries : Record(entries) /\ Quiet(entries)
    BY <2>1, <2>3 DEF create_room
  <2>4. ASSUME NEW u \in User, NEW v \in User, NEW r \in Room, create_room_invitation(u, r, v)
        PROVE  \/ inbox' = inbox
               \/ \E entries : Record(entries) /\ Quiet(entries)
    BY <2>2, <2>4 DEF create_room_invitation
  <2>5. ASSUME NEW u \in User, NEW r \in Room, create_talk_session(u, r)
        PROVE  \E entries : Record(entries) /\ Quiet(entries)
    BY <2>1, <2>5 DEF create_talk_session
  <2>6. ASSUME NEW u \in User, NEW r \in Room, archive_talk_session(u, r)
        PROVE  \E entries : Record(entries) /\ Quiet(entries)
    BY <2>1, <2>6 DEF archive_talk_session
  <2>7. ASSUME NEW u \in User, NEW r \in Room, leave_room(u, r)
        PROVE  \E entries : Record(entries) /\ Quiet(entries)
    BY <2>1, <2>7 DEF leave_room
  <2> QED  BY <2>3, <2>4, <2>5, <2>6, <2>7 DEF RoomNext
<1> QED  BY <1>1, OtherNotices DEF IInv

\* A friendship, too; and a notice that is read is not unread.
LEMMA PeopleNotices ==
  ASSUME IInv, PeopleNext
  PROVE  \A n \in inbox' \ inbox : n.kind \notin SelectableKind \/ n.read
<1> DEFINE Quiet(entries) == \A e \in entries : e.effects \subseteq [to : User, kind : AlwaysInApp]
<1>1. ASSUME NEW u \in User, NEW v \in User, create_friend_request(u, v)
      PROVE  \E entries : Record(entries) /\ Quiet(entries)
  <2> DEFINE entries == {Entry(<<"friendship", {u, v}, "requested", u>>, {}),
                         Entry(<<"friendship", {u, v}, "requested", v>>,
                               {[to |-> v, kind |-> "friend_request"]})}
  <2>1. Quiet(entries)
    BY DEF Entry, AlwaysInApp
  <2>2. Record(entries)
    BY <1>1 DEF create_friend_request
  <2> HIDE DEF entries
  <2> QED  BY <2>1, <2>2
<1>2. ASSUME NEW u \in User, NEW p \in Pair, NEW status, respond_to_friend_request(u, p, status)
      PROVE  \E entries : Record(entries) /\ Quiet(entries)
  <2> DEFINE entries == {Entry(<<"friendship", p, status, v>>, {}) : v \in p}
  <2>1. Quiet(entries)
    BY DEF Entry
  <2>2. Record(entries)
    BY <1>2 DEF respond_to_friend_request
  <2> HIDE DEF entries
  <2> QED  BY <2>1, <2>2
<1>3. ASSUME NEW u \in User, MarkRead(u) \/ MarkAllRead(u)
      PROVE  \A n \in inbox' \ inbox : n.read
  BY <1>3, ReadingKeepsNotices DEF IInv
<1>4. \/ \E entries : Record(entries) /\ Quiet(entries)
      \/ \A n \in inbox' \ inbox : n.read
  <2> HIDE DEF Quiet
  <2> QED  BY <1>1, <1>2, <1>3 DEF PeopleNext
<1> QED  BY <1>4, OtherNotices DEF IInv

\* No step breaks the invariant, and none tells the wrong people.
LEMMA NextKeeps ==
  ASSUME IInv, CommentsNext
  PROVE  IInv' /\ MentionTold /\ MembersTold
<1>1. ASSUME UNCHANGED comment
      PROVE  MentionTold
  BY <1>1 DEF MentionTold, MentionedIn, Exists
<1>2. ASSUME NEW u \in User, require_membership(u) \/ GiveUp(u)
      PROVE  IInv' /\ MentionTold /\ MembersTold
  BY <1>1, <1>2, TransactionKeeps DEF MembersTold
<1>3. ASSUME RoomNext, ~RoomLocked, UNCHANGED commentVars
      PROVE  IInv' /\ MentionTold /\ MembersTold
  <2>1. IInv'
    BY <1>3, CreateRoomKeepsIInv, InvitationKeepsIInv, SessionKeepsIInv, LeaveRoomKeepsIInv DEF RoomNext
  <2> QED  BY <1>1, <1>3, <2>1, RoomNotices DEF MembersTold, commentVars
<1>4. ASSUME PeopleNext, UNCHANGED commentVars
      PROVE  IInv' /\ MentionTold /\ MembersTold
  <2>1. IInv'
    BY <1>4, RequestKeepsIInv, AnswerKeepsIInv, ReadingKeepsIInv DEF PeopleNext
  <2> QED  BY <1>1, <1>4, <2>1, PeopleNotices DEF MembersTold, commentVars
<1>5. ASSUME NEW u \in User, NEW values, UpdatePreferences(u, values),
             UNCHANGED <<collaborationVars, commentVars>>
      PROVE  IInv' /\ MentionTold /\ MembersTold
  <2> DEFINE entries == {Entry(<<"preferences", u, PreferencesVersion(u) + 1>>, {})}
  <2>1. \A e \in entries : e.effects \subseteq [to : User, kind : AlwaysInApp]
    BY DEF Entry
  <2>2. Record(entries)
    BY <1>5 DEF UpdatePreferences
  <2> HIDE DEF entries
  <2>3. MembersTold
    BY <2>1, <2>2, OtherNotices DEF IInv, MembersTold
  <2> QED  BY <1>1, <1>5, <2>3, PreferencesKeepIInv DEF commentVars
<1> QED  BY <1>2, <1>3, <1>4, <1>5, CreateKeeps, UpdateKeeps, DeleteKeeps DEF CommentsNext

\* Nothing is there yet.
LEMMA InitIInv ==
  ASSUME CommentsInit
  PROVE  IInv
<1>1. RoomsInv
  <2>1. TypeOK
    BY DEF CommentsInit, Init, TypeOK, Membership
  <2>2. RoomHasItsHost /\ MembersBefriended
    BY NoneAssumption DEF NoneAssumption, CommentsInit, Init, RoomHasItsHost, MembersBefriended
  <2>3. AdmissionsRecorded
    BY NoneAssumption DEF NoneAssumption, CommentsInit, Init, ActivityInit, AdmissionsRecorded
  <2> QED  BY <2>1, <2>2, <2>3 DEF RoomsInv
<1>2. CommentsInv
  <2>1. \A id \in CommentId : EventsOf(id) = {} /\ ~Exists(id)
    BY DEF CommentsInit, Init, ActivityInit, EventsOf, Exists
  <2>2. {k[3] : k \in {}} = {}
    OBVIOUS
  <2>3. \A id \in CommentId : IsFiniteSet(EventsOf(id)) /\ Cardinality(EventsOf(id)) = 0
    BY <2>1, FS_EmptySet
  <2>4. EveryVersionRecordedOnce
    BY <2>1, <2>2, <2>3 DEF EveryVersionRecordedOnce, EventsOf
  <2> QED  BY <2>3, <2>4 DEF CommentsInv, CommentsInit
<1>3. NoticesInv /\ LocksInv
  BY DEF CommentsInit, Init, ActivityInit, NoticesInv, LocksInv, Open
<1> QED  BY <1>1, <1>2, <1>3 DEF IInv

\* The invariant holds throughout.
LEMMA InvariantHolds == CommentsSpec => []IInv
<1>1. CommentsInit => IInv
  BY InitIInv
<1>2. IInv /\ [CommentsNext]_allVars => IInv'
  <2>1. ASSUME IInv, UNCHANGED allVars
        PROVE  IInv'
    <3>1. UNCHANGED <<collaborationVars, ledger, inbox, commentVars>>
      BY <2>1 DEF allVars, vars, activityVars
    <3> DEFINE K == {}
    <3>2. ledger' = ledger \cup K /\ \A k \in K : k[1] # "room" /\ k[1] # "comment"
      BY <3>1
    <3> HIDE DEF K
    <3>3. RoomsInv' /\ CommentsInv'
      BY <2>1, <3>1, <3>2, ElsewhereKeepsRooms, ElsewhereKeepsComments DEF IInv, commentVars
    <3>4. NoticesInv'
      BY <2>1, <3>1 DEF IInv, NoticesInv, Notice
    <3>5. LocksInv'
      BY <2>1, <3>1, ElsewhereKeepsLocks DEF IInv, commentVars, collaborationVars
    <3> QED  BY <3>3, <3>4, <3>5 DEF IInv
  <2> QED  BY <2>1, NextKeeps
<1> QED  BY <1>1, <1>2, PTL DEF CommentsSpec

\* However requests, answers, invitations and departures interleave with comment
\* calls, whoever is in a room is its host or an accepted friend of its host.
THEOREM MembersAreFriends == CommentsSpec => []MembersAreFriendsOfHost
<1>1. IInv => MembersAreFriendsOfHost
  BY DEF IInv, RoomsInv, RoomHasItsHost, MembersBefriended, MembersAreFriendsOfHost, Members
<1> QED  BY <1>1, InvariantHolds, PTL

\* The ledger alone tells who is in a room, so that no admission and no departure
\* is lost as a duplicate of an earlier one.
THEOREM LedgerIsComplete == CommentsSpec => []LedgerTellsMembership
<1>1. IInv => LedgerTellsMembership
  <2> SUFFICES ASSUME IInv, NEW r \in Room, NEW u \in User
               PROVE  (u \in Members(r) /\ u # owner[r]) <=>
                        (<<"room", r, "added", u>> \in ledger /\ <<"room", r, "left", u>> \notin ledger)
    BY DEF LedgerTellsMembership
  <2>1. u \in Members(r) /\ u # owner[r] <=> membership[r][u] = "member"
    BY DEF IInv, RoomsInv, RoomHasItsHost, MembersBefriended, Friends, Members
  <2>2. membership[r][u] = "member" <=> Added(r, u) \in ledger /\ Left(r, u) \notin ledger
    BY DEF IInv, RoomsInv, AdmissionsRecorded
  <2> QED  BY <2>1, <2>2 DEF Added, Left
<1> QED  BY <1>1, InvariantHolds, PTL

\* Every version a comment ever had is in the ledger, under one event: no edit or
\* deletion is swallowed as a duplicate, whoever edits, deletes or retries.
THEOREM VersionsAreRecorded == CommentsSpec => []EveryVersionRecordedOnce
<1>1. IInv => EveryVersionRecordedOnce
  BY DEF IInv, CommentsInv
<1> QED  BY <1>1, InvariantHolds, PTL

\* A mention reaches the member it names in the transaction that makes it, and no
\* notice of a comment reaches anyone who is not in the room at that moment.
THEOREM MentionsAreDelivered == CommentsSpec => MentionsReachMembers
<1>1. IInv /\ [CommentsNext]_allVars => [MentionTold]_allVars
  BY NextKeeps
<1>2. IInv /\ [CommentsNext]_allVars => [MembersTold]_allVars
  BY NextKeeps
<1>3. CommentsSpec => [][MentionTold]_allVars
  BY <1>1, InvariantHolds, PTL DEF CommentsSpec
<1>4. CommentsSpec => [][MembersTold]_allVars
  BY <1>2, InvariantHolds, PTL DEF CommentsSpec
<1>5. CommentsSpec => NewMentionIsTold
  BY <1>3, PTL DEF NewMentionIsTold, MentionTold
<1>6. CommentsSpec => ToldAreMembers
  BY <1>4, PTL DEF ToldAreMembers, MembersTold
<1> QED  BY <1>5, <1>6 DEF MentionsReachMembers
===============================================================================
