\* Two users, one room and one comment of either.
SPECIFICATION CommentsSpec
CONSTANTS
  u1 = u1
  u2 = u2
  r1 = r1
  q1 = q1
  None = None
  User = {u1, u2}
  Room = {r1}
  TheRoom = r1
  RequestId = {q1}
  Body = {"b1", "b2"}
  MaxComments = 1
  MaxVersion = 3
  MaxChanges = 1
SYMMETRY UserSymmetry
INVARIANTS
  MembersAreFriendsOfHost
  LedgerTellsMembership
  EveryVersionRecordedOnce
PROPERTIES
  MentionsReachMembers
CHECK_DEADLOCK FALSE
