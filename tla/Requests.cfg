\* Two browsers of one account and one of another; two sign-ins.
SPECIFICATION Spec
CONSTANTS
  c1 = c1
  c2 = c2
  c3 = c3
  None = None
  Client = {c1, c2, c3}
  Account <- MCAccount
  MaxSessions = 2
INVARIANTS
  LastLoginWins
  WritesFromLiveSessions
CHECK_DEADLOCK FALSE
