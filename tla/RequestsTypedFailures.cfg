\* One browser: every failure of every route.
SPECIFICATION Spec
CONSTANTS
  c1 = c1
  c2 = c2
  c3 = c3
  None = None
  Client = {c1}
  Account <- MCAccount
  MaxSessions = 1
INVARIANTS
  TypedFailuresAreMapped
CHECK_DEADLOCK FALSE
