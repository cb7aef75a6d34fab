\* Three sources, summarised by two threads; answers of up to two items or findings.
SPECIFICATION GroundingSpec
CONSTANTS
  r1 = r1
  r2 = r2
  r3 = r3
  a1 = a1
  a2 = a2
  a3 = a3
  a4 = a4
  old = old
  u1 = u1
  u1slash = u1slash
  u2 = u2
  Rows <- MCRows
  Revisions <- MCRevisions
  Databases <- MCDatabases
  Items <- MCItems
  Findings <- MCFindings
  MaxAnswer = 2
  Url <- MCUrl
  Page <- MCPage
  UnsafeUrl = {u2}
  MaxAnchors = 3
  Budget = 5
  MaxCalls = 3
  MaxItems = 3
  PoolSize = 2
  Users = {"member", "stranger"}
  Members = {"member"}
INVARIANTS
  DocumentsAreRepresented
  ReadersReachTheirSources
  NothingIsRefused
  FirstFailureDecides
  OnlySearchedPagesAreCited
