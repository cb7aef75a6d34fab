\* Two uploads while two workers sweep the directory.
SPECIFICATION FairBlobSpec
CONSTANTS
  u1 = u1
  u2 = u2
  s1 = s1
  s2 = s2
  Upload = {u1, u2}
  Sweeper = {s1, s2}
INVARIANTS
  RevisionHasBlob
  SweepSparesUploads
PROPERTIES
  OrphansRemoved
