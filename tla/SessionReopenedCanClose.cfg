\* Expected to be violated.
SPECIFICATION Spec
CONSTANTS
  t1 = t1
  f1 = f1
  w1 = w1
  w2 = w2
  Text = {t1}
  File = {f1}
  Worker = {w1, w2}
  MaxCurrent = 2
  MaxExtractionAttempts = 2
  MaxRevision = 2
  MaxEpoch = 2
  LeaseTicks = 1
  MaxGeneration = 3
INVARIANTS
  ReopenedCanClose
