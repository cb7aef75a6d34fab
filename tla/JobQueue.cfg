\* Two workers compete for a job that its worker requeues and for one that a
\* user may retry.  Four generations: an expired claim, a failed one, and two
\* that may decide.
SPECIFICATION FairSpec
CONSTANTS
  j1 = j1
  j2 = j2
  w1 = w1
  w2 = w2
  Job = {j1, j2}
  Worker = {w1, w2}
  Lane <- SharedLanes
  AutoRequeue = {j1}
  Revivable = {j2}
  LeaseTicks = 2
  MaxGeneration = 4
INVARIANTS
  AtMostOneHolder
  CompletionNeverBlocked
  ResultMatchesSuccess
  AttemptLogMatchesLease
PROPERTIES
  DecidedInTime
  ImplementsLogicalJob
  EventuallyDecided
