\* Two epochs, two processes; a lease lasts one tick and a job has two attempts.
SPECIFICATION Spec
CONSTANTS
  w1 = w1
  w2 = w2
  host = host
  guest = guest
  kept = kept
  removed = removed
  Worker = {w1, w2}
  Member = {host, guest}
  Host = host
  Editor = {guest}
  Anchor = {kept, removed}
  Documents <- MCDocuments
  MaxShown = 2
  BlockAnchors = 3
  ParagraphLength = 8
  Sizes = {1, 3, 9}
  MaxDocument = 5
  Scores = {1, 2, 3}
  MaxEpoch = 2
  MaxAttempts = 2
  LeaseTicks = 1
  MaxGeneration = 2
  MaxWritten = 1
  MaxReviewed = 1
INVARIANTS
  OneExecution
  AnchorsBelongToReport
  DraftsQuoteTheirSources
  SourcesCompareSoundly
SYMMETRY Processes
