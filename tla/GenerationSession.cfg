\* Two epochs; the research jobs have two threads, those of an old and a new
\* orchestrator.
SPECIFICATION Spec
CONSTANTS
  summarizer = summarizer
  researcher = researcher
  Worker = {summarizer, researcher}
  LaneKinds <- OverlappingLanes
  MaxEpoch = 2
  MaxResearchAttempts = 2
  LeaseTicks = 1
  MaxGeneration = 3
INVARIANTS
  RunsAndJobsAgree
  SuggestedWhenComplete
PROPERTIES
  SuccessIsFinal
