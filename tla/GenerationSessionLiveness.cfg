\* Liveness over two epochs.
SPECIFICATION FairSpec
CONSTANTS
  summarizer = summarizer
  researcher = researcher
  Worker = {summarizer, researcher}
  LaneKinds <- OneLaneEach
  MaxEpoch = 2
  MaxResearchAttempts = 2
  LeaseTicks = 1
  MaxGeneration = 3
PROPERTIES
  NoPermanentProcessing
