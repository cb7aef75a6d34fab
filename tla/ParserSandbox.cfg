SPECIFICATION FairSandboxSpec
CONSTANTS
  MaxBlocks = 2
  MaxBlockChars = 2
  MaxTotalChars = 4
  Limit = 2
  Envelope <- MCEnvelope
INVARIANTS
  VerdictIsFair
  OnlyTheExactLimitIsLost
  SurvivorOnlyFromStartup
  ProtocolsAgree
PROPERTIES
  ReturnsUnlessHeld
