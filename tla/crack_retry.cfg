CONSTANTS
  MaxAttempts <- MCMaxAttempts
  P <- MCP
  EarlierTests <- MCEarlierTests
  None = None
SPECIFICATION FairSpec
INVARIANTS
  TypeOK
  VerdictReflectsAttempts
  BootsOwnScript
PROPERTIES
  CrackTerminates
