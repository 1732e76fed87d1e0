CONSTANTS
  MaxAttempts <- MCMaxAttempts
  P <- MCP
  EarlierTests <- MCEarlierTests
  None = None
SPECIFICATION FairSpec
INVARIANT TimeoutNeverErrors
