SPECIFICATION FairSpec
CONSTANTS
  MaxAddrs = 3
  Refusals = {"ECONNREFUSED", "EADDRINUSE"}
  Again = "EBADFD"
  NoAddress = "InvalidInput"
  Platforms <- MCPlatforms
INVARIANTS
  TypeOK
  OutcomeIsTrue
  AbandonedOnlyAfterSignal
PROPERTIES
  Implements
  Terminates
