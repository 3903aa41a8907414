SPECIFICATION FairSpec
CONSTANTS
  Timeouts <- MCTimeouts
  UnitsPerMs = 4
  CIntMax = 2
  Reasons = {"ECONNREFUSED", "EHOSTDOWN"}
  MaxLag = 3
INVARIANT ZeroTimeoutIsError
