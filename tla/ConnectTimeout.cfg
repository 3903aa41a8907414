SPECIFICATION FairSpec
CONSTANTS
  Timeouts <- MCTimeouts
  UnitsPerMs = 4
  CIntMax = 2
  Reasons = {"ECONNREFUSED", "EHOSTDOWN"}
  MaxLag = 3
INVARIANTS
  TypeOK
  OutcomeIsTrue
  Punctual
  NoBusyWait
PROPERTIES
  Terminates
