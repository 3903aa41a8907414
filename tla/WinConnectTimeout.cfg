SPECIFICATION FairSpec
CONSTANTS
  Timeouts <- MCTimeouts
  UnitsPerMicro = 3
  MicrosPerSecond = 2
  CLongWidth = 4
  Reasons = {"WSAECONNREFUSED", "WSAETIMEDOUT"}
  MaxLag = 3
INVARIANTS
  TypeOK
  OutcomeIsTrue
  Punctual
PROPERTIES
  Terminates
