SPECIFICATION Spec
CONSTANTS
  Platforms <- MCPlatforms
  Devices = {d1, d2}
  MaxAnswers = 4
  Word = 3
  Header = 6
  Sizes <- MCSizes
  Octet = 4
  Results = 4
INVARIANTS
  TypeOK
  EachAnswerOnce
  OnlyEarlyReturnsLeak
PROPERTIES
  Terminates
