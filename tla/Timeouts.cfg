SPECIFICATION TimeoutSpec
CONSTANTS
  NanosPerMicro = 2
  MicrosPerMilli = 2
  MillisPerSec = 2
  MicrosPerTick = 2
  U64Max = 7
  TimeMax = 3
  KernelMax = 2
  UlongMax = 6
  Platforms = {"unix", "windows"}
  Never = Never
INVARIANTS
  TimeoutTypeOK
  RefusedOrKept
PROPERTIES
  RestoringChangesNothing
  LongerIsNotShorter
