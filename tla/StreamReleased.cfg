SPECIFICATION FairSpec
CONSTANTS
  Threads = {t1, t2}
  Handles = {h1}
  Buffers = {1}
  MaxBytes = 1
  Window = 1
  None = None
  Systems = {"unix", "windows"}
PROPERTIES
  ReadersReleased
CHECK_DEADLOCK FALSE
