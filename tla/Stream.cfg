SPECIFICATION Spec
CONSTANTS
  Threads = {t1, t2}
  Handles = {h1, h2}
  Buffers = {1, 2}
  MaxBytes = 3
  Window = 1
  None = None
  Systems = {"unix", "windows"}
SYMMETRY Symmetry
INVARIANTS
  TypeOK
  GivenOnce
  EndHasCause
PROPERTY EndsAreFinal
CHECK_DEADLOCK FALSE
