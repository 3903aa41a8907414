SPECIFICATION FairSpec
CONSTANTS
  Threads = {t1, t2}
  Errors = {"WSAEMFILE", "WSAENETDOWN"}
INVARIANTS
  TypeOK
  InitIsDone
  ErrorIsOwn
PROPERTIES
  CallsReturn
