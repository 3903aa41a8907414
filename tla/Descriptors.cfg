SPECIFICATION Spec
CONSTANTS
  Threads = {t1, t2}
  Handles = {h1, h2, h3}
  Fds = {d1, d2, d3}
  Files = {f1, f2, f3}
  None = None
  Targets <- MCTargets
SYMMETRY Symmetry
INVARIANTS
  TypeOK
  OwnershipIsSound
  NothingIsInherited
PROPERTIES
  NoSecondProbe
