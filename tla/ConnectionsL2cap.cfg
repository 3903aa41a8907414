SPECIFICATION Spec
CONSTANTS
  Base = 16
  Threads = {t1, t2}
  Handles = {h1, h2}
  Devices <- MCDevices
  Local <- MCLocal
  MaxConns = 2
  Backlog = 2
  Port = 3
  Targets <- L2capTargets
  None = None
INVARIANT DialsWhatWasAsked
CHECK_DEADLOCK FALSE
