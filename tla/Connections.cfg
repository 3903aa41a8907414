SPECIFICATION FairSpec
CONSTANTS
  Base = 16
  Threads = {t1, t2}
  Handles = {h1, h2}
  Devices <- MCDevices
  Local <- MCLocal
  MaxConns = 2
  Backlog = 2
  Port = 3
  Targets <- RfcommTargets
  None = None
INVARIANTS
  TypeOK
  ConnectionsAreKept
  AddressesAreTrue
PROPERTIES
  Implements
  AcceptReturns
CHECK_DEADLOCK FALSE
