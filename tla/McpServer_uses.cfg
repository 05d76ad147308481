SPECIFICATION FairSpec
CONSTANTS
  Clients = {c1, c2}
  Calls = {k1, k2}
  None = None
  MaxConnections = 1
INVARIANTS
  ClientsAccounted
PROPERTIES
  LogoutLast
  LeavingEnds
CHECK_DEADLOCK FALSE
