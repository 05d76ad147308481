SPECIFICATION FairSpec
CONSTANTS
  Connections = {n1, n2}
  Requests = {r1, r2}
  FailureThreshold = 2
  ResetTimeout = 2
  HalfOpenLimit = 1
  Reporters = TRUE
INVARIANTS
  SlotsAccounted
  TrippedIsOpen
PROPERTY
  OpenEnds
