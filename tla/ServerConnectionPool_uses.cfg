SPECIFICATION FairSpec
CONSTANTS
  Conns = {x1, x2, x3, x4, x5}
  Callers = {a1, a2, a3}
  None = None
  MinSize = 2
  MaxSize = 2
  LoadPercent = 80
INVARIANTS
  PoolAccounted
PROPERTIES
  PoolHeals
