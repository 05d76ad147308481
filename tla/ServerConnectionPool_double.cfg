SPECIFICATION Spec
CONSTANTS
  Conns = {x1, x2, x3, x4}
  Callers = {a1, a2}
  None = None
  MinSize = 1
  MaxSize = 2
  LoadPercent = 80
INVARIANT ExclusiveHolders
