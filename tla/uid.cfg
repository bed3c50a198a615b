SPECIFICATION FairSpec
CONSTANTS
  a = a
  b = b
  c = c
  Procs = {p1, p2}
  Ids = {a, b, c}
  Pool <- SmallPool
  Levels = 2
  Tries = 2
  Unknown = Unknown
  None = None
INVARIANTS Unique TypeOK
PROPERTY CallReturns
