SPECIFICATION RSpec
CONSTANTS
  Keys = {k1}
  Values = {v1, v2}
  None = None
  Callers = {p1, p2}
  Cleaners = {c1}
  TTLs = {1}
  MaxTTL = 1
  MaxLag = 1
  MaxTime = 4
  Ops <- CacheOps
SYMMETRY Sym
INVARIANTS BoundedLife RaceFreeCoherent
PROPERTIES ImplementsCache RaceFreeKept
