SPECIFICATION FairRSpec
CONSTANTS
  Keys = {k1}
  Values = {v1}
  None = None
  Callers = {p1}
  Cleaners = {c1, c2}
  TTLs = {0}
  MaxTTL = 0
  MaxLag = 9
  MaxTime = 1
  Ops <- AllOps
INVARIANT TypeOK
PROPERTIES ExpiredIsSwept CancelledReturns
