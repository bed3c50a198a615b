SPECIFICATION FairSpec
CONSTANTS
  e1 = e1
  e2 = e2
  e3 = e3
  Empty = Empty
  None = None
  Procs = {p1, p2}
  Events = {e1, e2}
  Length = 1
  Faults = {"stop"}
PROPERTY CloseReturns
CHECK_DEADLOCK FALSE
