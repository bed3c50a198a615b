SPECIFICATION FairSpec
CONSTANTS
  e1 = e1
  e2 = e2
  e3 = e3
  Empty = Empty
  None = None
  Procs = {p1, p2, p3}
  Events = {e1, e2, Empty}
  Length = 1
  Faults <- AllFaults
INVARIANTS SendsOnOpen NothingLost
PROPERTIES CallsReturn ClosedEnds
CHECK_DEADLOCK FALSE
