SPECIFICATION Spec
CONSTANTS
  t1 = t1
  t2 = t2
  t3 = t3
  Procs = {p1, p2, p3}
  Releases <- SomeReleases
  Tables = {t1, t2, t3}
  Needs <- SomeNeeds
  None = None
SYMMETRY Sym
INVARIANTS TypeOK RecordedIsMigrated ServesMigrated NumericOrder
