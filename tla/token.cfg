SPECIFICATION TSpec
CONSTANTS
  u1 = u1
  Hashes = {h1, h2}
  Users = {u1}
  Owner <- OneOwner
  Procs = {p1, p2}
  None = None
  Expiries <- Abroad
  Textual = TRUE
  Second = 2
  Life = 1
  MaxLag = 0
  MaxTime = 2
  Ops <- AllOps
SYMMETRY SymHashes
INVARIANTS BoundedStaleness QuietCoherent TypeOK
