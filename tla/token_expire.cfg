SPECIFICATION TSpec
CONSTANTS
  u1 = u1
  Hashes = {h1}
  Users = {u1}
  Owner <- OneOwner
  Procs = {p1, p2}
  None = None
  Expiries <- SoonAndLate
  Textual = FALSE
  Second = 2
  Life = 1
  MaxLag = 1
  MaxTime = 4
  Ops = {"Valid", "CreateToken", "Expire"}
SYMMETRY Sym
INVARIANT ExpireRejects
