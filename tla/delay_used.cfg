SPECIFICATION Spec
CONSTANTS
  Tokens = {t1}
  Procs = {p1}
  None = None
  Cleaners = {c1}
  Window = 2
  Grant = 3
  MaxLag = 1
  MaxTime = 8
  Attentive = TRUE
SYMMETRY Sym
INVARIANT UsedTokenStaysValid
