SPECIFICATION Spec
CONSTANTS
  u1 = u1
  Users = {u1}
  Families = {f1, f2}
  Tokens = {t1, t2, t3}
  Owner <- AllMine
  Requests = {c1, c2}
  Leeway = 0
  Ttl = 2
  Horizon = 2
  ResetMax = 1
  Failing = TRUE
  None = None
SYMMETRY SessionSymmetry
CHECK_DEADLOCK FALSE
INVARIANTS SessionInv SignedOutForGood
