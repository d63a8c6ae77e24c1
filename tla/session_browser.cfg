SPECIFICATION BrowserSpec
CONSTANTS
  u1 = u1
  Users = {u1}
  Families = {f1, f2}
  Tokens = {t1, t2, t3}
  Owner <- AllMine
  Requests = {c1, c2}
  Leeway = 2
  Ttl = 4
  Horizon = 3
  ResetMax = 0
  Failing = TRUE
  Patience = 3
  None = None
SYMMETRY BrowserSymmetry
VIEW Seen
CONSTRAINT OneMissed
CHECK_DEADLOCK FALSE
INVARIANT BrowserInv
