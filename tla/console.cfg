SPECIFICATION ConsoleSpec
CONSTANTS
  Users = {u1, u2, u3}
  Founder = u1
  Invites = {i1, i2}
  Requests = {c1, c2}
  RequestMax = 5
  Seats = 2
  Failing = TRUE
  None = None
  RowCount = 3
  PageLimit = 1
  Scores = {0, 1}
  Windows = {1, 3}
  ChangeMax = 1
  NoRow = NoRow
  Staff = {s1}
  Acts = {c1, c2}
  TokenLife = 2
  ChangesMax = 3
  Caps = {k1}
  Nobody = Nobody
SYMMETRY Symmetry
CHECK_DEADLOCK FALSE
INVARIANTS MembershipInv PagesAreExplained TrailInv
