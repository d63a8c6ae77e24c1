SPECIFICATION PeopleSpec
CONSTANTS
  k1 = k1 k2 = k2 k3 = k3 u1 = u1 u2 = u2
  Codes = {k1, k2, k3}
  Clients = {c1, c2}
  MaxAttempts = 2
  MaxSends = 1
  GuessMax = 4
  None = None
  Users = {u1, u2}
  Callers = {c1, c2}
  Owner = Owner
  Other = Other
  TrialPlans <- PlanModules
  FlowMax = 1
  CallMax = 4
  Nobody = Nobody
  Instances = {i1}
  Visits = {c1, c2}
  Home <- HomeOf
  Values = {v1, bad}
  Bad = {bad}
  Env = Env
  Unset = Unset
  Absent = Absent
  CacheTtl = 1
  RefreshTime = 1
  Slowest = 1
  TimeMax = 3
  WriteMax = 1
  Editors = {c1, c2}
  VersionMax = 3
CHECK_DEADLOCK FALSE
PROPERTY ProvisioningKeepsTheUser
