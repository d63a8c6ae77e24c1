SPECIFICATION GrantsSpec
CONSTANTS
  Requests = {r1, r2}
  Scans = {s1, s2, s3, s4}
  Limit = 2
  MaxMinute = 2
  MaxRetries = 1
  Uids = {"a", "b"}
  Days = {1, 2}
  Amounts = {1, 2}
  Extracts <- PublishedExtracts
  BatchSizes = {1, 2, 3}
  MaxRuns = 2
  FaultMax = 1
  Missing = Missing
  Old = Old
  NoRow = NoRow
  Offers = {"x", "y"}
  Profiles = {"p", "q"}
  Scoreable = {"p", "q"}
  Rank <- Preferences
  MatchLimit = 1
  Savers = {r1, r2}
  MinuteMax = 0
  MoveMax = 3
  NoProfile = NoProfile
SYMMETRY Symmetry
CHECK_DEADLOCK FALSE
INVARIANTS ScanInv LoadIsSequential StaleMatchesAreExplained
