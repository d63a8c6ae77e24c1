SPECIFICATION ServicesSpec
CONSTANTS
  Calls = {c1, c2, c3}
  MaxAttempts = 2
  Threshold = 3
  Recovery = 2
  Tasks = {c1, c2}
  Ttl = 2
  ChangeMax = 1
  Changing = {"subscription", "catalog", "status"}
  Empty = Empty
  Notices = {1, 2, 3}
  Texts = {t1, t2}
  Unreadable = {t2}
  Batches = {c1, c2}
  BatchLimit = 2
  MaxRecords = 3
  FeedMax = 1
  DeathMax = 1
  NoText = NoText
CHECK_DEADLOCK FALSE
INVARIANTS BreakerInv CacheInv PaidOnceEach
PROPERTIES FailsFast ClosesAgain EventuallyCurrent EveryNoticeIsRead
