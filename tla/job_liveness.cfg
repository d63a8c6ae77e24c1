SPECIFICATION FairSpec
CONSTANTS
  j1 = j1 j2 = j2 w1 = w1 w2 = w2
  mGrants = mGrants mContracts = mContracts kScan = kScan kOther = kOther x = x
  Jobs = {j1}
  Workers = {w1, w2}
  Modules = {mGrants}
  Kinds = {kScan, kOther}
  Keys = {x}
  NoKey = NoKey
  Priorities = {1}
  Limits = {2}
  LeaseTime = 3
  MaxDelay = 1
  Horizon = 0
  SweepMax = 2
  Nobody = Nobody
  Pollers = {w1, w2}
  Onces = {}
  WorkerModule <- AllGrants
  WorkerKinds <- AllKinds
  Handled = {kScan}
  DrainJobs = 1
  BeatEvery = 1
  MissedMax = 2
  Stallable = {w2}
  Mortal = {w2}
  BackoffBase = 1
  BackoffCap = 1
  Producers = {p1}
  Asks <- BothTwice
  BellMax = 0
  Scheduled = FALSE
  OperatorBudget = 1
  NoJob = NoJob
INVARIANT HealthyWorkerKeepsLease
PROPERTIES EveryJobSettles StoppedWorkerLeaves
