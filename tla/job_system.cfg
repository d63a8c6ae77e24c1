SPECIFICATION Spec
CONSTANTS
  j1 = j1 j2 = j2 w1 = w1 w2 = w2
  mGrants = mGrants mContracts = mContracts kScan = kScan kOther = kOther x = x
  Jobs = {j1, j2}
  Workers = {w1, w2}
  Modules = {mGrants}
  Kinds = {kScan}
  Keys = {x}
  NoKey = NoKey
  Priorities = {1}
  Limits = {2}
  LeaseTime = 1
  MaxDelay = 1
  Horizon = 0
  SweepMax = 2
  Nobody = Nobody
  Pollers = {w1}
  Onces = {}
  WorkerModule <- AllGrants
  WorkerKinds <- AllKinds
  Handled = {kScan}
  DrainJobs = 1
  BeatEvery = 1
  MissedMax = 0
  Stallable = {w1, w2}
  Mortal = {w1, w2}
  BackoffBase = 1
  BackoffCap = 1
  Producers = {p1}
  Asks <- ScanTwice
  BellMax = 1
  Scheduled = TRUE
  OperatorBudget = 2
  NoJob = NoJob
SYMMETRY JobSymmetry
INVARIANTS SystemInv OneLiveJobPerKey HolderRunsCurrentAttempt
PROPERTIES SuccessIsTheHoldersVerdict NoTakeoverWithinLease ImplementsContract
