SPECIFICATION SchedSafety
CONSTANTS
  j1 = j1
  j2 = j2
  w1 = w1
  w2 = w2
  NoWorker = NoWorker
  Job <- BothJobs
  Worker <- TwoProcesses
  MaxAttempts <- TwoAttempts
  OnLeaseExpiry <- AlwaysRetry
  Priority <- EqualPriority
  LeaseTTL = 1
  MaxDelay = 0
  MaxRevision = 2
  Kind <- MCKind
  KindOf <- SameKind
  SyncKind <- MCSyncKind
  KindLimit <- OnePerKind
  max_concurrency = 2
  LostLeases = 1
INVARIANTS
  SchedInv
CHECK_DEADLOCK FALSE
