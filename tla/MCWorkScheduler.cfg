SPECIFICATION SchedSpec
CONSTANTS
  j1 = j1
  j2 = j2
  w1 = w1
  w2 = w2
  NoWorker = NoWorker
  Job <- CoroutineJob
  Worker <- TwoProcesses
  MaxAttempts <- TwoAttempts
  OnLeaseExpiry <- AlwaysRetry
  Priority <- EqualPriority
  LeaseTTL = 1
  MaxDelay = 0
  MaxRevision = 8
  Kind <- MCKind
  KindOf <- OwnKinds
  SyncKind <- MCSyncKind
  KindLimit <- TwoPerKind
  max_concurrency = 2
  LostLeases = 3
INVARIANTS
  ExecutionsArePaidFor
  SuccessIsEarned
PROPERTIES
  CancelSettles
  EveryJobSettles
CHECK_DEADLOCK FALSE
