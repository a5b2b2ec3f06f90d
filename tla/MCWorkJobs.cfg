SPECIFICATION JobsSpec
CONSTANTS
  j1 = j1
  j2 = j2
  w1 = w1
  w2 = w2
  NoWorker = NoWorker
  Job <- MCJob
  Worker <- MCWorker
  MaxAttempts <- MCMaxAttempts
  OnLeaseExpiry <- MCOnLeaseExpiry
  Priority <- MCPriority
  LeaseTTL = 1
  MaxDelay = 1
  MaxRevision = 6
INVARIANTS
  JobsInv
PROPERTIES
  SettledIsFinal
  EpochFences
  SyncHandlerNotRequeued
  ImplementsContract
CHECK_DEADLOCK FALSE
