SPECIFICATION OutboxSpec
CONSTANTS
  c1 = c1
  c2 = c2
  Consumer <- MCConsumer
  NoConsumer = NoConsumer
  MaxEvents = 2
  Handlers = 2
  BatchLimit = 2
  MaxAttempts = 2
  MaxLost = 1
  LeaseTTL = 1
  RetryDelay = 1
INVARIANTS
  OutboxInv
  AcknowledgedInOrder
PROPERTIES
  EveryEventSettles
CHECK_DEADLOCK FALSE
