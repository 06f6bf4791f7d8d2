SPECIFICATION Spec
CONSTANTS
  r1 = r1
  r2 = r2
  r3 = r3
  noip = noip
  Requests <- MCRequests
  Addressed <- MCAddressed
  Workers = {w1, w2}
  Closers = {c1, c2}
  QueueSize = 1
INVARIANTS
  TypeOK
  NoSendOnClosedChannel
  NoDoubleClose
  QueueLedger
  CloseDrains
  WaitsAreGrounded
PROPERTIES
  ImplementsLedger
  QueueStoreReturns
  AcceptedIsHandled
  CloseReturns
