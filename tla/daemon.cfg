SPECIFICATION Spec
CONSTANTS
  Worker = {w1, w2}
  Conn = {c1, c2}
  NoOne = NoOne
  Acceptor = Acceptor
  MaxRequests = 1
INVARIANTS
  TypeOK
  SleepersNotNeeded
  OneOwner
  NoSubmitToDyingPool
PROPERTIES
  QueuedIsServed
  RequestIsHandled
  ImplementsConnections
\* The daemon stops after a stop signal.
CHECK_DEADLOCK FALSE
