SPECIFICATION Spec
CONSTANTS
  Worker = {w1, w2}
  Conn = {c1, c2}
  NoOne = NoOne
  Acceptor = Acceptor
  MaxRequests = 0
SYMMETRY Symmetry
INVARIANT NoSleeperAtJoin
CHECK_DEADLOCK FALSE
