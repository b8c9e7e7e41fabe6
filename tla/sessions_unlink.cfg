SPECIFICATION Spec
CONSTANTS
  Cell = {c1, c2}
  Thread = {t1, t2}
  Nil = Nil
  IdModulus = 3
  MaxKeys = 0
INVARIANT UnlinkReadsLiveSession
