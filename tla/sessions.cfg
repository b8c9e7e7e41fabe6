SPECIFICATION Spec
CONSTANTS
  Cell = {1, 2}
  Thread = {t1, t2, t3}
  Nil = Nil
  IdModulus = 3
  MaxKeys = 1
CONSTRAINT LowestFirst
INVARIANTS
  TypeOK
  HeldSessionIsLive
  RefCountExact
  FreedOnce
  RegistryIsLive
  CountIsOpenSessions
  KeyHandlesDistinct
PROPERTIES
  ClosedIsReclaimed
  ImplementsService
