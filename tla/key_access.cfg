SPECIFICATION Spec
CONSTANTS
  Index = {i1, i2}
  Password = {w1}
  Session = {s1}
  Thread = {t1, t2}
  NoOne = NoOne
  MaxFresh = 2
SYMMETRY Symmetry
INVARIANTS
  TypeOK
  RecordOpens
  WrongKeyOnlyIfStale
PROPERTIES
  KeyIsEarned
