SPECIFICATION Spec
CONSTANTS
  Slot = {s1, s2}
  Admin = {a1, a2}
  User = {u1}
  NoOne = NoOne
  MaxKeys = 2
  MaxCrashes = 1
SYMMETRY Symmetry
INVARIANTS
  OneRecordAtRest
  MoveKeepsBoth
  MarkerTellsState
PROPERTIES
  OnlyDeleteRemoves
  SharedOnlyByMove
  DisabledOnlyIfMoved
