SPECIFICATION Spec
CONSTANTS
  Slot = {s1, s2}
  Admin = {a1}
  User = {u1}
  NoOne = NoOne
  MaxKeys = 1
  MaxCrashes = 0
INVARIANT DisabledIsRefused
