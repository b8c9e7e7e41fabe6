SPECIFICATION Spec
CONSTANTS
  Admin = {a1, a2}
  Archive = {b1}
  NoOne = NoOne
  MaxStamp = 3
  MaxSessions = 1
  MaxRequests = 1
  MaxCrashes = 1
SYMMETRY Symmetry
INVARIANTS
  TypeOK
  ArchiveIsSnapshot
  ErasedStaysErased
  RestoreIsFaithful
PROPERTIES
  OnlyDeleteRemovesBackups
