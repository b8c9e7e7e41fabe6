SPECIFICATION Spec
CONSTANTS
  Admin = {a1}
  Archive = {b1}
  NoOne = NoOne
  MaxStamp = 2
  MaxSessions = 0
  MaxRequests = 1
  MaxCrashes = 0
PROPERTY OnlyResetRemovesDeviceKey
