SPECIFICATION Spec
CONSTANTS
  Keys = {k1}
  Requests = {p1, p2}
  NoKey = NoKey
  NoMutex = NoMutex
  MaxVersion = 2
  MaxCrashes = 0
  Faults = FALSE
  Cleans = FALSE
  Reverts = TRUE
PROPERTY ChangedIsRedownloaded
