SPECIFICATION FairServerSpec
CONSTANTS
  Keys = {k1}
  Requests = {p1, p2}
  NoKey = NoKey
  NoMutex = NoMutex
  MaxVersion = 2
  MaxCrashes = 1
  Faults = TRUE
  Cleans = FALSE
  Reverts = FALSE
INVARIANTS
  ServerTypeOK
  OneInsideHDF5
  ViewsAgree
  NotOlderThanProcess
PROPERTIES
  ImplementsPinnedView
  EveryRequestAnswered
