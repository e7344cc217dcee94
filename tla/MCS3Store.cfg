SPECIFICATION Spec
CONSTANTS
  Keys = {k1}
  Requests = {p1, p2, p3}
  NoKey = NoKey
  NoMutex = NoMutex
  MaxVersion = 2
  MaxCrashes = 1
  Faults = TRUE
  Cleans = TRUE
  Reverts = FALSE
SYMMETRY RequestSymmetry
INVARIANTS
  TypeOK
  MutualExclusion
  SidecarNotAhead
  PathHoldsVouched
  NoTempAfterReturn
PROPERTIES
  FileNeverRegresses
  ImplementsFreshCache
