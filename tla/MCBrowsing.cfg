SPECIFICATION BrowsingSpec
CONSTANTS
  StoreOrder <- EnumeratedKeys
  NexusKeys <- NexusFiles
  Under <- KeysUnder
  DefaultPrefix = "all"
  NoOverride = NoOverride
  PageSize = 1
  MaxChanges = 2
  MaxFailures = 1
  Fields <- AllFields
  Offsets <- AskedOffsets
  Limits <- AskedLimits
  NoLimit = NoLimit
  DefaultLimit = 4
  MaxLimit = 3
  IntMax = 15
INVARIANTS
  ListingComplete
  ListingTruthful
  PagesTile
  NothingMissed
  PageWithinCap
PROPERTY SessionEnds
CHECK_DEADLOCK FALSE
