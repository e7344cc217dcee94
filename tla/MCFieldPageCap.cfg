SPECIFICATION Spec
CONSTANTS
  Fields <- AllFields
  Offsets <- AskedOffsets
  Limits <- AskedLimits
  NoLimit = NoLimit
  DefaultLimit = 4
  MaxLimit = 3
  IntMax = 15
INVARIANT EveryPageWithinCap
CHECK_DEADLOCK FALSE
