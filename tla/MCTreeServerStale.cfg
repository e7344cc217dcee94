SPECIFICATION ServerSpec
CONSTANTS
  Keys = {k1}
  Requests = {p1}
  NoKey = NoKey
  NoMutex = NoMutex
  MaxVersion = 2
  MaxCrashes = 0
  Faults = FALSE
  Cleans = FALSE
  Reverts = FALSE
INVARIANT AnswerIsFresh
