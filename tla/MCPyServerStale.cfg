SPECIFICATION Spec
CONSTANTS
  w1 = w1
  w2 = w2
  Keys = {k1}
  Threads = {t1, t2}
  Workers = {w1}
  WorkerOf <- OneWorker
  NoKey = NoKey
  MaxVersion = 2
  MaxKills = 0
  Faults = FALSE
  Cleans = FALSE
INVARIANT AnswerIsFresh
