\* Handlers may fail, nothing else does.
CONSTANTS
  Tasks = {t1, t2}
  Workers = {w1, w2}
  MaxRetry = 2
  Faults = {}
  NoTask = NoTask
  NoWorker = NoWorker
SPECIFICATION Spec
CHECK_DEADLOCK FALSE
INVARIANT SettledExactly
