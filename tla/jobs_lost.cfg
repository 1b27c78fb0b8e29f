\* A worker dies inside a handler.
CONSTANTS
  Tasks = {t1}
  Workers = {w1, w2}
  MaxRetry = 2
  Faults = {"crash"}
  NoTask = NoTask
  NoWorker = NoWorker
SPECIFICATION Spec
CHECK_DEADLOCK FALSE
INVARIANT CompletedWasRun
