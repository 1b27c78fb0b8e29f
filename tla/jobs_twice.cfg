\* asynq gives up on a delivery just as its handler has finished.
CONSTANTS
  Tasks = {t1}
  Workers = {w1, w2}
  MaxRetry = 2
  Faults = {"lease"}
  NoTask = NoTask
  NoWorker = NoWorker
SPECIFICATION Spec
CHECK_DEADLOCK FALSE
INVARIANT AtMostOnce
