\* Crashes, deploys, lost leases and Redis errors; no handler outlives its claim.
CONSTANTS
  Tasks = {t1, t2}
  Workers = {w1, w2}
  MaxRetry = 1
  Faults = {"crash", "shutdown", "lease", "redis"}
  NoTask = NoTask
  NoWorker = NoWorker
SPECIFICATION FairSpec
CHECK_DEADLOCK FALSE
INVARIANTS TypeOK NoOverlap
PROPERTIES DoneSuppresses EverySettles
