\* The worker's sweep erases a candidate with a contest.
CONSTANTS
  Candidates = {a}
  Calls = {}
  Sweepers = {s1}
  Active = {a}
  Failing = {}
  Restarting = {}
  Nobody = Nobody
SPECIFICATION Spec
PROPERTY ErasureTakesContests
