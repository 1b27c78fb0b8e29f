\* A call and a sweep that overlap over a candidate other requests write about,
\* beside one who only ages; the first one's erasure may fail each time.
CONSTANTS
  Candidates = {a, b}
  Calls = {d1}
  Sweepers = {s1}
  Active = {a}
  Failing = {a}
  Restarting = {"worker", "api"}
  Nobody = Nobody
SPECIFICATION FairSpec
INVARIANTS TypeOK ErasedHasNoRecords SuccessMeansErased IdentityGoesLast
PROPERTY EveryoneElseIsErased
