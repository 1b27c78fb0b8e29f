\* Two runs, two questions, a buffer of a single event.
CONSTANTS
  MaxRuns = 2
  MaxQuestions = 2
  Capacity = 1
SPECIFICATION FairSpec
CHECK_DEADLOCK FALSE
INVARIANTS TypeOK AsksThePending NothingIsDropped ShowsThisRun
PROPERTY AnswerIsFollowedUp
