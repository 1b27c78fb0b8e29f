\* Four racing calls (one of them opens the interview) and one scoring task.
CONSTANTS
  Interviews = {i1}
  Clients = {c1, c2, c3, c4}
  Jobs = {j1}
  MaxQuestions = 2
  Sequential = FALSE
  NoOne = NoOne
SPECIFICATION Spec
SYMMETRY Symmetry
CHECK_DEADLOCK FALSE
INVARIANTS
  TypeOK
  WellFormedInterview
  ReportGradesTranscript
PROPERTY
  ErasedStaysErased
