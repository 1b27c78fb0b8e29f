\* Two interviews whose client waits for every call, with calls to spare for
\* the ones that fail.
CONSTANTS
  Interviews = {i1, i2}
  Clients = {c1, c2, c3, c4, c5}
  Jobs = {}
  MaxQuestions = 2
  Sequential = TRUE
  NoOne = NoOne
SPECIFICATION Spec
SYMMETRY Symmetry
CHECK_DEADLOCK FALSE
INVARIANTS
  AnswersTheShownQuestion
  ScreenedIsBacked
PROPERTY
  ImplementsSession
