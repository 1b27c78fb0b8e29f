\* Overlapping calls on one interview: a closed interview can be reopened.
CONSTANTS
  Interviews = {i1}
  Clients = {c1, c2, c3}
  Jobs = {}
  MaxQuestions = 2
  Sequential = FALSE
  NoOne = NoOne
SPECIFICATION Spec
CHECK_DEADLOCK FALSE
PROPERTY
  ClosedIsTerminal
