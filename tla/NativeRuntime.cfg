SPECIFICATION Spec
CONSTANTS
  Ids = {a, b}
  Payloads = {"own", "other", "bad"}
  Malformed = {"bad"}
  Zeroth = {"own"}
  None = none
  Raises = TRUE
  MaxCalls = 4
SYMMETRY IdSymmetry
INVARIANTS
  SlotStandsStill
  PostedOnce
  AnswerIsTrue
