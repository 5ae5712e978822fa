SPECIFICATION FairSpec
CONSTANTS
  colony = colony
  fleet = fleet
  tech = tech
  Targets <- Three
  MaxRequests = 3
  MaxFaults = 1
  FreshTargets = TRUE
  HostRepeats = TRUE
INVARIANTS
  ConfirmedMeansExecuted
  AnswerIsForCall
  InsertedOnce
PROPERTIES
  ReturnsWithoutDeadline
CONSTRAINT InOrder
CHECK_DEADLOCK FALSE
