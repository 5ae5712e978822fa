SPECIFICATION Spec
CONSTANTS
  colony = colony
  fleet = fleet
  tech = tech
  Targets <- One
  MaxRequests = 2
  MaxFaults = 0
  FreshTargets = FALSE
  HostRepeats = TRUE
INVARIANTS
  ConfirmedMeansExecuted
CHECK_DEADLOCK FALSE
