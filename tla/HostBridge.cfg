CONSTANTS
  Runs = {r1, r2}
  NoRun = norun
  MaxFaults = 2
  MaxStops = 1
SPECIFICATION BridgeSpec
INVARIANTS OutcomeIsTrue OnlyFaultsMixRuns
PROPERTIES CleanRunSucceeds
CHECK_DEADLOCK FALSE
