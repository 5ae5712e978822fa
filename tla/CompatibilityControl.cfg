SPECIFICATION CompatibilitySpec
CONSTANTS
  build = build
  explore = explore
  good = good
  broken = broken
  Scenarios = {build, explore}
  Plans = {good, broken}
  Enabled <- MCEnabled
  Buildable = {good}
  Configured = {good, broken}
  NoPlan = NoPlan
  MaxRuns = 2
  MaxRestarts = 1
INVARIANTS
  PassedIsEarned
  JobsExcluded
PROPERTIES
  StopsAtFailure
  AskedOnce
  ExecutionEnds
