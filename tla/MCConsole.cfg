SPECIFICATION ConsoleFairSpec
CONSTANTS
  r1 = r1
  r2 = r2
  i1 = i1
  i2 = i2
  Run <- TwoRuns
  Inspection <- OneInspection
  Worker <- TwoWorkers
  Model <- TwoModels
  Fleets <- SomeFleets
  MaxChanges = 1
  MaxPicks = 2
INVARIANTS BusyMeansWorking
PROPERTIES BecomesUsable
CHECK_DEADLOCK FALSE
