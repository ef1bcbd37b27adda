SPECIFICATION ReadinessSpec
CONSTANTS
  w1 = w1
  w2 = w2
  Worker <- TwoWorkers
  Sites <- OneFlaw
  Supplied <- TwoVariations
  Fleets <- OneTrouble
  MaxChanges = 1
INVARIANTS ReadyWasEarned QuietVerdict ProfilesNest
CHECK_DEADLOCK FALSE
