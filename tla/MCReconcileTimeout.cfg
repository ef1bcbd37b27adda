SPECIFICATION Spec
CONSTANTS
  m1 = m1
  m2 = m2
  c1 = c1
  NoModel = NoModel
  Everyone = 0
  Worker <- TwoWorkers
  Model <- TwoModels
  Call <- OneCall
  Explicit <- FirstDeclares
  Preferred <- PrefersSecond
  Installed <- AllInstalled
  Fits <- AllFit
  Settings <- Overlapping
INVARIANTS TimeoutRestored
CHECK_DEADLOCK FALSE
