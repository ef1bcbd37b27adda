SPECIFICATION Spec
CONSTANTS
  w1 = w1
  m1 = m1
  m2 = m2
  m3 = m3
  c1 = c1
  outsider = outsider
  Outsider = outsider
  Rank <- NoOrder
  Worker <- OneWorker
  Model <- ThreeModels
  Client <- OneClient
  Request <- Requests
  Installed <- EverythingInstalled
  Lifecycle <- ThreeModels
  Size <- UnitSize
  Memory <- TwoUnits
  Budget <- TwoUnits
  MaxOrphans = 1
  MaxPinned = 1
  Strict <- OneClient
  Interleaved = TRUE
  Faults <- FaultKinds
SYMMETRY Others
INVARIANTS TypeOK PreexistingLeftLoaded ClaimsWitnessed NothingLeftBehind
PROPERTIES ColdTargetAlone NoImplicitEviction
