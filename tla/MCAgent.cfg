SPECIFICATION FairSpec
CONSTANTS
  w1 = w1
  nowhere = nowhere
  m1 = m1
  m2 = m2
  nothing = nothing
  f1 = f1
  Worker <- OneWorker
  NoWorker = nowhere
  Model <- TwoModels
  NoModel = nothing
  File <- OneFile
  Declared <- KeepsFirst
  Loaded <- FirstLoaded
  Configs <- AllConfigs
  Routes <- AllRoutes
  MaxToolSteps = 1
  MaxCalls = 1
  MaxLost = 1
INVARIANTS PassMeansVerified EvidenceIsOwn DisplacedIsReconciled
PROPERTIES RunReturns
CHECK_DEADLOCK FALSE
