SPECIFICATION Spec
CONSTANTS
  w1 = w1
  w2 = w2
  own = own
  nowhere = nowhere
  mConf = mConf
  mTool = mTool
  mPlain = mPlain
  nothing = nothing
  unprobed = unprobed
  Worker <- Workers
  Model <- Models
  NoWorker = nowhere
  NoModel = nothing
  Remote <- RemoteWorkers
  WorkerRank <- RankOfWorker
  NameRank <- RankOfModel
  Size <- SizeOfModel
  Unsized = 100
  MaxCoder = 6
  RequireObserved = FALSE
  AllowUnclaimed = TRUE
  Resident <- ResidentModel
  PreferResident = TRUE
  Enabled = TRUE
  Configured <- RolesConfigured
  Thinks <- RolesThatThink
  FirstRole = "e2b"
  Lanes <- NoLanes
  Specialist = TRUE
  MaxAttempts = 2
  Unreported = unprobed
  Fleets <- SmallFleets
  Rows <- SmallRows
  Orders <- BothOrders
  Requests <- SmallRequests
  Profiles <- SmallProfiles
  MaxRefreshes = 1
  MaxEvidence = 2
INVARIANTS CascadeIsBounded
PROPERTIES PinsFailClosed SelectionIsReal FailuresHeeded AnyTagWillDo PlacementSticks
