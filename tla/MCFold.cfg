SPECIFICATION FairSpec
CONSTANTS
  Value <- Verdicts
  Neutral <- NeutralVerdict
  Join <- Dominate
  Hosts <- ThreeHosts
  Lists <- LongLists
INVARIANTS ResultIsJoin
PROPERTIES HostReturns
CHECK_DEADLOCK FALSE
