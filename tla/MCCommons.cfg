SPECIFICATION FairSpec
CONSTANTS
  c1 = c1
  c2 = c2
  Call <- TwoCalls
  Configs <- AllConfigs
  Servers <- SomeServers
  MaxChanges = 1
INVARIANTS EffectsAuthorized
PROPERTIES Contract CallsAnswered
CHECK_DEADLOCK FALSE
