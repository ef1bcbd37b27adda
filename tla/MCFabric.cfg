SPECIFICATION FairSpec
CONSTANTS
  c1 = c1
  c2 = c2
  j1 = j1
  w1 = w1
  NoChat = NoChat
  Chat <- TwoChats
  Job <- OneJob
  Remote <- OneRemote
  Configs <- SomeConfigs
  MaxRetries = 1
INVARIANTS RootsAreCleared RecordIsOwn
PROPERTIES Contract CallsReturn
CHECK_DEADLOCK FALSE
