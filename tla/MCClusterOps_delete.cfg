SPECIFICATION Spec
CONSTANTS
  Shards = 1
  AddShards = 1
  NPS = 2
  MaxLaunches = 4
  Environments <- Dependably
INVARIANT DeleteRemovesContainers
CHECK_DEADLOCK FALSE
