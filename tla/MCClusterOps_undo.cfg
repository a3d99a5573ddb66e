SPECIFICATION Spec
CONSTANTS
  Shards = 1
  AddShards = 1
  NPS = 2
  MaxLaunches = 2
  Environments <- WithFailures
INVARIANT ScaleUndoKeepsOldPods
CHECK_DEADLOCK FALSE
