SPECIFICATION Spec
CONSTANTS
  Shards = 1
  AddShards = 1
  NPS = 2
  MaxLaunches = 3
  Environments <- MCEnvironments
INVARIANTS
  TypeOK
  FreshCreateComplete
  FreshScaleComplete
  FreshDeleteComplete
  FailedCreateCleansUp
  RegistryAccurate
PROPERTY OnlyDeleteStopsServing
CHECK_DEADLOCK FALSE
