SPECIFICATION FairSpec
CONSTANTS
  Nodes = {"p", "s"}
  Owners <- MCOwners
  HotOwners <- MCOwners
  Members <- MCMembers
  SemCap = 1
  Calls = {"c1", "c2"}
  MaxStarts = 2
  MaxWrites = 1
  MaxMarks = 2
  MaxLate = 1
  MaxStops = 2
  Environments <- Disturbances
INVARIANTS TypeOK ColdGetIsFresh PurgeComplete EraseHolds
PROPERTIES  DrainEnds
CHECK_DEADLOCK FALSE
