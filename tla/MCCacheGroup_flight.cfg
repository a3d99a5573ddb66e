SPECIFICATION Spec
CONSTANTS
  Nodes = {"p", "s"}
  Owners <- MCOwners
  HotOwners <- MCOwners
  Members <- MCMembers
  SemCap = 1
  Calls = {"c1", "c2"}
  MaxStarts = 2
  MaxWrites = 0
  MaxMarks = 0
  MaxLate = 1
  MaxStops = 0
  Environments <- Unreachable
INVARIANT OneLoadAtATime
CHECK_DEADLOCK FALSE
