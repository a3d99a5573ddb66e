SPECIFICATION Spec
CONSTANTS
  Nodes = {"a", "b", "c"}
  Positions = {0, 1, 2, 3}
  replicas = 2
  localAddr = "a"
  SeedPeers = {"b"}
  EventCap = 2
  MaxChanges = 2
  Environments = {{"dial", "join"}, {"stop"}}
INVARIANTS TypeOK RoutesToSuccessor RingFollowsMembers
PROPERTIES OnlyItsKeysMove Converges
CHECK_DEADLOCK FALSE
