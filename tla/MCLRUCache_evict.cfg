SPECIFICATION FairSpec
CONSTANTS
  Keys = {"k1", "k2", "k3"}
  KeyLen <- MCKeyLen
  Lens = {1, 2, 6}
  maxBytes = 7
  MaxOps = 7
INVARIANTS TypeOK
PROPERTIES ImplementsLRU AddTerminates
CHECK_DEADLOCK FALSE
