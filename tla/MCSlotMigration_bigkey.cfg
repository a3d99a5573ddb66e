SPECIFICATION Spec
CONSTANTS
  Slots = {"s1"}
  Sources = {"a"}
  From <- From1
  NumWorkers = 1
  Keys = {"k1", "k2", "k3"}
  SlotOf <- SlotOf1
  Big = {"k1"}
  SmallBatch = 1
  Chunk = 1
  ScanLimit = 3
  None = None
  MaxWrites = 3
  Environments <- Dependably
INVARIANT CopyModeIsSafe
CHECK_DEADLOCK FALSE
