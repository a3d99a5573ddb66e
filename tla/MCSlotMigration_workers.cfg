SPECIFICATION FairSpec
CONSTANTS
  Slots = {"s1", "s2"}
  Sources = {"a"}
  From <- From2
  NumWorkers = 2
  Keys = {"k1", "k2", "k3"}
  SlotOf <- SlotOf2
  Big = {"k1"}
  SmallBatch = 1
  Chunk = 1
  ScanLimit = 2
  None = None
  MaxWrites = 2
  Environments <- MCEnvironments
INVARIANTS
  TypeOK
  SlotServed
  AnswersAgree
  TasksConserved
PROPERTY Terminates
CHECK_DEADLOCK FALSE
