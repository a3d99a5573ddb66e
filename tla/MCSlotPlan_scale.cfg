SPECIFICATION Spec
CONSTANTS
  TotalSlots = 19
  MaxMasters = 5
  Retry = 1
INVARIANTS
  TypeOK
  AllocationVerifies
  PlannedOnce
  
  
CHECK_DEADLOCK FALSE
