SPECIFICATION Spec
CONSTANTS
  Requests = {"r1", "r2", "r3"}
  threshold = 6
  Stride = 4
  cooldown = 1
  MaxRecords = 12
  MaxWindows = 3
INVARIANTS TypeOK  HotIsNoticed
CHECK_DEADLOCK FALSE
