SPECIFICATION FairSpec
CONSTANTS
  Pipelines <- MCPipelines
  NumSteps <- MCNumSteps
  Retry <- MCRetry
  Undoable <- UndoMiddle
  Faults = {"crash", "db"}
  MaxCalls = 4
INVARIANTS
  TypeOK
  FailedRunForgets
  SavedStepNotRepeated
  SuccessMeansAllDone
PROPERTIES ImplementsSaga RunTerminates
CHECK_DEADLOCK FALSE
