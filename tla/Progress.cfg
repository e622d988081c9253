SPECIFICATION Spec
CONSTANTS
  QueueMax = 2
  MaxMessages = 5
CHECK_DEADLOCK FALSE
INVARIANTS
  JoinCountsPending
  ProgressIncreases
  FlushedBeforeReturn
  HelpersStopped
PROPERTIES
  NoReportAfterEnd
  ToolReturns
