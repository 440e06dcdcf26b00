SPECIFICATION FairStreamSpec
CONSTANTS
  Buffer = 4
  SseBuffer = 4
  MaxSteps = 2
CHECK_DEADLOCK FALSE
INVARIANT InterruptsOnlyItself
