SPECIFICATION FairSpec
CONSTANTS
  c1 = c1
  c2 = c2
  c3 = c3
  p1 = p1
  p2 = p2
  None = None
  Caller = {c1, c2, c3}
  Payload = {p1, p2}
  PayloadOf <- Payloads
  Worker = {w1, w2}
  ConfirmTime = 1
  QueueTime = 2
  HardTime = 2
  FenceTime = 1
CHECK_DEADLOCK FALSE
INVARIANTS AtMostOneExecution RefusalIsDefinitive CancellationIsHonoured ResultIsRecorded
PROPERTIES ImplementsPromise TasksSettle
