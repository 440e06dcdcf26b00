SPECIFICATION FairSpec
CONSTANTS
  r1 = r1
  r2 = r2
  r3 = r3
  k1 = k1
  k2 = k2
  lookup = lookup
  invoice = invoice
  None = None
  Tool = {lookup, invoice}
  Policy <- Policies
  Request = {r1, r2, r3}
  Key = {k1, k2}
  KeyOf <- SharedKey
  MaxSteps = 1
  LeaseTime = 1
  MaxWait = 0
  EntryPhase = "before_action"
INVARIANTS OneExecutorPerKey
PROPERTIES InterruptIsNotOvertaken RunsConverge
CHECK_DEADLOCK FALSE
