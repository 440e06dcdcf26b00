SPECIFICATION Spec
CONSTANTS
  r1 = r1
  r2 = r2
  r3 = r3
  k1 = k1
  k2 = k2
  lookup = lookup
  invoice = invoice
  None = None
  Tool = {lookup, invoice}
  Policy <- Policies
  Request = {r1, r2}
  Key = {k1, k2}
  KeyOf <- TwoKeys
  MaxSteps = 1
  LeaseTime = 1
  MaxWait = 0
  EntryPhase = "routing"
PROPERTIES RevisionCountsWrites
CHECK_DEADLOCK FALSE
