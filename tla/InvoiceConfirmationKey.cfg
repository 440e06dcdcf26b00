SPECIFICATION Spec
CONSTANTS
  q1 = q1
  q2 = q2
  q3 = q3
  q4 = q4
  t1 = t1
  t2 = t2
  k1 = k1
  k2 = k2
  None = None
  Request = {q1, q4}
  Token = {t1, t2}
  Key = {k1, k2}
  TokenOf <- TwoTokens
  KeyOf <- SharedKey
CHECK_DEADLOCK FALSE
INVARIANTS OneTokenPerKey
