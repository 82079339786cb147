SPECIFICATION Spec
CONSTANTS
  b1 = b1
  c1 = c1
  r1 = r1
  r2 = r2
  NoBill = NoBill
  Bills = {b1}
  Amounts = {1, 2}
  AutoPay = 1
  AutoApprove = 2
  Callers = {c1}
  Runs = {r1}
  MaxActs = 3
  MaxFaults = 0
INVARIANT NeverRepaid
CHECK_DEADLOCK FALSE
