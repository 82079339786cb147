SPECIFICATION FairSpec
CONSTANTS
  b1 = b1
  c1 = c1
  r1 = r1
  r2 = r2
  NoBill = NoBill
  Bills = {b1}
  Amounts = {2, 3}
  AutoPay = 1
  AutoApprove = 2
  Callers = {c1}
  Runs = {r1, r2}
  MaxActs = 2
  MaxFaults = 2
INVARIANTS
  TypeOK
  ShownIsPaidOut
  PaidIsCovered
PROPERTY ApprovedBillsAreReached
CHECK_DEADLOCK FALSE
