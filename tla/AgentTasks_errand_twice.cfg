SPECIFICATION Spec
CONSTANTS
  errand = errand
  deal1 = deal1
  deal2 = deal2
  acme = acme
  a1 = a1
  a2 = a2
  k1 = k1
  k2 = k2
  NoTask = NoTask
  Tasks = {errand}
  Errands = {errand}
  Deals = {}
  Company <- MCCompany
  Admins = {a1, a2}
  Ticks = {k1, k2}
  Batch = 1
  MaxGrants = 2
  MaxEdits = 1
  MaxFaults = 0
INVARIANT ErrandNeverDoubleExecuted
CHECK_DEADLOCK FALSE
