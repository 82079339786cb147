SPECIFICATION MCSpec
CONSTANTS
  errand = errand
  deal1 = deal1
  deal2 = deal2
  acme = acme
  a1 = a1
  a2 = a2
  k1 = k1
  k2 = k2
  NoTask = NoTask
  Tasks = {errand, deal1}
  Errands = {errand}
  Deals = {deal1}
  Company <- MCCompany
  Admins = {a1}
  Ticks = {k1}
  Batch = 1
  MaxGrants = 2
  MaxEdits = 1
  MaxFaults = 2
INVARIANTS
  TypeOK
  DealsAreBacked
PROPERTIES
  ImplementsLedger
  ApprovedIsTakenUp
  InProgressEnds
CHECK_DEADLOCK FALSE
