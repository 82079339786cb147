SPECIFICATION RuleSpec
CONSTANTS
  errand = errand
  row1 = row1
  row2 = row2
  row3 = row3
  a1 = a1
  a2 = a2
  k1 = k1
  k2 = k2
  reorder = reorder
  autoPo = autoPo
  requote = requote
  vendor = vendor
  acme = acme
  NoTask = NoTask
  NoRule = NoRule
  NoTarget = NoTarget
  Tasks = {errand, row1, row2, row3}
  Errands = {errand}
  Deals = {}
  Company <- MCCompany
  Admins = {a1, a2}
  Ticks = {k1, k2}
  Batch = 2
  MaxGrants = 2
  MaxEdits = 1
  MaxFaults = 2
  Rules = {autoPo, requote}
  TargetsOf <- MCTargetsOf
  AutoRules = {autoPo}
  MaxLapses = 1
  MaxRuleGrants = 1
CONSTRAINT MCBounds
SYMMETRY MCSymmetry
INVARIANTS
  RuleTypeOK
  OneRunPerApproval
  SingleApprovalSingleExecutor
  OneWaitingPerRule
  OneWaitingPerTarget
PROPERTY OnlyApprovalReleases
CHECK_DEADLOCK FALSE
