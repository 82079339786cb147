SPECIFICATION RuleSpec
CONSTANTS
  errand = errand
  row1 = row1
  row2 = row2
  row3 = row3
  a1 = a1
  a2 = a2
  k1 = k1
  k2 = k2
  reorder = reorder
  autoPo = autoPo
  requote = requote
  vendor = vendor
  acme = acme
  NoTask = NoTask
  NoRule = NoRule
  NoTarget = NoTarget
  Tasks = {row1, row2}
  Errands = {}
  Deals = {}
  Company <- MCCompany
  Admins = {a1}
  Ticks = {k1, k2}
  Batch = 1
  MaxGrants = 1
  MaxEdits = 0
  MaxFaults = 0
  Rules = {reorder}
  TargetsOf <- MCTargetsOf
  AutoRules = {}
  MaxLapses = 0
  MaxRuleGrants = 1
INVARIANT NeverADuplicate
CHECK_DEADLOCK FALSE
