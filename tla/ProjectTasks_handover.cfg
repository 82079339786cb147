SPECIFICATION ProjSpec
CONSTANTS
  e1 = e1
  e2 = e2
  a1 = a1
  m1 = m1
  m2 = m2
  NoTask = NoTask
  Tasks = {e1, e2}
  Errands = {e1, e2}
  Deals = {}
  Company <- MCCompany
  Admins = {a1, m1, m2}
  Members = {m1, m2}
  Ticks = {}
  Batch = 1
  MaxGrants = 1
  MaxEdits = 0
  MaxFaults = 1
  MaxCardEdits = 1
  MaxVisits = 3
CONSTRAINT MCBounds
SYMMETRY MCSymmetry
INVARIANTS
  ProjTypeOK
  ToldOnce
  CompletedWasRun
CHECK_DEADLOCK FALSE
