SPECIFICATION MCSpec
CONSTANTS
  c1 = c1
  c2 = c2
  c3 = c3
  k1 = k1
  k2 = k2
  q1 = q1
  p1 = p1
  NoContact = NoContact
  NoStep = NoStep
  Contacts = {c1, c2, c3}
  StepIds = {k1, k2}
  Orders = {1, 2}
  SameDay = {k1}
  Requests = {q1}
  MaxAttempts = 2
  TickLimit = 2
  Recipients = {1, 2}
  ContactOf <- MCContactOf
  Senders = {1, 2}
  Clerks = {p1}
  Concurrency = 2
  MaxEvents = 4
  SequenceEvents = 2
  CampaignEvents = 2
  PairEvents = 1
  BothEvents = 0
  CrowdEvents = 1
  MaxFaults = 1
INVARIANTS
  TypeOK
  CopiesArePaidFor
  OneLateStep
  RecipientMailedOnce
PROPERTIES
  EnrollmentsEnd
  ScheduledGoesOut
  SendingEnds
CHECK_DEADLOCK FALSE
