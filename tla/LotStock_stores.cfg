SPECIFICATION Spec
CONSTANTS
  bin1 = bin1
  bin2 = bin2
  c1 = c1
  c2 = c2
  NoBin = NoBin
  NoLot = NoLot
  Lots = {1}
  Bins = {bin1}
  Expiry <- MCExpiry
  Walk <- MCWalk
  Capacity <- MCCapacity
  Callers = {c1}
  Workload = {"produce", "reserve", "adjust", "move"}
  MaxQty = 2
  MaxCalls = 4
  MaxFaults = 0
INVARIANT StoresInStep
CHECK_DEADLOCK FALSE
