SPECIFICATION CountSpec
CONSTANTS
  bin1 = bin1
  bin2 = bin2
  c1 = c1
  c2 = c2
  NoBin = NoBin
  NoLot = NoLot
  Lots = {1, 2, 3}
  Bins = {bin1, bin2}
  Expiry <- MCExpiry
  Walk <- MCWalk
  Capacity <- MCCapacity
  Callers = {c1}
  Workload = {"produce", "pick", "adjust", "setQuantity", "sweep", "status", "reserve", "release", "move"}
  MaxQty = 2
  MaxCalls = 5
  MaxFaults = 1
  MaxLines = 2
  CountedCalls = 2
CONSTRAINT MCBounds
INVARIANTS
  CountTypeOK
  LotsAttributable
  StockAttributable
  PickFollowsFefo
  NoStockFromNothing
  PickIsWhole
  ApprovedIsPosted
  CountSettles
  PostedAgainOnlyAfterFault
CHECK_DEADLOCK FALSE
