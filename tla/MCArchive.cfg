SPECIFICATION Spec
CONSTANTS
  Workers = {w1, w2}
  Boards <- SomeBoards
  Refs = {old, new, raw}
  Unmapped = raw
  MarketOf <- Markets
  Tip = 2
  Window = 0
  LeaseTicks = 1
  CacheTicks = 1
  MaxTime = 3
  MaxCycles = 3
  MaxFaults = 1
  w1 = w1
  w2 = w2
  old = old
  new = new
  raw = raw
CHECK_DEADLOCK FALSE
SYMMETRY WorkerSymmetry
INVARIANTS TypeOK PointersResolve ReplayKept LatestIsReplay
PROPERTIES PromotedInOrder RecoveryKept
