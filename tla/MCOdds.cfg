SPECIFICATION Spec
CONSTANTS
  Workers = {w1, w2}
  Events = {1, 2}
  FirstTip <- Tips
  Windows <- GameDay
  Slack = 1
  CallCost = 2
  Reserve = 3
  HaltBelow = 2
  LeaseTicks = 1
  TierTicks = 2
  BackoffMax = 2
  AuthBackoff = 3
  Postponement = 2
  SameTip = 1
  StartCredits = 7
  MaxTime = 3
  MaxMishaps = 1
  w1 = w1
  w2 = w2
CHECK_DEADLOCK FALSE
SYMMETRY WorkerSymmetry
INVARIANTS TypeOK BudgetNeverLow
PROPERTIES SlotBoughtOnce FloorKept ShownInOrder
