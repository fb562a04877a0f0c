SPECIFICATION Spec
CONSTANTS
  Invocations = {p1, p2}
  Items = {old}
  Manifests = {m1, m2}
  Bootstraps = {}
  InstructionOf <- OwnInstruction
  CutoffOf <- Cutoffs
  Capacity = 2
  BusyRetryLimit = 1
  MaxMishaps = 1
  p1 = p1
  p2 = p2
  m1 = m1
  m2 = m2
  b1 = b1
  old = old
  new = new
  roster = roster
SYMMETRY InvocationSymmetry
INVARIANTS TypeOK LeaseCovers CompleteMeansSent
PROPERTY NothingLost
