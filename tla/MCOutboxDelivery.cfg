SPECIFICATION FairSpec
CONSTANTS
  Invocations = {p1}
  Items = {new, roster}
  Manifests = {m2}
  Bootstraps = {b1}
  InstructionOf <- OwnInstruction
  CutoffOf <- Cutoffs
  Capacity = 1
  BusyRetryLimit = 1
  MaxMishaps = 1
  p1 = p1
  p2 = p2
  m1 = m1
  m2 = m2
  b1 = b1
  old = old
  new = new
  roster = roster
PROPERTIES NothingLost OpenRowsDelivered DiscoveryUnlessRefused
