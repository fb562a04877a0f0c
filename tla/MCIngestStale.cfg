SPECIFICATION Spec
CONSTANTS
  Collectors = {nba}
  Handlers = {h1, h2}
  Composers = {w1}
  Manifests = {m1, m2}
  Streams = {shots}
  Items = {e1, e2}
  ProcessOf <- EachAlone
  CollectorOf <- Sender
  ManifestOf <- NextManifest
  StreamOf <- OneStream
  KeyOf <- OwnKey
  MaxIssued = 2
  MaxFence <- Grants
  MaxGeneration = 2
  MaxCrashes = 0
  nba = nba
  railway = railway
  vps = vps
  h1 = h1
  h2 = h2
  shots = shots
  m1 = m1
  m2 = m2
  m3 = m3
  e1 = e1
  e2 = e2
  e3 = e3
  e4 = e4
  e5 = e5
  e6 = e6
CHECK_DEADLOCK FALSE
INVARIANT ActiveEvidenceComposed
