SPECIFICATION FairSpec
CONSTANTS
  Collectors = {nba, railway, vps}
  Handlers = {h1, h2}
  Composers = {w1}
  Manifests = {m1, m2, m3}
  Streams = {shots}
  Items = {e1, e2, e3, e4, e5, e6}
  ProcessOf <- EachAlone
  CollectorOf <- Sender
  ManifestOf <- InPairs
  StreamOf <- OneStream
  KeyOf <- SharedKey
  MaxIssued = 1
  MaxFence <- Grants
  MaxGeneration = 2
  MaxCrashes = 1
  nba = nba
  railway = railway
  vps = vps
  h1 = h1
  h2 = h2
  shots = shots
  m1 = m1
  m2 = m2
  m3 = m3
  e1 = e1
  e2 = e2
  e3 = e3
  e4 = e4
  e5 = e5
  e6 = e6
CHECK_DEADLOCK FALSE
INVARIANTS TypeOK SucceededCoversManifest
PROPERTIES FencedCommits ImplementsStore AcceptedSettles
