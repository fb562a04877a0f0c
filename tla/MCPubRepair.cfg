SPECIFICATION Spec
CONSTANTS
  Streams = {logs, shots, zones}
  Leader = logs
  Ledger = {logs}
  Parity = {logs}
  Trailing = {}
  Rolling = {}
  Family = {}
  Bound = {logs, shots}
  NumSeasons = 1
  NumCutoffs = 2
  Manifests <- AllManifests
  ReadyCutoff = 2
  DaysPerWeek = 1
  Workers = {w1, w2}
  MaxVersions = 3
  Quota <- StreamQuota
  MaxLogs = 1
  Revised <- FirstSeason
  MaxSources = 1
  MaxCutovers = 0
  MaxRepairs = 1
  logs = logs
  diet = diet
  teamSeason = teamSeason
  teamL15 = teamL15
  shots = shots
  zones = zones
  w1 = w1
  w2 = w2
CHECK_DEADLOCK FALSE
SYMMETRY WorkerSymmetry
INVARIANT RejectedContentStaysGone
PROPERTY CompositionsFresh
