SPECIFICATION Spec
CONSTANTS
  Streams = {logs}
  Leader = logs
  Ledger = {logs}
  Parity = {logs}
  Trailing = {}
  Rolling = {}
  Family = {}
  Bound = {logs}
  NumSeasons = 2
  NumCutoffs = 2
  Manifests <- AllManifests
  ReadyCutoff = 2
  DaysPerWeek = 1
  Workers = {}
  MaxVersions = 3
  Quota <- StreamQuota
  MaxLogs = 3
  Revised <- NoItem
  MaxSources = 0
  MaxCutovers = 0
  MaxRepairs = 0
  logs = logs
  diet = diet
  teamSeason = teamSeason
  teamL15 = teamL15
  shots = shots
  zones = zones
  w1 = w1
  w2 = w2
CHECK_DEADLOCK FALSE
INVARIANT ParityRejectedContentStaysGone
