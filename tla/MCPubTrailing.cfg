SPECIFICATION Spec
CONSTANTS
  Streams = {logs, diet}
  Leader = logs
  Ledger = {logs, diet}
  Parity = {logs}
  Trailing = {diet}
  Rolling = {}
  Family = {}
  Bound = {logs, diet}
  NumSeasons = 2
  NumCutoffs = 2
  Manifests <- AllManifests
  ReadyCutoff = 2
  DaysPerWeek = 1
  Workers = {}
  MaxVersions = 3
  Quota <- StreamQuota
  MaxLogs = 3
  Revised <- FirstItem
  MaxSources = 1
  MaxCutovers = 1
  MaxRepairs = 0
  logs = logs
  diet = diet
  teamSeason = teamSeason
  teamL15 = teamL15
  shots = shots
  zones = zones
  w1 = w1
  w2 = w2
CHECK_DEADLOCK FALSE
INVARIANT TrailingWaits
