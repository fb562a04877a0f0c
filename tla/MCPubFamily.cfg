SPECIFICATION Spec
CONSTANTS
  Streams = {logs, teamSeason, teamL15}
  Leader = logs
  Ledger = {logs, teamSeason, teamL15}
  Parity = {logs, teamSeason, teamL15}
  Trailing = {teamSeason}
  Rolling = {teamL15}
  Family = {teamSeason, teamL15}
  Bound = {logs, teamSeason, teamL15}
  NumSeasons = 2
  NumCutoffs = 2
  Manifests <- EarlyEnd
  ReadyCutoff = 2
  DaysPerWeek = 1
  Workers = {}
  MaxVersions = 3
  Quota <- StreamQuota
  MaxLogs = 2
  Revised <- FirstItem
  MaxSources = 1
  MaxCutovers = 1
  MaxRepairs = 0
  logs = logs
  diet = diet
  teamSeason = teamSeason
  teamL15 = teamL15
  shots = shots
  zones = zones
  w1 = w1
  w2 = w2
CHECK_DEADLOCK FALSE
INVARIANTS TypeOK ActiveIsServable AuthorityKept CorrectionsHold RejectedContentStaysGone UncorrectedTrailingWaits
PROPERTIES FencesAdvance FamilyMovesTogether SeasonMovesTogether
