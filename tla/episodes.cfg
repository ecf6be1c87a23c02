SPECIFICATION PartSpec
CONSTANTS
  Owners <- EpisodeIds
  Kinds <- SummarizeOnly
  MaxEpisodes = 2
  JobIds = {1, 2, 3}
  MaxAttempts = 2
  Keys = {k1, k2}
  Values = {v1, v2}
  NoKey = NoKey
  NoValue = NoValue
  Workers = {w1}
  Rememberers = {w1, h1, h2}
  MaxFacts = 4
  FewFacts = 1
  MaxSaid = 4
  Buffer = 2
  MinTurns = 2
  MaxTurns = 3
  ReadLimit = 10
  NoJob = 0
  NoEpisode = NoEpisode
  Distilled = {"useful", "empty"}
  Events = {"crash", "db_failed", "outage", "retry"}
  MaxEvents = 2
INVARIANTS EpisodesInv SummariesWhole FewCurrent HistoryRuns
SYMMETRY Interchangeable
CHECK_DEADLOCK FALSE
