SPECIFICATION PartSpec
CONSTANTS
  Owners <- EpisodeIds
  Kinds <- SummarizeOnly
  MaxEpisodes = 2
  JobIds = {1, 2, 3}
  MaxAttempts = 2
  Keys = {k}
  Values = {v1, v2}
  NoKey = NoKey
  NoValue = NoValue
  Workers = {w1}
  Rememberers = {w1, h1}
  MaxFacts = 2
  FewFacts = 2
  MaxSaid = 4
  Buffer = 2
  MinTurns = 2
  MaxTurns = 3
  ReadLimit = 10
  NoJob = 0
  NoEpisode = NoEpisode
  Distilled = {"useful"}
  Events = {}
  MaxEvents = 1
INVARIANTS OneCurrent
CHECK_DEADLOCK FALSE
