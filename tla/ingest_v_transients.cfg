SPECIFICATION Spec
CONSTANTS
  item = item
  Owners <- OneSource
  Sources <- OneSource
  Kinds <- IngestOnly
  Remembered <- NoneRemembered
  Workers = {w1, w2}
  JobIds = {1, 2, 3}
  MaxAttempts = 2
  Gens = {1, 2, 3, 4}
  NoGen = 0
  NoJob = 0
  NoSource = NoSource
  Outcome <- FlakyOutcome
  Events = {"outage"}
  MaxEvents = 2
INVARIANTS TransientsDoNotCount
CHECK_DEADLOCK FALSE
