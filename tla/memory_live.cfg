SPECIFICATION LiveSpec
CONSTANTS
  item = item
  Owners <- OneSource
  Sources <- OneSource
  Kinds <- IngestOnly
  Remembered <- OneSource
  Workers = {w1}
  JobIds = {1, 2, 3}
  MaxAttempts = 2
  Gens = {1, 2, 3, 4}
  NoGen = 0
  NoJob = 0
  NoSource = NoSource
  Outcome <- FlakyOutcome
  Events = {"crash", "outage", "retry",
            "reindex_source", "interrupt"}
  MaxEvents = 2
INVARIANTS NoStuckRunning
PROPERTIES EventuallyIndexed EventuallyDistilled
CHECK_DEADLOCK FALSE
