SPECIFICATION ArchiveSpec
CONSTANTS
  item = item
  Owners <- OneSource
  Sources <- OneSource
  Kinds <- IngestOnly
  Remembered <- OneSource
  Workers = {w1, w2}
  JobIds = {1, 2, 3}
  MaxAttempts = 2
  Gens = {1, 2, 3, 4}
  NoGen = 0
  NoJob = 0
  NoSource = NoSource
  Outcome <- MixedOutcome
  Events = {"crash", "outage", "lost_answer", "write_failed", "resend", "retry",
            "reindex_source", "reindex_failed", "reindex_all", "interrupt"}
  MaxEvents = 2
INVARIANTS IngestInv OneRunPerSource CompletedUntilRebuilt
PROPERTIES KeepsPromise SearchableUntilRebuilt
SYMMETRY WorkerSymmetry
CHECK_DEADLOCK FALSE
