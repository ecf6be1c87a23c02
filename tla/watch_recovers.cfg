SPECIFICATION FairSpec
CONSTANTS
  a = a
  b = b
  NoWatch = NoWatch
  Watches <- OneWatch
  Seeded <- OneWatch
  Mode <- AutoMode
  Handlers = {}
  Duration = 1
  Cooldown = 2
  AskTTL = 1
  MaxTime = 8
  MaxIncidents = 4
  Punctual = TRUE
  Events = {"crash", "probe_failed", "slow_restart"}
  MaxEvents = 2
INVARIANTS WatchesHold
PROPERTIES EventuallyReported EventuallyRecovered
CHECK_DEADLOCK FALSE
