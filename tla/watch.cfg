SPECIFICATION Spec
CONSTANTS
  a = a
  b = b
  NoWatch = NoWatch
  Watches <- OneWatch
  Seeded = {}
  Mode <- AskMode
  Handlers = {h1}
  Duration = 1
  Cooldown = 1
  AskTTL = 1
  MaxTime = 4
  MaxIncidents = 2
  Punctual = FALSE
  Events = {"crash", "send_failed", "db_failed", "restart", "ignore", "toggle", "pack", "add", "delete"}
  MaxEvents = 4
INVARIANTS RestartsOnce
CHECK_DEADLOCK FALSE
