SPECIFICATION Spec
CONSTANTS
  a = a
  b = b
  NoWatch = NoWatch
  Watches <- OneWatch
  Seeded <- OneWatch
  Mode <- NotifyMode
  Handlers = {h1}
  Duration = 1
  Cooldown = 2
  AskTTL = 1
  MaxTime = 4
  MaxIncidents = 2
  Punctual = FALSE
  Events = {"toggle"}
  MaxEvents = 1
PROPERTIES PauseLasts
CHECK_DEADLOCK FALSE
