SPECIFICATION LiveSpec
CONSTANTS
  Updates = {1, 2}
  Ignored = {2}
  Configurations <- MCConfigurations
  Events = {"telegram_failed", "answer_lost", "handler_failed", "build_failed", "signal", "cycle_failed", "killed",
            "capture_failed", "visual_crash",
            "pull_empty", "asleep", "model_changed", "qdrant_down", "volume_wiped", "restart"}
  MaxEvents = 2
  Looks = {0, 1, 2}
  Threshold = 2
  Cooldown = 1
  Notifications = {"change"}
  MaxPageChanges = 2
INVARIANTS UpdatesKept ProcessInv DriftIsTold
PROPERTIES EventuallyDown EventuallyAnswered EventuallyTold EventuallyReady
CHECK_DEADLOCK FALSE
