SPECIFICATION PartSpec
CONSTANTS
  ask = ask
  act = act
  Users = {u1, u2, u3}
  Allowed = {u1, u2}
  Skills = {ask, act, chat}
  Confirming = {act}
  Chat = chat
  Inputs <- InputCounts
  Tokens = {1, 2}
  Handlers = {h1, h2}
  Questions = {1, 2}
  NoFlow = NoFlow
  NoUser = NoUser
  NoToken = 0
  NoQuestion = NoQuestion
  MaxMessages = 3
  MaxEvents = 2
  Vocabulary = {"note", "delete", "note_delete", "notes", "service", "restart", "port_check", "memory",
                "path", "list", "run", "please"}
  MaxWords = 3
  Registered = {"help", "chat", "memory", "service_list", "service_logs", "service_restart", "note_add",
                "note_list", "note_delete", "file_list", "file_read", "file_write", "memory_add",
                "user_add", "port_check", "external"}
  Shadowing = {"external_word", "note"}
  MaxTokens = 120
  MaxFacts = 2
  MaxResults = 3
  FactLists <- MCFactLists
  ResultLists <- MCResultLists
  Events = {"reply_failed", "db_failed", "crash",
            "write_failed", "answer_lost", "brain_crash", "edge_crash",
            "spawn_failed", "server_notifies", "tool_slow", "server_dies",
            "own_error", "deadline",
            "log_failed", "request_late", "retrieval_late", "facts_failed", "brain_offline", "vectors_offline",
            "chunks_failed", "history_failed", "model_failed",
            "visual_removed", "capture_failed", "copy_failed", "ocr_failed", "visual_send_failed",
            "visual_update_failed", "visual_crash",
            "pull_empty", "asleep", "model_changed", "qdrant_down", "volume_wiped", "restart"}
  SkillIdentifiers = {"c", "a", "b", "start", "hi"}
  CoreNames = {"start"}
  Offers <- MCOffers
  CallIds = {h1, h2}
  CallKinds = {"skill", "generate", "voice", "embed", "probe"}
  ToolCalls = {"t1", "t2", "t3"}
  Inventories <- MCInventories
  RemoteHosts = {"nas"}
  LocalSystemd = TRUE
  Looks = {0, 1, 2}
  Threshold = 2
  Cooldown = 1
  Notifications = {"both"}
  MaxPageChanges = 1
  Widths <- MCWidths
  ChatQuestions = {h1, h2}
  ChatSkills = {"chat", "think"}
  Texts <- MCTexts
  Answers <- MCAnswers
  Mode = "heuristic"
  FactsEnabled = TRUE
  HistoryLimit = 2
  HistoryChars = 6
  MaxResponse = 4
  Target = 10
  OverlapAsked = 2
  Documents <- MCDocuments
  DayHours = 4
  Days = 4
  ClockChange = 6
INVARIANTS PartsTypeOK ConfirmedByOwnerOnce DialoguesHold EdgeCallsHold ToolCallsHold ScheduleHolds RoutingHolds
  ServicesHold ContextHolds ChunksHold ChatHolds VisualCooldownKept ProvisioningHolds TwoWatchesHold
PROPERTIES KeepsConfirmation RegistryHolds
SYMMETRY Interchangeable
CHECK_DEADLOCK FALSE
