SPECIFICATION ChatSpec
CONSTANTS
  MaxEvents = 1
  Events = {"log_failed", "request_late", "retrieval_late", "facts_failed", "brain_offline", "vectors_offline",
            "chunks_failed", "history_failed", "model_failed"}
  ChatQuestions = {"q"}
  ChatSkills = {"chat", "think"}
  Texts <- MCTexts
  Answers <- MCAnswers
  Mode = "heuristic"
  FactsEnabled = TRUE
  HistoryLimit = 2
  HistoryChars = 6
  MaxResponse = 4
INVARIANT MemoryIsExtra
CHECK_DEADLOCK FALSE
