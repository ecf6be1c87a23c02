----------------------------- MODULE ChatPrompt -----------------------------
(* A question to the model: the agent saves the message, and the chat or think  *)
(* skill retrieves memory, reads the chat's messages and asks the model. The    *)
(* agent runs the skill within request_timeout, gives it the message as it was  *)
(* and saves what it sends. An input flow of the user interface, which follows  *)
(* a bare /chat or a tap on its button, does nothing of the kind; there only    *)
(* retrieval has a deadline, which is request_timeout too. Questions of one     *)
(* chat are answered at the same time.                                          *)
EXTENDS Faults, Integers, Sequences, FiniteSets

CONSTANTS
  ChatQuestions,   \* questions of one chat; a bound
  ChatSkills,      \* a subset of {"chat", "think"}
  Texts,           \* what may be asked, see ChatText below; a bound
  Answers,         \* of the model, see Sent below; a bound
  Mode,            \* RetrievalMode: "heuristic", "always" or "off"
  FactsEnabled,
  HistoryLimit, HistoryChars, MaxResponse

\* A text: opener is the skill its first word names and the rest is what
\* follows it; stored is how the message log names it, its own name unless
\* something had to be redacted.
ChatText == [name : STRING, stored : STRING, chars : Nat, slash : BOOLEAN, opener : STRING,
             greeting : BOOLEAN, words : Nat, trigger : BOOLEAN, command : BOOLEAN, question : BOOLEAN]

\* What the model may answer: so many runes, of so many bytes each; before of
\* them come before the last break within MaxResponse, -1 if there is none, which
\* is a full stop or not.
ChatAnswer == [chars : Nat \ {0}, width : Nat \ {0}, before : -1 .. MaxResponse - 1, stop : BOOLEAN]

ASSUME ChatAssumption ==
  /\ IsFiniteSet(ChatQuestions) /\ "before" \notin ChatQuestions
  /\ MaxResponse \in Nat \ {0} /\ HistoryLimit \in Nat /\ HistoryChars \in Nat
  /\ Texts \subseteq ChatText /\ Answers \subseteq ChatAnswer

\* normalizeChatInput and normalizeThinkInput.
NormalInput(skill, text) == IF text.opener = skill THEN [text EXCEPT !.slash = FALSE, !.opener = ""] ELSE text

\* ShouldRetrieve: a phrase of recall is looked for before the openers of commands.
ShouldRetrieve(text) ==
  /\ Mode # "off" /\ ~text.slash
  /\ \/ Mode = "always"
     \/ text.words >= 2 /\ (text.trigger \/ (~text.command /\ text.question /\ text.words >= 4))

VARIABLES
  log,       \* the chat's messages, oldest first: [by, role, name, chars, chat]
  prompt     \* prompt[q]: what Execute has of a question

chatVars == <<log, prompt>>

\* pc: where Execute is. via: who runs the skill. late: the deadline has passed.
\* memory: what the prompt will hold of it. missed: history of what retrieval could
\* not do. history: what was chosen, oldest first.
New == [pc |-> "new", skill |-> "none", via |-> "agent", text |-> "none", late |-> FALSE, memory |-> {},
        missed |-> {}, history |-> <<>>, answer |-> 0]
MissedKinds == {"facts", "results", "time"}
ChatStages == {"new", "retrieve", "embed", "search", "join", "history", "model", "reply", "failed", "done"}

\* A row of the message log; chat is isChatHistoryCandidate: neither a slash
\* command nor an answer that begins like a skill's output or a refusal.
Message(by, role, name, chars, chat) ==
  [by |-> by, role |-> role, name |-> name, chars |-> chars, chat |-> chat]
Logged == {text.stored : text \in Texts} \cup {"long", "pong", "answer", "reason"}
Messages == [by : ChatQuestions \cup {"before"}, role : {"user", "assistant"}, name : Logged, chars : Nat,
             chat : BOOLEAN]

ChatTypeOK ==
  /\ log \in Seq(Messages)
  /\ DOMAIN prompt = ChatQuestions
  /\ \A q \in ChatQuestions :
       /\ prompt[q] \in [pc : ChatStages, skill : ChatSkills \cup {"none"}, via : {"agent", "flow"},
                         text : {prompt[q].text}, late : BOOLEAN, memory : SUBSET {"facts", "results"},
                         missed : SUBSET MissedKinds, history : Seq(Messages), answer : Nat]
       /\ prompt[q].pc # "new" => prompt[q].text \in Texts

ChatInit ==
  /\ log \in {<<>>, <<Message("before", "user", "long", HistoryChars, TRUE),
                     Message("before", "assistant", "pong", 1, FALSE)>>}
  /\ prompt = [q \in ChatQuestions |-> New]

Proceed(q, pc) == prompt' = [prompt EXCEPT ![q].pc = pc]
\* A write of the message log fails; the agent only logs it.
Saves(entry) ==
  \/ log' = Append(log, entry) /\ NoFault
  \/ CanFail("log_failed") /\ Fault /\ UNCHANGED log

\* The agent saves the message with its secrets redacted and the skill begins; a
\* command leaves the flow it finds.
Ask(q) ==
  /\ prompt[q].pc = "new"
  /\ \E skill \in ChatSkills, text \in Texts, via \in {"agent", "flow"} :
       /\ via = "flow" => ~(text.slash /\ text.opener # "")
       /\ prompt' = [prompt EXCEPT ![q] = [New EXCEPT !.skill = skill, !.text = text, !.via = via,
            !.pc = IF ShouldRetrieve(NormalInput(skill, text)) THEN "retrieve" ELSE "history"]]
       /\ Saves(Message(q, "user", text.stored, text.chars, ~text.slash))

\* The agent's deadline is that of the whole request, and it passes no later than
\* the one MemoryPrompt sets within it. In the flow MemoryPrompt's is the only one.
Retrieval == {"retrieve", "embed", "search", "join"}
TimeIsUp(q) ==
  prompt' = [prompt EXCEPT ![q].late = TRUE,
                           ![q].missed = IF prompt[q].pc \in Retrieval THEN @ \cup {"time"} ELSE @]
RequestEnds(q) ==
  /\ prompt[q].via = "agent" /\ prompt[q].pc \in Retrieval \cup {"history", "model"} /\ ~prompt[q].late
  /\ CanFail("request_late") /\ Fault /\ TimeIsUp(q)
  /\ UNCHANGED log
RetrievalEnds(q) ==
  /\ prompt[q].via = "flow" /\ prompt[q].pc \in Retrieval /\ ~prompt[q].late
  /\ CanFail("retrieval_late") /\ Fault /\ TimeIsUp(q)
  /\ UNCHANGED log

\* A call fails because it is late or for a reason of its own; one of memory's is
\* then missed.
OutOfTime(q) == prompt[q].late /\ (prompt[q].via = "agent" \/ prompt[q].pc \in Retrieval)
InTime(q) == ~OutOfTime(q) /\ NoFault
Misses(q, kind, what, pc) ==
  \/ OutOfTime(q) /\ NoFault /\ Proceed(q, pc)
  \/ /\ ~OutOfTime(q) /\ CanFail(kind) /\ Fault
     /\ prompt' = [prompt EXCEPT ![q].pc = pc, ![q].missed = @ \cup {what}]

\* ContextFor: facts first; whether any match is up to the data.
LookUpFacts(q) ==
  /\ prompt[q].pc = "retrieve"
  /\ \/ ~FactsEnabled /\ NoFault /\ Proceed(q, "embed")
     \/ FactsEnabled /\ Misses(q, "facts_failed", "facts", "embed")
     \/ /\ FactsEnabled /\ InTime(q)
        /\ \E found \in SUBSET {"facts"} : prompt' = [prompt EXCEPT ![q].pc = "embed", ![q].memory = found]
  /\ UNCHANGED log

\* Search: embed the question, search the vectors, read the chunks. A failure
\* leaves the facts.
EmbedQuestion(q) ==
  /\ prompt[q].pc = "embed"
  /\ \/ InTime(q) /\ Proceed(q, "search")
     \/ Misses(q, "brain_offline", "results", "history")
  /\ UNCHANGED log

SearchVectors(q) ==
  /\ prompt[q].pc = "search"
  /\ \/ InTime(q) /\ \E pc \in {"join", "history"} : Proceed(q, pc)     \* hits, or none
     \/ Misses(q, "vectors_offline", "results", "history")
  /\ UNCHANGED log

\* A hit without a row is skipped; there may be no other.
JoinChunks(q) ==
  /\ prompt[q].pc = "join"
  /\ \/ /\ InTime(q)
        /\ \E known \in SUBSET {"results"} : prompt' = [prompt EXCEPT ![q].pc = "history", ![q].memory = @ \cup known]
     \/ Misses(q, "chunks_failed", "results", "history")
  /\ UNCHANGED log

\* buildMessages: newest first among the last messages, not what was asked, while
\* they fit; one that does not is passed over. The flow does not say what was asked.
Raw(q) == IF prompt[q].via = "agent" THEN prompt[q].text.name ELSE ""
Window == 3 * HistoryLimit + 6
Recent == SubSeq(log, IF Len(log) > Window THEN Len(log) - Window + 1 ELSE 1, Len(log))
\* Faulty: nothing is said of the text that was asked.
TakesAgain(raw, entry) == entry.chat /\ entry.chars > 0
Takes(raw, entry) == entry.chat /\ entry.chars > 0 /\ ~(entry.role = "user" /\ entry.name = raw)
Consider(raw, sofar, entry) ==
  IF Len(sofar.chosen) < HistoryLimit /\ Takes(raw, entry) /\ sofar.chars + entry.chars <= HistoryChars
  THEN [chosen |-> <<entry>> \o sofar.chosen, chars |-> sofar.chars + entry.chars] ELSE sofar
NothingChosen == [chosen |-> <<>>, chars |-> 0]
Pass(raw, messages) ==
  LET pass[k \in 0 .. Len(messages)] ==
        IF k = 0 THEN NothingChosen ELSE Consider(raw, pass[k - 1], messages[Len(messages) + 1 - k])
  IN  pass
Chosen(raw) == Pass(raw, Recent)[Len(Recent)].chosen

\* A greeting starts afresh, in chat.
Resets(q) == prompt[q].skill = "chat" /\ NormalInput("chat", prompt[q].text).greeting

GivesUp(q, kind) ==
  /\ \/ OutOfTime(q) /\ NoFault
     \/ ~OutOfTime(q) /\ CanFail(kind) /\ Fault
  /\ Proceed(q, "failed")

ReadHistory(q) ==
  /\ prompt[q].pc = "history"
  /\ \/ Resets(q) /\ NoFault /\ Proceed(q, "model")
     \/ /\ ~Resets(q) /\ InTime(q)
        /\ prompt' = [prompt EXCEPT ![q].pc = "model", ![q].history = Chosen(Raw(q))]
     \/ ~Resets(q) /\ GivesUp(q, "history_failed")
  /\ UNCHANGED log

\* trimResponse: how much is sent of an answer. The place of the break is counted
\* in bytes, the limit in runes.
Sent(answer) ==
  IF answer.chars <= MaxResponse THEN answer.chars
  ELSE IF answer.before < 0 \/ answer.before * answer.width < MaxResponse \div 2 THEN MaxResponse + 3
  ELSE IF answer.stop THEN answer.before + 1
  ELSE answer.before + 3

\* The model answers, with nothing, or not at all.
AskModel(q) ==
  /\ prompt[q].pc = "model"
  /\ \/ InTime(q) /\ \E answer \in Answers : prompt' = [prompt EXCEPT ![q].pc = "reply", ![q].answer = Sent(answer)]
     \/ GivesUp(q, "model_failed")
  /\ UNCHANGED log

\* The answer is sent and then saved; so is the reason when there is none,
\* which a later prompt takes for an answer unless it begins like a refusal. The
\* flow saves neither.
SendAnswer(q) ==
  /\ \/ prompt[q].via = "flow" /\ prompt[q].pc \in {"reply", "failed"} /\ NoFault /\ UNCHANGED log
     \/ /\ prompt[q].via = "agent" /\ prompt[q].pc = "reply"
        /\ Saves(Message(q, "assistant", "answer", prompt[q].answer, TRUE))
     \/ /\ prompt[q].via = "agent" /\ prompt[q].pc = "failed"
        /\ \E chat \in BOOLEAN : Saves(Message(q, "assistant", "reason", 1, chat))
  /\ Proceed(q, "done")

ChatNext == \E q \in ChatQuestions :
  \/ Ask(q) \/ RequestEnds(q) \/ RetrievalEnds(q)
  \/ LookUpFacts(q) \/ EmbedQuestion(q) \/ SearchVectors(q) \/ JoinChunks(q)
  \/ ReadHistory(q) \/ AskModel(q) \/ SendAnswer(q)
ChatSpec == ChatInit /\ FaultsInit /\ [][ChatNext]_<<chatVars, faults>>

\* A question is put to the model once: its own message is in the log by then
\* and is not taken for history (skill.go:176-179, agent.go:158-168). That is so
\* only of what the agent runs and where the log has the words that were asked: a
\* question of the flow (ui.go:537) or with a secret in it is put twice.
OwnQuestionOnce ==
  \A q \in ChatQuestions : \A i \in DOMAIN prompt[q].history :
    prompt[q].history[i].by = q => prompt[q].via = "flow" \/ prompt[q].text.stored # prompt[q].text.name

\* What precedes it: in the order it was said, within both limits, of people and
\* models only (skill.go:171-204).
Totals(history) ==
  LET total[k \in 0 .. Len(history)] == IF k = 0 THEN 0 ELSE total[k - 1] + history[Len(history) + 1 - k].chars
  IN  total
Chars(history) == Totals(history)[Len(history)]
Places(history) == [i \in DOMAIN history |-> {k \in DOMAIN log : log[k] = history[i]}]
HistoryFits ==
  \A q \in ChatQuestions : prompt[q].pc = "model" =>
    LET history == prompt[q].history
    IN  /\ Len(history) <= HistoryLimit /\ Chars(history) <= HistoryChars
        /\ \A i \in DOMAIN history : history[i].chat
        /\ \A i \in 1 .. Len(history) - 1 : \E k \in Places(history)[i], m \in Places(history)[i + 1] : k < m

\* While there is room, a recent message is passed over only for its length or
\* for being what is asked again (skill.go:171-194).
LeavesNothingOut ==
  \A q \in ChatQuestions : prompt[q].pc = "history" =>
    LET history == Chosen(Raw(q))
    IN  Len(history) < HistoryLimit =>
          \A i \in DOMAIN Recent : Takes(Raw(q), Recent[i]) =>
            \/ \E k \in DOMAIN history : history[k] = Recent[i]
            \/ Chars(history) + Recent[i].chars > HistoryChars

\* Retrieval is an enhancement: a question without an answer was failed by something
\* else than what memory missed, were it time ("if it cannot finish quickly the
\* answer goes out without it", runtime/memory.go:342-344).
Unanswered == {q \in ChatQuestions : prompt[q].pc = "failed" \/ (prompt[q].pc = "done" /\ prompt[q].answer = 0)}
Missed == {m \in ChatQuestions \X MissedKinds : m[2] \in prompt[m[1]].missed}
MemoryIsExtra == Cardinality(Unanswered) + Cardinality(Missed) <= faults

\* What is so: nothing that fails in retrieval costs an answer, and the time it
\* takes costs none in the flow. Where the agent runs the skill that time is the
\* request's (runtime.go:599, agent.go:450, 521), and the answer is lost with it.
OfRequest(m) == m[2] = "time" /\ prompt[m[1]].via = "agent"
MemoryCostsOnlyTime == Cardinality(Unanswered) + Cardinality({m \in Missed : ~OfRequest(m)}) <= faults

\* No memory for what cannot need it (gate.go:78-132).
MemoryIsAskedFor ==
  \A q \in ChatQuestions : prompt[q].memory # {} =>
    LET text == NormalInput(prompt[q].skill, prompt[q].text)
    IN  Mode # "off" /\ ~text.slash /\ (Mode = "heuristic" => text.trigger \/ ~text.command)

\* An answer is cut to its limit and a mark (skill.go:272-292).
AnswerKept ==
  \A q \in ChatQuestions : prompt[q].answer # 0 => prompt[q].answer <= MaxResponse + 3

\* The prompt of a chat question is what its log and memory say (skill.go).
ChatHolds ==
  OwnQuestionOnce /\ HistoryFits /\ LeavesNothingOut /\ MemoryCostsOnlyTime /\ MemoryIsAskedFor /\ AnswerKept
=============================================================================
