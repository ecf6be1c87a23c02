------------------------------- MODULE Routing -------------------------------
(* From the text of a message to a skill (internal/router, rules and llm):     *)
(* the deterministic stages in their order, then the classifier, which asks    *)
(* the model for a group and for a skill of it and may prefer what phrases of  *)
(* the text suggest. A word is a token; "name" is the name of a service, "id"  *)
(* a number, "path" looks like a path, "please" says nothing.                  *)
EXTENDS Naturals, FiniteSets, SequencesExt

CONSTANTS
  Vocabulary,  \* the words a text is made of; a bound
  MaxWords,    \* bound: words of a text
  Registered,  \* the skills of the modules that are enabled
  Shadowing    \* words an external skill's name or alias may be

Is(group, mutating, needs) == [group |-> group, mutating |-> mutating, needs |-> needs]
RoutedSkills ==
  [help |-> Is("core", FALSE, {}), chat |-> Is("chat", FALSE, {}), status |-> Is("system", FALSE, {}),
   memory |-> Is("system", FALSE, {}), service_list |-> Is("services", FALSE, {}),
   service_status |-> Is("services", FALSE, {"service"}), service_logs |-> Is("services", FALSE, {"service"}),
   service_restart |-> Is("services", TRUE, {"service"}), note_add |-> Is("notes", TRUE, {"text"}),
   note_list |-> Is("notes", FALSE, {}), note_delete |-> Is("notes", TRUE, {"id"}), file_list |-> Is("files", FALSE, {}),
   file_read |-> Is("files", FALSE, {"path"}), file_stat |-> Is("files", FALSE, {}), file_search |-> Is("files", FALSE, {}),
   file_write |-> Is("files", TRUE, {"path"}), file_replace |-> Is("files", TRUE, {"path", "find"}),
   watch_list |-> Is("watch", FALSE, {}), watch_pause |-> Is("watch", TRUE, {"id"}), watch_enable |-> Is("watch", TRUE, {}),
   memory_add |-> Is("memory", TRUE, {}), memory_list |-> Is("memory", FALSE, {}), memory_delete |-> Is("memory", TRUE, {}),
   exec_code |-> Is("workbench", TRUE, {"runtime", "code"}), exec_file |-> Is("workbench", TRUE, {"path"}),
   workspace_clean |-> Is("workbench", TRUE, {}), browser_text |-> Is("browser", FALSE, {}),
   user_providers |-> Is("accounts", FALSE, {}), user_list |-> Is("accounts", FALSE, {}),
   user_add |-> Is("accounts", TRUE, {"username", "password"}), user_delete |-> Is("accounts", TRUE, {"username"}),
   port_check |-> Is("network", FALSE, {}), external |-> Is("other", TRUE, {})]
Routable == DOMAIN RoutedSkills

ASSUME RoutingAssumption ==
  /\ "please" \in Vocabulary /\ MaxWords \in Nat \ {0}
  /\ Registered \subseteq Routable

Mutates(s) == RoutedSkills[s].mutating
Needs(s) == RoutedSkills[s].needs

\* Skills the classifier knows phrases for, and questions of its own for.
Unknown == {"chat", "file_stat", "file_search", "watch_enable", "memory_add", "memory_list", "memory_delete", "browser_text",
            "port_check", "external"}
Phrased == Registered \ Unknown
Questioned == Routable \ Unknown
Vague == {"chat", "help", "status", "service_list", "watch_list", "note_list", "user_providers"}

VARIABLES
  words, slash,   \* the text: its words, and whether it starts with a slash
  shadow,         \* the word an external skill has registered
  modelOn,        \* whether there is a classifier
  phrases,        \* skills that phrases of the text suggest
  rstage,         \* the stage that is next, or "done"
  verdict,        \* the decision: who took it, for which skill, or the question
  said            \* what the model said of the group, or NothingSaid

routingVars == <<words, slash, shadow, modelOn, phrases, rstage, verdict, said>>

RouteStages == <<"slash", "explicit", "shortcut", "registry", "rules", "phrases", "group", "skill">>
Sure == {"no", "ask", "run"}   \* below clarify_threshold, below execute_threshold, above
NoText == <<"please">>   \* stands for a text that matched nothing
NothingSaid == [group |-> "", sure |-> "no", asks |-> FALSE]
Undecided == [by |-> "none", skill |-> "", args |-> {}, asks |-> FALSE]
Runs(by, s, args) == [by |-> by, skill |-> s, args |-> args, asks |-> FALSE]
Question == [by |-> "model", skill |-> "", args |-> {}, asks |-> TRUE]
Matched(d) == d.skill # ""

RoutingTypeOK ==
  /\ words \in UNION {[1 .. n -> Vocabulary] : n \in 1 .. MaxWords}
  /\ rstage \in ToSet(RouteStages) \cup {"done"} /\ phrases \subseteq Phrased
  /\ verdict.skill \in Routable \cup {""} /\ said.sure \in Sure

RoutingInit ==
  /\ words \in UNION {[1 .. n -> Vocabulary] : n \in 1 .. MaxWords}
  /\ slash \in BOOLEAN /\ shadow \in Shadowing /\ modelOn \in BOOLEAN
  /\ phrases = {} /\ rstage = "slash" /\ verdict = Undecided /\ said = NothingSaid

(* ---------------------------- deterministic stages --------------------------- *)

\* A word with an underscore is read as the words it joins.
Joined(w) == CASE w = "note_delete" -> <<"note", "delete">> [] w = "port_check" -> <<"port", "check">> [] OTHER -> <<w>>
Normal(ws) == FlattenSeq([i \in DOMAIN ws |-> Joined(ws[i])])

Named(skill, takes, forms) == {[words |-> f, skill |-> skill, takes |-> takes] : f \in forms}
\* The table of routeCommand; takes says what may follow.
Commands ==
  Named("help", "topic", {<<"help">>}) \cup Named("memory", "nothing", {<<"memory">>, <<"ram">>})
  \cup Named("watch_enable", "pack", {<<"enable">>}) \cup Named("chat", "text", {<<"chat">>, <<"ask">>})
  \cup Named("service_list", "nothing", {<<"services">>, <<"service", "list">>})
  \cup Named("service_status", "service", {<<"service">>, <<"service", "status">>})
  \cup Named("service_restart", "service", {<<"restart">>, <<"service", "restart">>})
  \cup Named("service_logs", "service", {<<"logs">>, <<"log">>, <<"service", "logs">>})
  \cup Named("note_delete", "id", {<<"note", "delete">>, <<"delete", "note">>})
  \cup Named("note_add", "text", {<<"note">>, <<"note", "add">>, <<"add", "note">>})
  \cup Named("note_list", "nothing", {<<"notes">>, <<"note", "list">>, <<"list", "notes">>})
  \cup Named("memory_add", "text", {<<"remember">>, <<"memory", "add">>})
  \cup Named("memory_list", "query", {<<"memories">>, <<"memory", "list">>})
  \cup Named("memory_delete", "ref", {<<"forget">>, <<"memory", "delete">>})
  \cup Named("file_list", "where", {<<"files">>, <<"file", "list">>, <<"list", "files">>})
  \cup Named("file_read", "path", {<<"read">>, <<"file", "read">>, <<"read", "file">>})
  \cup Named("file_stat", "path", {<<"metadata">>, <<"file", "info">>})
  \cup Named("file_search", "pattern", {<<"grep">>, <<"search", "files">>})
  \cup Named("file_write", "path", {<<"write">>, <<"file", "write">>, <<"write", "file">>})
  \cup Named("file_replace", "change", {<<"replace">>, <<"file", "replace">>})
  \cup Named("exec_code", "code", {<<"run">>, <<"exec", "code">>}) \cup Named("exec_file", "path", {<<"exec", "file">>})
  \cup Named("workspace_clean", "nothing", {<<"workspace", "clean">>})
  \cup Named("browser_text", "url", {<<"browse">>}) \cup Named("watch_list", "nothing", {<<"watch", "list">>})
  \cup Named("watch_pause", "id", {<<"watch", "pause">>}) \cup Named("user_providers", "nothing", {<<"users">>})
  \cup Named("user_list", "user", {<<"user", "list">>}) \cup Named("user_add", "user", {<<"user", "add">>})
  \cup Named("user_delete", "user", {<<"user", "delete">>})

\* What must be recognised in what follows, and is refused otherwise: a path, a
\* change of a file, code, an address.
Recognised == {"path", "change", "code", "url"}
Parses(takes, rest) ==
  CASE takes \in Recognised -> takes \in ToSet(rest)
    [] takes = "pattern" -> rest # <<>>
    [] OTHER -> TRUE
\* The arguments read from it. The last of the words for a user is no provider.
ArgsOf(takes, rest) ==
  IF rest = <<>> \/ takes = "nothing" THEN {}
  ELSE CASE takes = "where" -> {"path"}
         [] takes = "change" -> {"path", "find", "replace"}
         [] takes = "code" -> {"runtime", "code"}
         [] takes = "user" -> IF Len(rest) > 1 THEN {"username", "password"} ELSE {"username"}
         [] OTHER -> {takes}

\* What "watch" means depends on what follows it.
Watch(rest) ==
  CASE rest = <<>> \/ rest = <<"list">> -> "watch_list"
    [] Len(rest) > 1 /\ Head(rest) = "pause" -> "watch_pause"
    [] OTHER -> ""

\* routeCommand: the decision for a command and what follows it. After a slash a
\* command that takes nothing drops the rest; without one it is refused.
Command(command, rest, by) ==
  CASE command = <<"status">> ->
         IF rest = <<>> THEN Runs(by, "status", {}) ELSE Runs(by, "service_status", {"service"})
    [] command = <<"watch">> ->
         IF Watch(rest) = "" THEN Undecided ELSE Runs(by, Watch(rest), IF Len(rest) > 1 THEN {"id"} ELSE {})
    [] command = <<"run">> /\ ~Parses("code", rest) ->
         IF Parses("path", rest) THEN Runs(by, "exec_file", {"path"}) ELSE Undecided
    [] rest = <<>> /\ command \in {<<"file", "read">>, <<"read", "file">>} -> Runs(by, "file_read", {})
    [] OTHER ->
         LET rows == {c \in Commands : c.words = command}
             c == CHOOSE c \in rows : TRUE
         IN IF rows = {} \/ ~Parses(c.takes, rest) \/ (c.takes = "nothing" /\ by # "slash" /\ rest # <<>>) THEN Undecided
            ELSE Runs(by, c.skill, ArgsOf(c.takes, rest))

\* Only the first word after the slash names the command.
SlashDecision(ws) == Command(Joined(Head(ws)), Tail(ws), "slash")

\* Without one the longest of up to three leading words does.
ExplicitDecision(ws) ==
  LET Lead(n) == Command(Normal(SubSeq(ws, 1, n)), SubSeq(ws, n + 1, Len(ws)), "explicit")
      fits == {n \in 1 .. 3 : n <= Len(ws) /\ Matched(Lead(n))}
  IN IF fits = {} THEN Undecided ELSE Lead(CHOOSE n \in fits : \A m \in fits : m <= n)

Shortcuts == {"status", "memory", "help", "services", "notes"}
ShortcutDecision(ws) ==
  IF Len(ws) = 1 /\ ws[1] \in Shortcuts
  THEN Runs("shortcut", CASE ws[1] = "services" -> "service_list" [] ws[1] = "notes" -> "note_list" [] OTHER -> ws[1], {})
  ELSE Undecided

\* Names and aliases of skills, the external one's among them: of the whole text
\* or, with the rest as its argument, of the first word.
Identifiers ==
  [w \in {"memory", "notes", "services", "port_check", shadow} |->
     CASE w = "notes" -> "note_list" [] w = "services" -> "service_list" [] w \in {"memory", "port_check"} -> w
       [] OTHER -> "external"]
RegistryDecision(ws) ==
  IF ws = <<"list", "services">> THEN Runs("registry", "service_list", {})
  ELSE IF ws[1] \in DOMAIN Identifiers
  THEN Runs("registry", Identifiers[ws[1]], IF Len(ws) > 1 THEN {"text"} ELSE {})
  ELSE Undecided

Generic == {"please", "service", "services", "status", "restart", "logs", "log"}
Concrete(ws) == {w \in ToSet(ws) : w \notin Generic}
Around(ws, w, n) == {i \in DOMAIN ws : ws[i] = w /\ i + n <= Len(ws)}
Pair(ws, a, b) == {i \in Around(ws, a, 1) : ws[i + 1] = b}

\* rules.Parse, in its order: a restart or logs of something wherever the words
\* are, the status of something, and the words of single skills.
RuleDecision(ws) ==
  IF \E i \in Around(ws, "restart", 1) : Concrete(SubSeq(ws, i + 1, Len(ws))) # {} THEN Runs("rules", "service_restart", {"service"})
  ELSE IF ToSet(ws) \cap {"logs", "log"} # {} /\ Concrete(ws) # {} THEN Runs("rules", "service_logs", {"service"})
  ELSE IF \E i \in Pair(ws, "service", "status") : Concrete(SubSeq(ws, 1, i - 1)) # {} THEN Runs("rules", "service_status", {"service"})
  ELSE IF Pair(ws, "list", "notes") \cup Pair(ws, "notes", "list") # {} THEN Runs("rules", "note_list", {})
  ELSE IF ToSet(ws) \cap {"memory", "ram"} # {} THEN Runs("rules", "memory", {})
  ELSE Undecided

Deterministic(s) ==
  CASE s = "slash" -> IF slash THEN SlashDecision(words) ELSE Undecided
    [] s = "explicit" -> ExplicitDecision(words)
    [] s = "shortcut" -> ShortcutDecision(words)
    [] s = "registry" -> RegistryDecision(words)
    [] s = "rules" -> RuleDecision(words)
    [] OTHER -> Undecided

\* Router.Route: the first stage that matches decides.
Stage(n) ==
  /\ n <= 5 /\ rstage = RouteStages[n]
  /\ LET d == Deterministic(rstage)
     IN IF Matched(d) THEN verdict' = d /\ rstage' = "done"
        ELSE verdict' = verdict /\ rstage' = IF n = 5 /\ ~modelOn THEN "done" ELSE RouteStages[n + 1]
  /\ UNCHANGED <<words, slash, shadow, modelOn, phrases, said>>

\* Router.IsCommand.
IsSlashCommand == slash /\ (Matched(SlashDecision(words)) \/ Matched(RegistryDecision(words)))

(* --------------------------------- classifier -------------------------------- *)

ArgumentNames == UNION {Needs(s) : s \in Routable}
AnswerKeys == {{}, {"name"}, {"note"}, {"user", "password"}, ArgumentNames}

Score(s) == IF Needs(s) # {} \/ s = "user_list" THEN 6 ELSE 5
\* bestHeuristicSkillMatch: the only skill with the highest score, with every
\* argument it needs; an empty list of skills allows all of them.
Suggested(allowed) ==
  LET found == IF allowed = {} THEN phrases ELSE phrases \cap allowed
      best == {s \in found : \A o \in found : Score(s) >= Score(o)}
  IN IF Cardinality(best) = 1 THEN Runs("phrases", CHOOSE s \in best : TRUE, UNION {Needs(s) : s \in best}) ELSE Undecided

InGroup(g) == {s \in Registered \ {"chat"} : RoutedSkills[s].group = g}
Groups == {RoutedSkills[s].group : s \in Registered} \ {"chat"}
Concludes(d) == verdict' = d /\ rstage' = "done"
ClassifierFails == \* the model cannot be asked: the error is the caller's
  verdict' = [Undecided EXCEPT !.by = "error"] /\ rstage' = "done"

\* What the text suggests is known before the model is asked; for a file it is
\* enough. From here on only that matters of the text, and the rest is forgotten.
BeforeModel ==
  /\ rstage = "phrases"
  /\ words' = NoText /\ slash' = FALSE /\ shadow' = "" /\ modelOn' = FALSE
  /\ phrases' \in {p \in SUBSET Phrased : Cardinality(p) <= 2}
  /\ LET d == Suggested({})'
     IN IF d.skill \in {"file_write", "file_read", "file_list"} THEN Concludes(d)
        ELSE rstage' = "group" /\ verdict' = verdict
  /\ UNCHANGED said

\* shouldUseRouteRescue and the first half of shouldUseSkillRescue: a suggestion
\* goes before no answer and before a question, unless it is to restart a service.
Rescues(d, suggestion) ==
  /\ Matched(suggestion)
  /\ ~(d.asks /\ suggestion.skill = "service_restart")
  /\ ~Matched(d)

\* The confidence in the group is what lets a skill be run.
Gate(sure) == sure = "run"

\* resolveRouteDecision.
GroupDecision(g, sure, asks) ==
  IF asks \/ (g \in Groups \cup {"chat"} /\ sure = "ask" /\ ~Gate(sure)) THEN Question
  ELSE IF g = "chat" /\ Gate(sure) /\ "chat" \in Registered THEN Runs("model", "chat", {"text"})
  ELSE Undecided

AskGroup ==
  /\ rstage = "group"
  /\ \/ ClassifierFails /\ UNCHANGED said
     \/ \E g \in Groups \cup {"chat", "unknown"}, sure \in Sure, asks \in BOOLEAN :
          LET d == GroupDecision(g, sure, asks)
              onward == g \in Groups /\ Gate(sure) /\ ~asks
              suggestion == Suggested({})
          IN /\ said' = [group |-> g, sure |-> sure, asks |-> asks]
             /\ IF onward
                THEN IF Matched(suggestion) /\ suggestion.skill \notin InGroup(g) THEN Concludes(suggestion)
                     ELSE rstage' = "skill" /\ verdict' = verdict
                ELSE Concludes(IF Rescues(d, suggestion) \/ (d.skill = "chat" /\ Matched(suggestion))
                               THEN suggestion ELSE d)
  /\ UNCHANGED <<words, slash, shadow, modelOn, phrases>>

\* Faulty: whatever the model names is run.
AnySkill(s, allowed) == s \in Routable
\* Only a skill of the group is accepted.
Accepted(s, allowed) == s \in allowed

\* normalizeArguments: other names of an argument.
Meant(keys) ==
  keys \cup (IF "name" \in keys THEN {"service", "path"} ELSE {}) \cup (IF "note" \in keys THEN {"text", "id"} ELSE {})
       \cup (IF "user" \in keys THEN {"username"} ELSE {})
\* inferArgumentsFromText: what the model left out and the text has, but for the
\* service.
Inferred(s, args, inText) == IF s \in Routable THEN args \cup ((Needs(s) \cap inText) \ {"service"}) ELSE args
\* requiredArgumentQuestion.
Missing(s, args) == ~(Needs(s) \subseteq args)
\* routeArguments: only the arguments the classifier knows of the skill go on.
Carries(s, args) == args \cap Needs(s)

\* resolveSkillDecision: the skill the model named, or the only one of the group.
\* A question is put to the user, except for a skill that changes nothing and has
\* what it needs; a missing argument is asked for.
SkillDecision(s, allowed, args, asks, question) ==
  LET harmless == s \in Registered /\ ~Mutates(s) /\ ~Missing(s, args)
  IN IF asks /\ (question \/ s \in Questioned) /\ ~harmless THEN Question
     ELSE IF ~Accepted(s, allowed) THEN Undecided
     ELSE IF Missing(s, args) THEN Question
     ELSE Runs("model", s, Carries(s, args))

\* shouldUseSkillRescue; whether the suggestion's arguments are the better ones is
\* left open.
Prefers(d, suggestion, better) ==
  \/ Rescues(d, suggestion)
  \/ /\ Matched(d) /\ Matched(suggestion)
     /\ IF d.skill = suggestion.skill THEN better
        ELSE d.skill \in Vague \/ Cardinality(suggestion.args) > Cardinality(d.args)

AskSkill ==
  /\ rstage = "skill"
  /\ LET allowed == InGroup(said.group)
     IN \/ ClassifierFails
        \/ \E named \in allowed \cup {"", "help", "wipe_disk"}, keys \in AnswerKeys, inText \in {{}, ArgumentNames},
              asks, question, better \in BOOLEAN :
             LET s == IF named = "" /\ Cardinality(allowed) = 1 THEN CHOOSE x \in allowed : TRUE ELSE named
                 d == SkillDecision(s, allowed, Inferred(s, Meant(keys), inText), asks, question)
             IN Concludes(IF Prefers(d, Suggested(allowed), better) THEN Suggested(allowed) ELSE d)
  /\ UNCHANGED <<words, slash, shadow, modelOn, phrases, said>>

RoutingNext ==
  \/ \E n \in 1 .. Len(RouteStages) : Stage(n)
  \/ BeforeModel \/ AskGroup \/ AskSkill

RoutingSpec == RoutingInit /\ [][RoutingNext]_routingVars

(* -------------------------------- properties -------------------------------- *)

\* "the classifier picks first a group and then a skill inside that group, both
\* from closed lists. Confidence at or above execute_threshold runs" (docs/
\* releases/v0.2.0.md:93-96): what the model alone decides to run is a skill of
\* the group it was sure of, with the arguments it needs, and not while it asks.
ModelIsBounded ==
  verdict.by = "model" /\ Matched(verdict) /\ verdict.skill # "chat" =>
    /\ said.sure = "run" /\ ~said.asks
    /\ verdict.skill \in InGroup(said.group) /\ Needs(verdict.skill) \subseteq verdict.args

\* A text that is a built-in command or shortcut is never taken by the name or an
\* alias of an external skill, nor by the model (the order of Router.Route).
BuiltinWordsKept ==
  rstage \in {"phrases", "done"} /\ (Matched(ExplicitDecision(words)) \/ Matched(ShortcutDecision(words)))
    => verdict.by \in {"slash", "explicit", "shortcut"}

\* A text that may end a dialogue (IsCommand) is decided without the model.
CommandsAreDecided ==
  rstage \in {"phrases", "done"} /\ IsSlashCommand =>
    verdict.by \in {"slash", "explicit", "shortcut", "registry"}

\* The model decides within bounds, and never about what is a command.
RoutingHolds == ModelIsBounded /\ BuiltinWordsKept /\ CommandsAreDecided
=============================================================================
