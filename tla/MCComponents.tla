----------------------------- MODULE MCComponents -----------------------------
(* The components that share no state with the queue, each on its own, and the  *)
(* watches over two of them: a behaviour belongs to one part, chosen in Init.   *)
(* The parts keep their variables, at rest while it is another's turn; those of *)
(* the watches, an instance because its names meet others, are v1 .. v9.        *)
EXTENDS AgentRequests, MemoryContext, Routing, RemoteCalls, McpClient, VisualWatch, MemoryProvisioning,
  HostServices, SkillRegistry, LocalSchedule, MCChatPrompt, MemoryChunks, TLC

CONSTANTS ask, act   \* a skill with two fields, and one to confirm with one field

VARIABLES part, v1, v2, v3, v4, v5, v6, v7, v8, v9

InputCounts == [s \in Skills |-> CASE s = ask -> 2 [] s = act -> 1 [] OTHER -> 0]

\* Goroutines are interchangeable, those that handle a message, serve a call or
\* answer a question, and so are the users the configuration allows.
Interchangeable == Permutations(Handlers) \cup Permutations(Allowed)

(* ---------------------------- values of constants ---------------------------- *)

\* Skills: a clash of every kind between the origins.
Definition(name, aliases) == [name |-> name, aliases |-> aliases, root |-> 1, valid |-> TRUE]
Others == {Definition("a", <<>>), Definition("b", <<>>), Definition("b", <<"hi">>), Definition("start", <<>>),
           Definition("hi", <<"a">>)}
MCOffers == [origin \in {"builtin", "external", "mcp", "remote", "local", "core"} |->
  CASE origin = "builtin" -> {Definition("a", <<"b">>), Definition("a", <<>>)}
    [] origin = "core" -> {Definition("start", <<"hi">>)}
    [] origin = "mcp" -> {Definition("b", <<>>)}
    [] origin = "external" -> Others \cup {[Definition("b", <<>>) EXCEPT !.root = 2],
                                           [Definition("c", <<>>) EXCEPT !.valid = FALSE]}
    [] OTHER -> Others]

\* Services of every backend, near and far, and lists that are refused.
Service(alias, unit, host, backend) == [alias |-> alias, unit |-> unit, host |-> host, backend |-> backend]
MCInventories == {{Service("", "tailscale", "", "systemd"), Service("web", "", "nas", "compose")},
                  {Service("db", "pg", "", "docker")},
                  {Service("", "nginx", "", "systemd"), Service("nginx", "x", "", "docker")},
                  {Service("web", "tailscaled", "", "compose")},
                  {Service("x", "y", "moon", "systemd")}}

\* Two models of different width.
MCWidths == [m |-> 3, n |-> 4]

\* Facts and results that repeat a key, a source or an opening, at both ends of
\* the budget.
Fact(key, plain, wide) == [key |-> key, size |-> [plain |-> plain, wide |-> wide]]
MCFactLists == {<<>>, <<Fact("a", 23, 0)>>, <<Fact("a", 27, 11), Fact("A", 3, 0), Fact("a", 20, 0)>>,
                <<Fact("a", 7, 31), Fact("b", 19, 1)>>}
Found(chunk, source, print, score, age, label, n, each, wide) ==
  [chunk |-> chunk, source |-> source, print |-> print, score |-> score, age |-> age,
   label |-> [plain |-> label, wide |-> 0], body |-> [words |-> n, each |-> each, wide |-> wide]]
Candidates == {Found(1, 1, 1, 60, 400, 83, 60, 6, FALSE), Found(2, 1, 2, 58, 3, 30, 5, 6, TRUE),
               Found(3, 1, 3, 70, 10, 20, 3, 5, FALSE), Found(4, 2, 3, 61, 10000, 87, 100, 5, TRUE)}
MCResultLists == {<<>>} \cup UNION {[1 .. n -> Candidates] : n \in 1 .. 3}

\* Documents of up to four lines: headings of three levels, lines of one or two
\* sentences, and one sentence that does not fit a chunk. n words come before.
Written(level, title, n, ends) == [level |-> level, title |-> title, first |-> n + 1, ends |-> ends]
LinesFrom(n) ==
  {Written(0, 0, n, ends) : ends \in {<<>>, <<n + 2>>, <<n + 3, n + 7>>, <<n + 9>>}} \cup
  {Written(1, 11, n, <<>>), Written(2, 12, n, <<>>), Written(2, 13, n, <<>>), Written(3, 14, n, <<>>)}
LastWord(text) == IF text = <<>> THEN 0 ELSE Behind(text[Len(text)]) - 1
Longer(texts) == {<<>>} \cup UNION {{Append(text, line) : line \in LinesFrom(LastWord(text))} : text \in texts}
MCDocuments == [each : {3, 7}, lines : Longer(Longer(Longer(Longer({<<>>}))))]

(* ----------------------- an instance beside the others ----------------------- *)

Nothing == "none"

\* Two watches, one that asks and one that heals, of which one is added or removed,
\* a cooldown longer than the condition, and two messages or faults.
Watches == INSTANCE WatchService WITH
  Watches <- {"a", "b"}, Seeded <- {"a"}, NoWatch <- Nothing, Mode <- [a |-> "ask", b |-> "auto"],
  Handlers <- {"h"}, Duration <- 1, Cooldown <- 2, AskTTL <- 1, MaxTime <- 3, MaxIncidents <- 3,
  Punctual <- FALSE, MaxEvents <- 2,
  Events <- {"crash", "send_failed", "db_failed", "probe_failed", "slow_restart", "add", "delete"},
  now <- v1, sick <- v2, watches <- v3, incidents <- v4, poller <- v5, handler <- v6, alerted <- v7,
  restarts <- v8, events <- v9

(* ----------------------------- the parts in turn ----------------------------- *)

Slots == <<v1, v2, v3, v4, v5, v6, v7, v8, v9>>
EmptySlots ==
  /\ v1 = Nothing /\ v2 = Nothing /\ v3 = Nothing /\ v4 = Nothing /\ v5 = Nothing
  /\ v6 = Nothing /\ v7 = Nothing /\ v8 = Nothing /\ v9 = Nothing
Alone == {"requests", "context", "routing", "registry", "remote", "mcp", "services", "visual", "provisioning",
          "schedule", "prompt", "chunks"}

\* A part whose turn it is not starts in one of its initial states.
PartInit ==
  /\ part \in Alone \cup {"watches"}
  /\ part # "requests" => mode = "polling"
  /\ part # "context" => facts = <<>> /\ results = <<>>
  /\ part # "routing" => words = NoText /\ slash = FALSE /\ shadow = "note" /\ modelOn = FALSE
  /\ part # "services" => services = NewManager({Service("db", "pg", "", "docker")})
  /\ part # "schedule" => hour = 0 /\ shift = 0 /\ slow = FALSE
  /\ part # "provisioning" => config = [auto |-> TRUE, pulled |-> FALSE]
  /\ Init /\ ContextInit /\ RoutingInit /\ RegistryInit /\ CallsInit /\ McpInit /\ ServicesInit /\ VisualInit
  /\ ScheduleInit /\ ChatInit /\ (part = "prompt" <=> log # <<>>) /\ ProvisioningInit /\ (part # "provisioning" => brain.model = "m")
  /\ Unread /\ IF part = "chunks" THEN document \in Documents ELSE document = [each |-> 3, lines |-> <<>>]
  /\ \/ part \in Alone /\ EmptySlots
     \/ part = "watches" /\ Watches!Init

requestVars == <<sessions, mode, handler, question, ran, confirmer, loaded, sent>>
provisioning == <<config, brain, qdrant, cache, where, held, job>>
all == <<part, faults, requestVars, contextVars, routingVars, registry, callVars, mcpVars, serviceVars, visual,
         provisioning, scheduleVars, chatVars, chunkVars, Slots>>

\* It is the turn of one part, and nothing happens to the others.
TurnOf(name) ==
  /\ part = name /\ UNCHANGED part
  /\ name # "requests" => UNCHANGED requestVars
  /\ name # "context" => UNCHANGED contextVars
  /\ name # "routing" => UNCHANGED routingVars
  /\ name # "registry" => UNCHANGED registry
  /\ name # "remote" => UNCHANGED callVars
  /\ name # "mcp" => UNCHANGED mcpVars
  /\ name # "services" => UNCHANGED serviceVars
  /\ name # "visual" => UNCHANGED visual
  /\ name # "provisioning" => UNCHANGED provisioning
  /\ name # "schedule" => UNCHANGED scheduleVars
  /\ name # "prompt" => UNCHANGED chatVars
  /\ name # "chunks" => UNCHANGED chunkVars
  /\ name \in Alone => UNCHANGED Slots

\* Where one fault is enough to see what faults do.
OneFault == faults' <= 1

PartNext ==
  \/ TurnOf("requests") /\ Next /\ OneFault
  \/ TurnOf("context") /\ ContextNext /\ UNCHANGED faults
  \/ TurnOf("routing") /\ RoutingNext /\ UNCHANGED faults
  \/ TurnOf("registry") /\ RegistryNext /\ UNCHANGED faults
  \/ TurnOf("remote") /\ CallsNext /\ OneFault
  \/ TurnOf("mcp") /\ McpNext
  \/ TurnOf("services") /\ ServicesNext
  \/ TurnOf("visual") /\ VisualNext /\ OneFault
  \/ TurnOf("provisioning") /\ ProvisioningNext
  \/ TurnOf("schedule") /\ ScheduleNext /\ UNCHANGED faults
  \/ TurnOf("prompt") /\ ChatNext /\ OneFault
  \/ TurnOf("chunks") /\ ChunksNext /\ UNCHANGED faults
  \/ TurnOf("watches") /\ Watches!Next /\ UNCHANGED faults

PartSpec == PartInit /\ [][PartNext]_all

(* -------------------------------- properties -------------------------------- *)

\* The types of every part.
PartsTypeOK ==
  CASE part = "requests" -> TypeOK
       [] part = "context" -> ContextTypeOK
       [] part = "routing" -> RoutingTypeOK
       [] part = "registry" -> RegistryTypeOK
       [] part = "remote" -> CallsTypeOK
       [] part = "mcp" -> McpTypeOK
       [] part = "services" -> ServicesTypeOK
       [] part = "visual" -> VisualTypeOK
       [] part = "provisioning" -> ProvisioningTypeOK
       [] part = "schedule" -> ScheduleTypeOK
       [] part = "chunks" -> ChunksTypeOK
       [] part = "prompt" -> ChatTypeOK
       [] part = "watches" -> Watches!TypeOK

\* Alerts of a watch are a cooldown apart, whatever crashes or fails between them,
\* and an open incident is the only one of its watch, which knows of it
\* (internal/watch/service.go processWatch).
TwoWatchesHold == part = "watches" => Watches!WatchesHold
===============================================================================
