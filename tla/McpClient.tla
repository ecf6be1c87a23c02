------------------------------ MODULE McpClient ------------------------------
(* internal/mcp.Client over one server process: requests and answers are lines  *)
(* on its pipes, calls are serialised by a mutex, and each call reads its       *)
(* answer in a goroutine of its own that a timeout leaves behind. With the      *)
(* start of the server by internal/skills/mcp.Manager.                          *)
EXTENDS Faults, FiniteSets, SequencesExt

CONSTANTS ToolCalls   \* calls of tools; a bound

\* The manager's own two calls, in this order and without a deadline.
Handshake == <<"initialize", "list">>
Callers == ToolCalls \cup ToSet(Handshake)
ASSUME McpAssumption == ToolCalls \cap ToSet(Handshake) = {}
\* id 0 stands for a notification or a line that is no message of ours.
NoLine == [id |-> 0, error |-> FALSE]

VARIABLES
  server,     \* "none", "up", "dead" (still referred to) or "skipped"
  mcall,      \* mcall[c]: id of its request, and what became of the call
  lastId,
  pending,    \* ids the server has read and not answered
  unread,     \* what the server has written and nobody has read
  readers     \* calls whose goroutine is reading

mcpVars == <<server, mcall, lastId, pending, unread, readers>>

CallStates == [state : {"new", "waiting", "ok", "failed", "mismatch", "timeout"}, id : Nat, got : Nat]
Lines == [id : Nat, error : BOOLEAN]

McpTypeOK ==
  /\ server \in {"none", "up", "dead", "skipped"}
  /\ mcall \in [Callers -> CallStates] /\ lastId \in Nat
  /\ readers \subseteq Callers /\ pending \subseteq 1 .. lastId /\ unread \in Seq(Lines)

McpInit ==
  /\ server = "none" /\ lastId = 0 /\ pending = {} /\ unread = <<>> /\ readers = {}
  /\ mcall = [c \in Callers |-> [state |-> "new", id |-> 0, got |-> 0]]

Waits(c) == mcall[c].state = "waiting"
\* Client.mu is held from the request to the answer or the end of the wait.
Free == \A c \in Callers : ~Waits(c)

\* The process is started; whether it will answer is another matter.
StartServer ==
  /\ server = "none"
  /\ \/ server' = "up" /\ NoFault
     \/ CanFail("spawn_failed") /\ server' = "skipped" /\ Fault
  /\ UNCHANGED <<mcall, lastId, pending, unread, readers>>

ListOk == mcall["list"].state = "ok"
Due(c) ==
  CASE c = "initialize" -> TRUE
    [] c = "list" -> mcall["initialize"].state = "ok"
    [] OTHER -> ListOk

\* Client.call: takes the mutex, writes the request and starts the reader. A
\* server that is gone cannot be written to.
Call(c) ==
  /\ Free /\ server \in {"up", "dead"} /\ mcall[c].state = "new" /\ Due(c)
  /\ lastId' = lastId + 1
  /\ IF server = "dead"
     THEN mcall' = [mcall EXCEPT ![c].state = "failed", ![c].id = lastId'] /\ UNCHANGED <<pending, readers>>
     ELSE /\ mcall' = [mcall EXCEPT ![c].state = "waiting", ![c].id = lastId']
          /\ pending' = pending \cup {lastId'}
          /\ readers' = readers \cup {c}
  /\ NoFault /\ UNCHANGED <<server, unread>>

ServerAnswers ==
  /\ server = "up"
  /\ \E i \in pending, e \in BOOLEAN :
       pending' = pending \ {i} /\ unread' = Append(unread, [id |-> i, error |-> e])
  /\ NoFault /\ UNCHANGED <<server, mcall, lastId, readers>>

ServerNotifies ==
  /\ server = "up" /\ CanFail("server_notifies")
  /\ unread' = Append(unread, NoLine)
  /\ Fault /\ UNCHANGED <<server, mcall, lastId, pending, readers>>

\* Faulty: the id of an answer is not looked at.
OutcomeUnchecked(line, id) == IF line.error THEN "failed" ELSE "ok"

\* An error is looked at before the id is.
Outcome(line, id) ==
  IF line.error THEN "failed" ELSE IF line.id # id THEN "mismatch" ELSE "ok"

Returns(c, state, line) ==
  mcall' = IF Waits(c) THEN [mcall EXCEPT ![c].state = state, ![c].got = line.id] ELSE mcall

\* A goroutine reads a line and ends. Two that read at the same time share one
\* bufio.Reader without a lock: besides getting a line each, one may get
\* something that is no JSON, or have its line overwritten and read on.
ReadLine ==
  /\ unread # <<>> /\ unread' = Tail(unread)
  /\ \E c \in readers :
       \/ /\ Returns(c, Outcome(Head(unread), mcall[c].id), Head(unread))
          /\ readers' = readers \ {c}
       \/ /\ readers # {c}
          /\ Returns(c, "failed", NoLine)
          /\ readers' = readers \ {c}
       \/ readers # {c} /\ UNCHANGED <<mcall, readers>>
  /\ NoFault /\ UNCHANGED <<server, lastId, pending>>

\* The request's context ends; the goroutine reads on.
CallTimesOut(c) ==
  /\ c \in ToolCalls /\ Waits(c) /\ CanFail("tool_slow")
  /\ mcall' = [mcall EXCEPT ![c].state = "timeout"]
  /\ Fault /\ UNCHANGED <<server, lastId, pending, unread, readers>>

\* Every reader sees the end of the output once the lines before it are read.
ServerDies ==
  /\ server = "up" /\ CanFail("server_dies")
  /\ server' = "dead" /\ pending' = {}
  /\ Fault /\ UNCHANGED <<mcall, lastId, unread, readers>>

EndOfOutput ==
  /\ server \in {"dead", "skipped"} /\ unread = <<>>
  /\ \E c \in readers : Returns(c, "failed", NoLine) /\ readers' = readers \ {c}
  /\ NoFault /\ UNCHANGED <<server, lastId, pending, unread>>

\* A server whose handshake failed, or that offers no tool that is allowed, is
\* closed and left out.
SkipServer ==
  /\ server \in {"up", "dead"}
  /\ \/ \E n \in 1 .. 2 : mcall[Handshake[n]].state \in {"failed", "mismatch"}
     \/ ListOk /\ \A c \in ToolCalls : mcall[c].state = "new"
  /\ server' = "skipped" /\ pending' = {}
  /\ NoFault /\ UNCHANGED <<mcall, lastId, unread, readers>>

McpNext ==
  \/ StartServer \/ ServerAnswers \/ ServerNotifies \/ ReadLine \/ ServerDies \/ EndOfOutput \/ SkipServer
  \/ \E c \in Callers : Call(c) \/ CallTimesOut(c)

McpSpec == McpInit /\ FaultsInit /\ [][McpNext]_<<mcpVars, faults>>

(* -------------------------------- properties -------------------------------- *)

\* A result handed out is the server's answer to that very call, whatever timed
\* out before it and whoever read the line (Client.call).
OwnAnswers == \A c \in Callers : mcall[c].state = "ok" => mcall[c].got = mcall[c].id

\* While nothing times out and the server only answers, one call is under way
\* and one goroutine reads, so no call meets the answer of another (Client.mu).
InStep ==
  faults = 0 =>
    /\ Cardinality(readers) <= 1 /\ Cardinality(pending) <= 1
    /\ \A c \in Callers : mcall[c].state # "mismatch"

\* A call gets the answer to that call, and calls are read one after another
\* (Client.call, Client.mu).
ToolCallsHold == OwnAnswers /\ InStep
=============================================================================
