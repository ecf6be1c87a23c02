---------------------------- MODULE HostServices ----------------------------
(* internal/skills/services: the allowed services of this and other hosts, and  *)
(* a request about one of them as the commands it runs - each answer decides    *)
(* whether another command is tried. One request at a time: the manager keeps   *)
(* nothing between two of them.                                                 *)
EXTENDS Faults, FiniteSets, SequencesExt

CONSTANTS
  Inventories,    \* allowed-service lists a configuration may hold; a bound
  RemoteHosts,    \* hosts configured for SSH
  LocalSystemd    \* whether this host is Linux

None == "none"
NoRequest == [kind |-> None, service |-> ""]
Mutating == {"restart", "exec"}

\* Names of services, as people spell them and as systemd does.
Display(name) == IF name = "tailscaled" THEN "tailscale" ELSE name
Canonical(unit) == IF unit = "tailscale" THEN "tailscaled" ELSE unit

\* An entry of the list, [alias, unit, host, backend], and what it names.
\* Without an alias it is a systemd unit of this host.
NameOf(entry) == Display(IF entry.alias = "" THEN entry.unit ELSE entry.alias)
Unit(entry) ==
  CASE entry.backend = "systemd" -> Canonical(entry.unit)
    [] entry.backend = "compose" -> IF entry.unit = "" THEN NameOf(entry) ELSE Display(entry.unit)
    [] entry.backend = "docker"  -> entry.unit

\* A bad entry, a name given twice or an unknown host: no manager at all.
Acceptable(inventory) ==
  /\ \A e \in inventory : e.backend \in {"systemd", "docker"} => e.unit # ""
  /\ \A e, f \in inventory : NameOf(e) = NameOf(f) => e = f
  /\ \A e \in inventory : e.host \in RemoteHosts \cup {""}

Backends == {"systemd", "docker", "compose"}
ASSUME InventoriesAssumption ==
  \A inventory \in Inventories : \A e \in inventory : e.backend \in Backends /\ NameOf(e) # None

NewManager(inventory) ==
  [name \in {NameOf(e) : e \in inventory} |->
     LET e == CHOOSE e \in inventory : NameOf(e) = name
     IN  [unit |-> Unit(e), host |-> e.host, backend |-> e.backend]]

VARIABLES
  services,   \* the manager's targets by name
  request,    \* what is asked, or NoRequest
  todo,       \* names still to be asked for
  found,      \* what was found out of those asked, by name
  asked,      \* the name asked for at present, or None
  command,    \* the command to run next, or None
  attempts,   \* commands run for this request, in order
  expired,    \* whether the request's deadline has passed
  answer      \* None until the request is answered

serviceVars == <<services, request, todo, found, asked, command, attempts, expired, answer>>

ServiceRequests ==
  [kind : {"list"}, service : {""}] \cup
  [kind : {"status", "restart", "logs", "exec"}, service : DOMAIN services \cup {"", "tailscaled", "unheard-of"}]

ServiceCommands ==
  {"systemctl show", "systemctl restart", "journalctl", "run", "sudo systemctl restart",
   "docker inspect", "docker restart", "docker logs", "docker exec",
   "docker compose", "docker-compose", "docker-compose ps", "docker-compose ps -q", "docker-compose ps -a -q"}
States == {"running", "exited", "nothing"}
Attempts ==
  [name : DOMAIN services, unit : {services[n].unit : n \in DOMAIN services}, host : RemoteHosts \cup {""},
   command : ServiceCommands, ok : BOOLEAN, effect : BOOLEAN,
   says : States \cup {"", "other", "denied", "no_compose", "no_format"}, fault : {None, "own_error", "deadline"}]

ServicesTypeOK ==
  /\ \A name \in DOMAIN services : services[name].host \in RemoteHosts \cup {""} /\ services[name].backend \in Backends
  /\ request \in ServiceRequests \cup {NoRequest}
  /\ asked \in DOMAIN services \cup {None} /\ todo \subseteq DOMAIN services
  /\ DOMAIN found \subseteq DOMAIN services /\ found \in [DOMAIN found -> {"active", "inactive", "unknown", "done"}]
  /\ command \in ServiceCommands \cup {None} /\ attempts \in Seq(Attempts) /\ expired \in BOOLEAN
  /\ answer \in {None, "done", "failed", "refused", "listed"}

ServicesInit ==
  /\ services \in {NewManager(i) : i \in {j \in Inventories : Acceptable(j)}}
  /\ request = NoRequest /\ todo = {} /\ found = <<>> /\ asked = None
  /\ command = None /\ attempts = <<>> /\ expired = FALSE /\ answer = None

\* A skill is executed. An empty name is one for status and logs only, who then
\* list the services to see whether there is just one.
Lists(r) == r.kind = "list" \/ r.service = ""
AskService(r) ==
  /\ request = NoRequest /\ request' = r
  /\ IF Lists(r) /\ r.kind \notin Mutating THEN todo' = DOMAIN services /\ UNCHANGED answer
     ELSE IF Display(r.service) \in DOMAIN services THEN todo' = {Display(r.service)} /\ UNCHANGED answer
     ELSE answer' = "refused" /\ UNCHANGED todo
  /\ NoFault /\ UNCHANGED <<services, found, asked, command, attempts, expired>>

\* What is run for one name: its status while listing, else what was asked.
Kind == IF Lists(request) THEN "status" ELSE request.kind

First(kind, backend) ==
  CASE backend = "compose" -> "docker compose"
    [] backend = "systemd" -> [status |-> "systemctl show", restart |-> "systemctl restart", logs |-> "journalctl", exec |-> "run"][kind]
    [] backend = "docker"  -> [status |-> "docker inspect", restart |-> "docker restart", logs |-> "docker logs", exec |-> "docker exec"][kind]

\* validateBackendOnHost
Runnable(target) == target.backend # "systemd" \/ target.host # "" \/ LocalSystemd

Record(name, state) == found' = [n \in DOMAIN found \cup {name} |-> IF n = name THEN state ELSE found[n]]

\* Manager.List takes the names in alphabetical order; any order is allowed here.
AskFor(name) ==
  /\ answer = None /\ asked = None /\ name \in todo
  /\ IF Runnable(services[name])
     THEN /\ asked' = name /\ command' = First(Kind, services[name].backend)
          /\ UNCHANGED <<todo, found>>
     ELSE /\ todo' = todo \ {name} /\ Record(name, "unknown")
          /\ UNCHANGED <<asked, command>>
  /\ NoFault /\ UNCHANGED <<services, request, attempts, expired, answer>>

\* Faulty: any failure of docker compose is tried again with docker-compose.
LegacyAlways(ok, says) == ~ok
\* What the error text of docker compose makes of the second program.
Legacy(ok, says) == ~ok /\ says = "no_compose"

Denied(target, ok, says) == ~ok /\ says = "denied" /\ target.host = ""
Unformatted(ok, says) == ~ok /\ says = "no_format" /\ Kind = "status"

\* A compose without --format: its table, then the container's id among those
\* running, then among all.
Look(c, ok, says) ==
  CASE c = "docker-compose ps" /\ (~ok \/ says = "nothing") -> "docker-compose ps -q"
    [] c = "docker-compose ps -q" /\ ok /\ says = "nothing" -> "docker-compose ps -a -q"
    [] c \in {"docker-compose ps -q", "docker-compose ps -a -q"} /\ ok /\ says # "nothing" -> "docker inspect"
    [] OTHER -> None

\* The command that follows one that ended like this, if any.
Retry(target, c, ok, says) ==
  CASE c = "systemctl restart" /\ Denied(target, ok, says) -> "sudo systemctl restart"
    [] c = "docker compose" /\ Legacy(ok, says) -> "docker-compose"
    [] c \in {"docker compose", "docker-compose"} /\ Unformatted(ok, says) -> "docker-compose ps"
    [] OTHER -> Look(c, ok, says)

\* composeActiveState; systemd's own word is taken as it is.
ActiveState(says) == IF says = "running" THEN "active" ELSE "inactive"

\* The end of one name's commands.
StateFound(ok, says) ==
  IF ~ok \/ (Kind = "status" /\ says = "nothing") THEN "unknown"
  ELSE IF Kind = "status" THEN ActiveState(says) ELSE "done"

\* A command has run, here or through SSH, and ended so. effect: it did, or began
\* to do, what was asked; fault: it is one of the things that may go wrong.
Ran(ok, effect, says, fault) ==
  LET target == services[asked]
      more   == Retry(target, command, ok, says)
  IN  /\ attempts' = Append(attempts, [name |-> asked, unit |-> target.unit, host |-> target.host, command |-> command,
                                       ok |-> ok, effect |-> effect, says |-> says, fault |-> fault])
      /\ command' = more
      /\ IF more # None THEN UNCHANGED <<todo, found, asked>>
         ELSE /\ Record(asked, StateFound(ok, says))
              /\ todo' = todo \ {asked} /\ asked' = None

Does == Kind \in Mutating

Run ==
  /\ command # None /\ ~expired
  /\ \/ \E says \in IF Kind = "status" THEN States ELSE {""} : Ran(TRUE, Does, says, None)
     \/ \E effect \in {FALSE, Does} : Ran(FALSE, effect, "other", None)
     \/ command \in {"systemctl restart", "sudo systemctl restart"} /\ Ran(FALSE, FALSE, "denied", None)
     \/ command = "docker compose" /\ Ran(FALSE, FALSE, "no_compose", None)
     \/ Kind = "status" /\ command \in {"docker compose", "docker-compose"} /\ Ran(FALSE, FALSE, "no_format", None)
  /\ NoFault /\ UNCHANGED <<services, request, expired, answer>>

\* A container's own "executable file not found" or "command not found", from a
\* command in it or from its start after a restart, reads like docker's.
OwnError ==
  /\ command = "docker compose" /\ ~expired /\ Does /\ CanFail("own_error")
  /\ Ran(FALSE, TRUE, "no_compose", "own_error")
  /\ Fault /\ UNCHANGED <<services, request, expired, answer>>

\* The deadline passes or the connection breaks; what was running may go on.
Expire ==
  /\ command # None /\ ~expired /\ CanFail("deadline")
  /\ \E effect \in {FALSE, Does} : Ran(FALSE, effect, "other", "deadline")
  /\ expired' = TRUE
  /\ Fault /\ UNCHANGED <<services, request, answer>>

TooLate ==
  /\ command # None /\ expired
  /\ Ran(FALSE, FALSE, "other", "deadline")
  /\ NoFault /\ UNCHANGED <<services, request, expired, answer>>

\* resolveOptionalService: the only service there is, if there is only one.
Only ==
  /\ answer = None /\ request # NoRequest /\ todo = {} /\ request.kind # "list" /\ request.service = ""
  /\ IF Cardinality(DOMAIN services) = 1
     THEN \E name \in DOMAIN services :
            /\ request' = [request EXCEPT !.service = name]
            /\ todo' = {name} /\ UNCHANGED answer
     ELSE answer' = "refused" /\ UNCHANGED <<request, todo>>
  /\ NoFault /\ UNCHANGED <<services, found, asked, command, attempts, expired>>

AnswerService ==
  /\ answer = None /\ request # NoRequest /\ todo = {}
  /\ \/ request.kind = "list" /\ answer' = "listed"
     \/ request.kind # "list" /\ request.service # ""
        /\ answer' = IF found[Display(request.service)] = "unknown" THEN "failed" ELSE "done"
  /\ NoFault /\ UNCHANGED <<services, request, todo, found, asked, command, attempts, expired>>

\* The next request finds nothing of this one.
Forget ==
  /\ answer # None
  /\ request' = NoRequest /\ found' = <<>> /\ attempts' = <<>> /\ expired' = FALSE /\ answer' = None
  /\ NoFault /\ UNCHANGED <<services, todo, asked, command>>

ServicesNext ==
  \/ \E r \in ServiceRequests : AskService(r)
  \/ \E name \in DOMAIN services : AskFor(name)
  \/ Run \/ OwnError \/ Expire \/ TooLate \/ Only \/ AnswerService \/ Forget

ServicesSpec == ServicesInit /\ FaultsInit /\ [][ServicesNext]_<<serviceVars, faults>>

\* No request restarts a service or runs a command in it twice, unless an error
\* of the service's own was read as docker's (manager.go:1050): the second
\* try follows failures that changed nothing only.
RunsOnce ==
  \A i, j \in DOMAIN attempts :
    i < j /\ attempts[i].effect /\ attempts[j].effect => attempts[i].fault = "own_error"

\* What is told of a service comes from a command about that service and no
\* other: "active" only if one found it running, done only if one succeeded, and
\* a list names every service, reachable or not.
ToldOfItself ==
  /\ \A name \in DOMAIN found : found[name] \in {"active", "done"} =>
       \E i \in DOMAIN attempts : /\ attempts[i].name = name /\ attempts[i].ok
                                  /\ attempts[i].unit = services[name].unit /\ attempts[i].host = services[name].host
                                  /\ found[name] = "active" => attempts[i].says = "running"
  /\ answer = "listed" => DOMAIN found = DOMAIN services
  /\ answer = "done" => attempts # <<>> /\ Last(attempts).ok /\ Last(attempts).name = Display(request.service)

\* No request acts on a service twice, and what is told of a service was found
\* out about that service (manager.go).
ServicesHold == RunsOnce /\ ToldOfItself
=============================================================================
