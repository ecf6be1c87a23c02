---------------------------- MODULE SkillRegistry ----------------------------
(* internal/skills.Registry and what fills it while the agent starts: the      *)
(* modules of BuildRegistryWithWatch in their order, the stubs of the brain's  *)
(* skills, and local modules. An identifier stands for all spellings that      *)
(* normalizeIdentifier makes equal.                                            *)
EXTENDS Naturals, FiniteSets, SequencesExt

CONSTANTS
  SkillIdentifiers,  \* names and aliases to try; a bound
  CoreNames,         \* names the core module (start, ping, skills, help) uses
  Offers             \* Offers[o]: definitions an origin may offer

\* The order in which BuildRegistryWithWatch and its caller register. Of the
\* modules compiled in one stands for all; core is the last of them.
Origins == <<"builtin", "mcp", "external", "core", "remote", "local">>
OriginSet == ToSet(Origins)
\* root and valid matter to manifests: the directory list they come from, and
\* whether skill.yaml can be read and its entrypoint exists.
Definitions == [name : SkillIdentifiers, aliases : Seq(SkillIdentifiers), root : Nat, valid : BOOLEAN]

NoOrigin == "none"

\* The names of the core module are what it offers.
ASSUME RegistryAssumption ==
  /\ NoOrigin \notin SkillIdentifiers
  /\ \A origin \in OriginSet : Offers[origin] \subseteq Definitions
  /\ CoreNames = {d.name : d \in Offers["core"]}

VARIABLES
  byName,     \* byName[i]: the origin of the skill of that name, or NoOrigin
  byAlias,    \* byAlias[i]: the name an identifier leads to, or NoOrigin
  turn,       \* of Origins
  offered,    \* what the origin at its turn has offered so far
  start       \* "building", "running" or "failed"

registry == <<byName, byAlias, turn, offered, start>>

RegistryTypeOK ==
  /\ byName \in [SkillIdentifiers -> OriginSet \cup {NoOrigin}]
  /\ byAlias \in [SkillIdentifiers -> SkillIdentifiers \cup {NoOrigin}]
  /\ turn \in 1 .. Len(Origins) + 1
  /\ offered \subseteq Definitions
  /\ start \in {"building", "running", "failed"}

RegistryInit ==
  /\ byName = [i \in SkillIdentifiers |-> NoOrigin]
  /\ byAlias = [i \in SkillIdentifiers |-> NoOrigin]
  /\ turn = 1 /\ offered = {} /\ start = "building"

\* What typing an identifier leads to: a name wins over an alias.
ResolveIdentifier(i) ==
  LET name == IF byName[i] = NoOrigin /\ byAlias[i] # NoOrigin THEN byAlias[i] ELSE i
  IN [name |-> name, origin |-> byName[name]]

Listed(d) == <<d.name>> \o d.aliases
Taken(d, i) == byAlias[i] \notin {NoOrigin, d.name}

\* Faulty: a name that is taken is registered again.
RegisterOver(d, origin) ==
  /\ byName' = [byName EXCEPT ![d.name] = origin]
  /\ byAlias' = [i \in SkillIdentifiers |-> IF i \in ToSet(Listed(d)) THEN d.name ELSE byAlias[i]]

\* A name is taken once. The aliases follow one by one, and the first that leads
\* elsewhere already is an error that leaves the name and those before it.
Register(d, origin) ==
  IF byName[d.name] # NoOrigin THEN UNCHANGED <<byName, byAlias>>
  ELSE LET ids == Listed(d)
           stored == {ids[n] : n \in {k \in 1 .. Len(ids) : \A m \in 1 .. k : ~Taken(d, ids[m])}}
       IN /\ byName' = [byName EXCEPT ![d.name] = origin]
          /\ byAlias' = [i \in SkillIdentifiers |-> IF i \in stored THEN d.name ELSE byAlias[i]]

Clashes(d) == byName[d.name] # NoOrigin \/ \E i \in ToSet(Listed(d)) : Taken(d, i)

\* Manifests that cannot be used are logged and left out; of two with a name the
\* one in the earlier root counts.
Discovered(manifests) ==
  {d \in manifests : d.valid /\ \A e \in manifests : e.valid /\ e.name = d.name => d.root <= e.root}

Offered(origin) == IF origin = "external" THEN Discovered(Offers[origin]) ELSE Offers[origin]

\* Errors of manifests, stubs and local modules are logged, the others end the
\* start.
Fatal(origin) == origin \in {"builtin", "mcp", "core"}

Offer ==
  /\ start = "building" /\ turn <= Len(Origins)
  /\ \E d \in Offered(Origins[turn]) \ offered :
       /\ Register(d, Origins[turn])
       /\ offered' = offered \cup {d}
       /\ start' = IF Clashes(d) /\ Fatal(Origins[turn]) THEN "failed" ELSE start
  /\ UNCHANGED turn

\* The core module offers all it has.
NextOrigin ==
  /\ start = "building" /\ turn <= Len(Origins)
  /\ Origins[turn] = "core" => offered = Offers["core"]
  /\ turn' = turn + 1 /\ offered' = {}
  /\ start' = IF turn = Len(Origins) THEN "running" ELSE start
  /\ UNCHANGED <<byName, byAlias>>

RegistryNext == Offer \/ NextOrigin

RegistrySpec == RegistryInit /\ [][RegistryNext]_registry

(* -------------------------------- properties -------------------------------- *)

\* What runs under a name is what was registered under it first: neither a
\* manifest, nor a stub, nor a local module takes the name of a skill away
\* (Registry.Register).
NamesKept == \A i \in SkillIdentifiers : byName[i] # NoOrigin => byName'[i] = byName[i]

\* What is listed leads to a skill, whatever was refused half-way.
AliasesLead ==
  \A i \in SkillIdentifiers : byAlias[i] # NoOrigin =>
    byName[byAlias[i]] # NoOrigin /\ ResolveIdentifier(i).origin # NoOrigin

\* In an agent that starts, typing a core command runs the core module's code.
CoreComplete ==
  start = "running" => \A i \in CoreNames : ResolveIdentifier(i).origin = "core"

\* A name stays with the skill that took it first, an alias never leads nowhere,
\* and an agent that starts has every core command (Registry.Register).
RegistryHolds == [](AliasesLead /\ CoreComplete) /\ [][NamesKept]_registry
=============================================================================
