-------------------------- MODULE MemoryProvisioning --------------------------
(* How memory comes to have an embedding model and a vector collection: the    *)
(* bootstrap loop of the agent (internal/memory/service.go), the ingestion     *)
(* worker that creates the collection lazily (ingest.go), and `openlight       *)
(* memory reindex --all` run from another process beside the agent             *)
(* (retrieve.go), against the brain that serves the model (embed.go,           *)
(* embed_remote.go) and Qdrant (vectorstore/qdrant/qdrant.go).                 *)
(*                                                                             *)
(* What the three share is a number, the width of a vector. A process asks the *)
(* embedder once and remembers the answer; Qdrant remembers it in the          *)
(* collection; the brain may be given another model in the meantime.           *)
(*                                                                             *)
(* One source waits to be indexed, one worker takes it (two creators of the    *)
(* collection besides the worker are enough for every race of the two calls),  *)
(* and the operator runs the rebuild at most once. The brain's model changes   *)
(* only before that rebuild.                                                   *)
EXTENDS Faults, Functions

CONSTANT Widths   \* the width of each embedding model's vectors

\* An empty vector is an error of the embedder (Dimensions).
ASSUME WidthsAssumption == \A m \in DOMAIN Widths : Widths[m] \in Nat \ {0}

VARIABLES
  config,   \* auto: AutoProvision; pulled: the model was on the brain at first
  brain,    \* up, the model it serves, the models installed on it
  qdrant,   \* up, the width of the collection (0: there is none)
  cache,    \* per process: Service.dimensions and the embedder's dims (0: unknown)
  where,    \* where the bootstrap, the worker and the rebuild stand
  held,     \* the width each of them took from its process
  job       \* the ingest job of the source

provisioningVars == <<config, brain, qdrant, cache, where, held, job, faults>>

Models == DOMAIN Widths
Known == {0} \cup Range(Widths)
Actors == {"bootstrap", "worker", "rebuild"}
Process(who) == IF who = "rebuild" THEN "cli" ELSE "agent"

ProvisioningTypeOK ==
  /\ FaultsTypeOK
  /\ config \in [auto : BOOLEAN, pulled : BOOLEAN]
  /\ brain \in [up : BOOLEAN, model : Models, installed : SUBSET Models]
  /\ qdrant \in [up : BOOLEAN, width : Known]
  /\ cache \in [{"agent", "cli"} -> [service : Known, embedder : Known]]
  /\ where \in [Actors -> {"off", "idle", "has", "pull", "confirm", "dims", "exists", "create",
                        "embed", "upsert", "wait", "ready", "drop", "queue", "over"}]
  /\ held \in [Actors -> Known]
  /\ job \in {"pending", "running", "completed"}

NotKnown == [service |-> 0, embedder |-> 0]
FirstStep == IF config.auto THEN "has" ELSE "off"

\* An operator who switches auto_pull off pulls the model by hand.
ProvisioningInit ==
  /\ FaultsInit
  /\ config \in {c \in [auto : BOOLEAN, pulled : BOOLEAN] : c.auto \/ c.pulled}
  /\ \E m \in Models :
       brain = [up |-> TRUE, model |-> m, installed |-> IF config.pulled THEN {m} ELSE {}]
  /\ qdrant = [up |-> TRUE, width |-> 0]
  /\ cache = [p \in {"agent", "cli"} |-> NotKnown]
  /\ where = [w \in Actors |-> IF w = "bootstrap" THEN FirstStep ELSE "idle"]
  /\ held = [w \in Actors |-> 0]
  /\ job = "pending"

GoesTo(who, step) == where' = [where EXCEPT ![who] = step]

\* A bootstrap attempt that failed waits for its timer, a job for its retry; the
\* rebuild ignores a backend that is unavailable.
Unavailable(who) == GoesTo(who, IF who = "rebuild" THEN "queue" ELSE "wait")
Ensured(who) ==
  GoesTo(who, CASE who = "bootstrap" -> "ready" [] who = "worker" -> "embed" [] OTHER -> "queue")

Installed == brain.model \in brain.installed
ModelServed == brain.up /\ Installed
Width == Widths[brain.model]

-------------------------------------------------------------------------------
\* EnsureModel: is the model there, pull it, and look again, because a pull may
\* be answered with 200 and have done nothing.
HasModel ==
  /\ where["bootstrap"] = "has"
  /\ IF ~brain.up THEN Unavailable("bootstrap")
     ELSE GoesTo("bootstrap", IF Installed THEN "dims" ELSE "pull")
  /\ NoFault
  /\ UNCHANGED <<config, brain, qdrant, cache, held, job>>

Pull ==
  /\ where["bootstrap"] = "pull"
  /\ \/ brain.up /\ GoesTo("bootstrap", "confirm") /\ NoFault
        /\ brain' = [brain EXCEPT !.installed = @ \cup {brain.model}]
     \/ brain.up /\ CanFail("pull_empty") /\ Fault /\ GoesTo("bootstrap", "confirm") /\ UNCHANGED brain
     \/ ~brain.up /\ Unavailable("bootstrap") /\ NoFault /\ UNCHANGED brain
  /\ UNCHANGED <<config, qdrant, cache, held, job>>

ConfirmModel ==
  /\ where["bootstrap"] = "confirm"
  /\ IF ModelServed THEN GoesTo("bootstrap", "dims") ELSE Unavailable("bootstrap")
  /\ NoFault
  /\ UNCHANGED <<config, brain, qdrant, cache, held, job>>

\* vectorDimensions: the service's answer, else the embedder's, else a probe.
VectorDimensions(who) ==
  LET mine == cache[Process(who)] IN
  LET found == IF mine.service > 0 THEN mine.service
               ELSE IF mine.embedder > 0 THEN mine.embedder
               ELSE IF ModelServed THEN Width ELSE 0 IN
  /\ where[who] = "dims"
  /\ IF found = 0
     THEN Unavailable(who) /\ UNCHANGED <<cache, held>>
     ELSE /\ GoesTo(who, "exists")
          /\ held' = [held EXCEPT ![who] = found]
          /\ cache' = [cache EXCEPT ![Process(who)] =
                         [service |-> found, embedder |-> IF @.embedder = 0 THEN found ELSE @.embedder]]
  /\ NoFault
  /\ UNCHANGED <<config, brain, qdrant, job>>

\* EnsureCollection is two calls; a collection that exists is taken as it is,
\* and "already exists" is no error.
CollectionExists(who) ==
  /\ where[who] = "exists"
  /\ IF ~qdrant.up THEN Unavailable(who)
     ELSE IF qdrant.width > 0 THEN Ensured(who) ELSE GoesTo(who, "create")
  /\ NoFault
  /\ UNCHANGED <<config, brain, qdrant, cache, held, job>>

\* Faulty: the second of two creators takes "already exists" for a failure.
CreateCollectionStrict(who) ==
  /\ where[who] = "create"
  /\ IF qdrant.up /\ qdrant.width = 0
     THEN Ensured(who) /\ qdrant' = [qdrant EXCEPT !.width = held[who]]
     ELSE Unavailable(who) /\ UNCHANGED qdrant
  /\ NoFault
  /\ UNCHANGED <<config, brain, cache, held, job>>

CreateCollection(who) ==
  /\ where[who] = "create"
  /\ IF qdrant.up
     THEN Ensured(who) /\ qdrant' = [qdrant EXCEPT !.width = IF @ = 0 THEN held[who] ELSE @]
     ELSE Unavailable(who) /\ UNCHANGED qdrant
  /\ NoFault
  /\ UNCHANGED <<config, brain, cache, held, job>>

-------------------------------------------------------------------------------
\* The worker.
Claim ==
  /\ where["worker"] = "idle" /\ job = "pending"
  /\ job' = "running" /\ GoesTo("worker", "dims") /\ NoFault
  /\ UNCHANGED <<config, brain, qdrant, cache, held>>

\* Embed: the batch sets the embedder's dims, never the service's.
Embed ==
  /\ where["worker"] = "embed"
  /\ IF ModelServed
     THEN /\ GoesTo("worker", "upsert")
          /\ cache' = [cache EXCEPT !["agent"].embedder = Width]
          /\ held' = [held EXCEPT !["worker"] = Width]
     ELSE Unavailable("worker") /\ UNCHANGED <<cache, held>>
  /\ NoFault
  /\ UNCHANGED <<config, brain, qdrant, job>>

\* Upsert: a point of another width is refused, and every refusal counts as
\* "unavailable".
Upsert ==
  /\ where["worker"] = "upsert"
  /\ IF qdrant.up /\ qdrant.width = held["worker"]
     THEN job' = "completed" /\ GoesTo("worker", "idle")
     ELSE Unavailable("worker") /\ UNCHANGED job
  /\ NoFault
  /\ UNCHANGED <<config, brain, qdrant, cache, held>>

\* The job's backoff is over.
RetryJob ==
  /\ where["worker"] = "wait"
  /\ job' = "pending" /\ GoesTo("worker", "idle") /\ NoFault
  /\ UNCHANGED <<config, brain, qdrant, cache, held>>

\* Faulty: the loop gives up where it should wait.
NextAttemptNever == FALSE /\ UNCHANGED provisioningVars

\* bootstrapLoop: the timer of the next attempt (5 s, doubled up to 5 min).
NextAttempt ==
  /\ where["bootstrap"] = "wait"
  /\ GoesTo("bootstrap", "has") /\ NoFault
  /\ UNCHANGED <<config, brain, qdrant, cache, held, job>>

-------------------------------------------------------------------------------
\* `memory reindex --all` in a process of its own.
StartRebuild ==
  /\ where["rebuild"] = "idle"
  /\ GoesTo("rebuild", "drop") /\ NoFault
  /\ UNCHANGED <<config, brain, qdrant, cache, held, job>>

DropCollection ==
  /\ where["rebuild"] = "drop"
  /\ GoesTo("rebuild", "dims")
  /\ qdrant' = [qdrant EXCEPT !.width = IF qdrant.up THEN 0 ELSE @]
  /\ NoFault
  /\ UNCHANGED <<config, brain, cache, held, job>>

\* EnqueueJob: a row that is pending or running stays as it is.
Enqueue ==
  /\ where["rebuild"] = "queue"
  /\ GoesTo("rebuild", "over")
  /\ job' = IF job = "completed" THEN "pending" ELSE job
  /\ NoFault
  /\ UNCHANGED <<config, brain, qdrant, cache, held>>

-------------------------------------------------------------------------------
BrainSleeps ==
  /\ brain.up /\ CanFail("asleep") /\ Fault
  /\ brain' = [brain EXCEPT !.up = FALSE]
  /\ UNCHANGED <<config, qdrant, cache, where, held, job>>
BrainWakes ==
  /\ ~brain.up /\ NoFault
  /\ brain' = [brain EXCEPT !.up = TRUE]
  /\ UNCHANGED <<config, qdrant, cache, where, held, job>>

\* The brain owns the model: it comes back with another one.
ModelChanges ==
  /\ CanFail("model_changed") /\ Fault /\ where["rebuild"] = "idle"
  /\ \E m \in Models \ {brain.model} :
       brain' = [brain EXCEPT !.model = m, !.installed = @ \cup {m}]
  /\ UNCHANGED <<config, qdrant, cache, where, held, job>>

QdrantStops ==
  /\ qdrant.up /\ CanFail("qdrant_down") /\ Fault
  /\ qdrant' = [qdrant EXCEPT !.up = FALSE]
  /\ UNCHANGED <<config, brain, cache, where, held, job>>
\* It returns with its volume, or without it.
QdrantReturns ==
  /\ ~qdrant.up
  /\ \/ qdrant' = [qdrant EXCEPT !.up = TRUE] /\ NoFault
     \/ CanFail("volume_wiped") /\ Fault /\ qdrant' = [up |-> TRUE, width |-> 0]
  /\ UNCHANGED <<config, brain, cache, where, held, job>>

\* The agent is killed and started again: New, ReclaimRunningJobs, Run.
AgentRestarts ==
  /\ CanFail("restart") /\ Fault
  /\ cache' = [cache EXCEPT !["agent"] = NotKnown]
  /\ where' = [where EXCEPT !["bootstrap"] = FirstStep, !["worker"] = "idle"]
  /\ held' = [held EXCEPT !["bootstrap"] = 0, !["worker"] = 0]
  /\ job' = IF job = "running" THEN "pending" ELSE job
  /\ UNCHANGED <<config, brain, qdrant>>

Ensures(who) == VectorDimensions(who) \/ CollectionExists(who) \/ CreateCollection(who)
Bootstraps == HasModel \/ Pull \/ ConfirmModel \/ NextAttempt \/ Ensures("bootstrap")
Works == Claim \/ Embed \/ Upsert \/ RetryJob \/ Ensures("worker")
Rebuilds == DropCollection \/ Enqueue \/ Ensures("rebuild")

ProvisioningNext ==
  \/ Bootstraps \/ Works \/ StartRebuild \/ Rebuilds
  \/ BrainSleeps \/ BrainWakes \/ ModelChanges \/ QdrantStops \/ QdrantReturns \/ AgentRestarts

\* The goroutines run, a backend that went away comes back.
ProvisioningFairness ==
  /\ WF_provisioningVars(Bootstraps) /\ WF_provisioningVars(Works)
  /\ WF_provisioningVars(Rebuilds)
  /\ WF_provisioningVars(BrainWakes) /\ WF_provisioningVars(QdrantReturns)

ProvisioningSpec ==
  ProvisioningInit /\ FaultsInit /\ [][ProvisioningNext]_provisioningVars /\ ProvisioningFairness

-------------------------------------------------------------------------------
\* While no backend fails and nobody rebuilds, the three creators of the
\* collection never make an attempt fail, whatever their order (qdrant.go:120,
\* service.go:330), and a bootstrap that is ready has left the served model
\* installed and a collection of its width.
ProvisioningHolds ==
  faults = 0 /\ where["rebuild"] = "idle" =>
    /\ config.pulled => "wait" \notin Range(where)
    /\ where["bootstrap"] = "ready" => Installed /\ qdrant.width = Width

\* The bootstrap succeeds in the end, however often the brain was asleep, Qdrant
\* away or the agent restarted (service.go:322).
EventuallyProvisioned == config.auto => <>[](where["bootstrap"] = "ready")

\* The waiting source is indexed in the end, whatever was dropped, wiped or
\* restarted meanwhile (service.go:331, retrieve.go:270).
EventuallyIndexed == <>[](job = "completed")
===============================================================================
