-------------------------------- MODULE MCLive --------------------------------
(* What must happen in the end, of three components that share no state: the   *)
(* agent process with the Telegram intake, a visual watch, and the provisioning *)
(* of memory. A behaviour belongs to one part, chosen in Init; the variables of *)
(* the others stay as they are.                                                *)
EXTENDS AgentProcess, VisualWatch

VARIABLES part, config, brain, qdrant, cache, where, held, job

\* The bot alone, with everything, and with memory and watches.
MCConfigurations == {{}, OptionalParts, {"memory", "watch"}}

\* One model, two faults.
Provisioning == INSTANCE MemoryProvisioning WITH Widths <- [m |-> 3]

processVars == <<intake, process>>
provisioningVars == <<config, brain, qdrant, cache, where, held, job>>
all == <<part, faults, processVars, visual, provisioningVars>>

\* States in which a component has nothing to do, now or later: an agent that was
\* never started, no page to watch, and a source that is indexed.
IdleProcess == ProcessInit /\ mode = "polling" /\ ~drop /\ ~token /\ parts = {}
IdleProvisioning ==
  /\ config = [auto |-> FALSE, pulled |-> TRUE]
  /\ brain = [up |-> TRUE, model |-> "m", installed |-> {"m"}] /\ qdrant = [up |-> TRUE, width |-> 3]
  /\ cache = "empty" /\ held = "nothing" /\ job = "completed"
  /\ where = [who \in Provisioning!Actors |-> "off"]

LiveInit ==
  /\ part \in {"process", "visual", "provisioning"}
  /\ FaultsInit /\ VisualInit
  /\ IF part = "process" THEN ProcessInit ELSE IdleProcess
  /\ IF part = "provisioning" THEN Provisioning!ProvisioningInit ELSE IdleProvisioning

\* One fault is enough for a page that changes twice.
LiveNext ==
  \/ part = "process" /\ ProcessNext /\ UNCHANGED <<part, visual, provisioningVars>>
  \/ part = "visual" /\ VisualNext /\ faults' <= 1
     /\ UNCHANGED <<part, processVars, provisioningVars>>
  \/ part = "provisioning" /\ Provisioning!ProvisioningNext
     /\ UNCHANGED <<part, processVars, visual>>

LiveSpec ==
  /\ LiveInit /\ [][LiveNext]_all
  /\ ProcessFairness /\ VisualFairness
  /\ Provisioning!ProvisioningFairness

(* -------------------------------- properties -------------------------------- *)

\* Memory is provisioned in the end, and what waits for it is indexed
\* (internal/memory/service.go bootstrapLoop).
EventuallyReady ==
  part = "provisioning" => Provisioning!EventuallyProvisioned /\ Provisioning!EventuallyIndexed
===============================================================================
