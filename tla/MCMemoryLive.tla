----------------------------- MODULE MCMemoryLive -----------------------------
(* What must happen in the end in memory: to archived items (MemoryIngest) and  *)
(* to conversations (MemoryEpisodes), which have their own jobs in the queue    *)
(* and are looked at one at a time. A behaviour belongs to one part, chosen in *)
(* Init; the other has nothing to do and stays as it is.                       *)
EXTENDS MCMemoryIngest

VARIABLES part, facts, drawn, remember, met, said, channel, episodes, closer, brain,
  digests, distilled, full, tasks, agents, workers, happened

\* Two episodes and three turns, one fact, one fault.
Episodes == INSTANCE MemoryEpisodes WITH
  Owners <- {1, 2}, Kinds <- {"summarize"}, MaxEpisodes <- 2,
  Keys <- {"k"}, Values <- {"v"}, NoKey <- "none", NoValue <- "none",
  Rememberers <- Workers, MaxFacts <- 1,
  MaxSaid <- 3, Buffer <- 2, MinTurns <- 2, MaxTurns <- 3, ReadLimit <- 10, NoEpisode <- "none",
  Distilled <- {"useful", "empty", "error"}, Events <- {"crash", "db_failed", "outage", "retry"},
  MaxEvents <- 1,
  jobs <- tasks, agent <- agents, worker <- workers, events <- happened

episodeVars == <<facts, drawn, remember, met, said, channel, episodes, closer, brain,
                 digests, distilled, full, tasks, agents, workers, happened>>

LiveInit == part \in {"ingest", "episodes"} /\ Init /\ Episodes!Init

LiveNext ==
  \/ part = "ingest" /\ Next /\ UNCHANGED <<part, episodeVars>>
  \/ part = "episodes" /\ Episodes!Next /\ UNCHANGED <<part, vars>>

LiveSpec ==
  /\ LiveInit /\ [][LiveNext]_<<part, vars, episodeVars>>
  /\ Fairness /\ Episodes!Fairness

(* -------------------------------- properties -------------------------------- *)

\* What was acknowledged is indexed or parked in the end, and the queue drains
\* (internal/memory/ingest.go, internal/memory/store.go).
EventuallyIndexed == part = "ingest" => EventuallySettled /\ QueueDrains

\* A conversation that has gone quiet is closed in the end, and what was closed is
\* distilled or parked (internal/memory/episodes.go, internal/memory/ingest.go).
EventuallyDistilled ==
  part = "episodes" => Episodes!EventuallyClosed /\ Episodes!EventuallyDistilled
===============================================================================
