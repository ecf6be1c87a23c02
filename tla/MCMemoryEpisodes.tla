-------------------------- MODULE MCMemoryEpisodes --------------------------
(* Small instances of MemoryEpisodes for TLC. A behaviour belongs to one part,  *)
(* chosen in Init: conversations and a fact or two, or message handlers that    *)
(* remember facts all at once.                                                 *)
EXTENDS MemoryEpisodes, TLC

CONSTANTS FewFacts   \* bound on the facts that come beside conversations

VARIABLE part

EpisodeIds == 1..MaxEpisodes
SummarizeOnly == {"summarize"}

\* Keys and values are compared only for equality, and handlers do the same.
MessageHandlers == Rememberers \ Workers
Interchangeable == Permutations(Keys) \cup Permutations(Values)
                     \cup Permutations(MessageHandlers)

Conversations == Next /\ drawn' <= FewFacts

FactsAlone ==
  \/ \E h \in MessageHandlers : FactStep(h) \/ HandlerRemembers(h)
  \/ Crash \/ Restart

PartNext ==
  /\ UNCHANGED part
  /\ \/ part = "conversations" /\ Conversations
     \/ part = "facts" /\ FactsAlone

PartInit == Init /\ part \in {"conversations", "facts"}
PartSpec == PartInit /\ [][PartNext]_<<vars, part>>
=============================================================================
