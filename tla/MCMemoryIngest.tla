--------------------------- MODULE MCMemoryIngest ---------------------------
(* Small instances of MemoryIngest for TLC. *)
EXTENDS MemoryIngest, TLC

CONSTANT item   \* a content hash

OneSource == {item}
IngestOnly == {"ingest", "facts"}
NoneRemembered == {}

\* An item may fail, be unsupported or lose its RAW file.
MixedOutcome == [s \in Sources |-> {"ok", "error", "unsupported", "raw_missing"}]
FlakyOutcome == [s \in Sources |-> {"ok", "error"}]
UnsupportedOutcome == [s \in Sources |-> {"unsupported"}]
\* Workers are interchangeable (not used by the liveness runs).
WorkerSymmetry == Permutations(Workers)
=============================================================================
