--------------------------- MODULE ArchivePromise ---------------------------
(***************************************************************************)
(* What the long-term memory promises about the items handed to it         *)
(* (docs/MEMORY.md "Dedup, retries, and outages"): an item that has been   *)
(* taken on stays owed until it is indexed or parked for a human, a parked *)
(* item can be put back to work, and an indexed item stays indexed.  What  *)
(* happens in between, and to how many items at once, is left open.        *)
(***************************************************************************)
CONSTANT Items
VARIABLE fate

Fates == {"unknown", "owed", "parked", "indexed"}

Lawful == {<<"unknown", "owed">>, <<"owed", "indexed">>, <<"owed", "parked">>,
           <<"parked", "owed">>}

Init == fate = [i \in Items |-> "unknown"]

Next ==
  /\ fate' \in [Items -> Fates]
  /\ \A i \in Items : fate'[i] = fate[i] \/ <<fate[i], fate'[i]>> \in Lawful

Spec == Init /\ [][Next]_fate
=============================================================================
