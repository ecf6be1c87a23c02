---------------------------- MODULE MCWatchService ----------------------------
(* Small instances of WatchService for TLC. *)
EXTENDS WatchService

CONSTANTS a, b   \* two watches

OneWatch == {a}
NotifyMode == [w \in Watches |-> "notify"]
AutoMode == [w \in Watches |-> "auto"]
AskMode == [w \in Watches |-> "ask"]
=============================================================================
